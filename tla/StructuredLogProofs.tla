------------------------ MODULE StructuredLogProofs ------------------------
(***************************************************************************)
(* Proofs about StructuredLog, for any number of crawlers, lines and       *)
(* rotations.                                                              *)
(***************************************************************************)
EXTENDS StructuredLog, TLAPS

LastOf(c, file) == LastBefore(c, file, Len(file) + 1)

-----------------------------------------------------------------------------
(* What holds of one file, and what may be appended to it.                 *)

InOrder(c, file) ==
    \A k \in WrittenBy(c, file) :
        IF LastBefore(c, file, k) = {}
        THEN file[k].line = 1 /\ file[k].part # "newline"
        ELSE \A j \in LastBefore(c, file, k) : Follows(file[j], file[k])

TornAsAllowed(file) ==
    \A k \in DOMAIN file :
        LET f == file[k]
            before == file[k - 1]
        IN  IF f.part = "newline"
            THEN k > 1 /\ (before.by = f.by => Follows(before, f))
            ELSE \/ k = 1
                 \/ EndsLine(before)
                 \/ before.part = "cut"
                 \/ before.part = "text" /\ before.by # f.by

FileSound(file) == TornAsAllowed(file) /\ \A c \in Crawlers : InOrder(c, file)

\* g continues what its crawler has in the file.
Fits(c, file, g) ==
    IF LastOf(c, file) = {}
    THEN g.line = 1 /\ g.part # "newline"
    ELSE \A j \in LastOf(c, file) : Follows(file[j], g)

\* The places of the longer file are those of the shorter one and its last.
LEMMA PlacesAfterAppend ==
  ASSUME NEW file \in Seq(Fragments), NEW g \in Fragments, NEW c
  PROVE  \A m : m \in WrittenBy(c, file \o <<g>>) <=>
                \/ m \in WrittenBy(c, file)
                \/ m = Len(file) + 1 /\ g.by = c
<1> DEFINE longer == file \o <<g>>
<1>1. /\ DOMAIN longer = 1 .. Len(file) + 1 /\ DOMAIN file = 1 .. Len(file)
      /\ longer[Len(file) + 1] = g /\ Len(file) \in Nat
      /\ \A k \in 1 .. Len(file) : longer[k] = file[k]
  OBVIOUS
<1> HIDE DEF longer
<1>2. \A m : m \in WrittenBy(c, longer) <=>
                \/ m \in WrittenBy(c, file)
                \/ m = Len(file) + 1 /\ g.by = c
  BY <1>1 DEF WrittenBy
<1> QED
  BY <1>2 DEF longer

LEMMA BeforeAfterAppend ==
  ASSUME NEW file \in Seq(Fragments), NEW g \in Fragments, NEW c,
         NEW k \in 1 .. Len(file) + 1
  PROVE  LastBefore(c, file \o <<g>>, k) = LastBefore(c, file, k)
<1>1. WrittenBy(c, file) \subseteq 1 .. Len(file) /\ Len(file) \in Nat
  BY DEF WrittenBy
<1> QED
  BY <1>1, PlacesAfterAppend DEF LastBefore

LEMMA LastAfterAppend ==
  ASSUME NEW file \in Seq(Fragments), NEW g \in Fragments, NEW c
  PROVE  LastOf(c, file \o <<g>>) =
           IF g.by = c THEN {Len(file) + 1} ELSE LastOf(c, file)
<1>1. /\ WrittenBy(c, file) \subseteq 1 .. Len(file) /\ Len(file) \in Nat
      /\ Len(file \o <<g>>) = Len(file) + 1
  BY DEF WrittenBy
<1>2. \A m : m \in WrittenBy(c, file \o <<g>>) <=>
            \/ m \in WrittenBy(c, file)
            \/ m = Len(file) + 1 /\ g.by = c
  BY PlacesAfterAppend
<1>3. CASE g.by = c
  <2> DEFINE n == Len(file)
             places == WrittenBy(c, file \o <<g>>)
  <2>1. n \in Nat /\ n + 1 \in places /\ places \subseteq 1 .. n + 1
    BY <1>1, <1>2, <1>3
  <2>2. LastOf(c, file \o <<g>>) =
          {j \in places : j < n + 2 /\ \A m \in places : m < n + 2 => m <= j}
    BY <1>1 DEF LastOf, LastBefore
  <2> HIDE DEF n, places
  <2>3. {j \in places : j < n + 2 /\ \A m \in places : m < n + 2 => m <= j}
          = {n + 1}
    <3>1. \A j \in places : j \in Int /\ j < n + 2
      BY <2>1
    <3>2. \A j \in places :
             (\A m \in places : m < n + 2 => m <= j) <=> j = n + 1
      BY <2>1, <3>1
    <3> QED
      BY <2>1, <3>1, <3>2
  <2> QED
    BY <1>3, <2>2, <2>3 DEF n
<1>4. CASE g.by # c
  BY <1>1, <1>2, <1>4 DEF LastOf, LastBefore
<1> QED
  BY <1>3, <1>4

LEMMA AppendKeepsSound ==
  ASSUME NEW file \in Seq(Fragments), NEW g \in Fragments, FileSound(file),
         Fits(g.by, file, g)
  PROVE  FileSound(file \o <<g>>)
<1> DEFINE end == Len(file) + 1
<1> SUFFICES ASSUME NEW longer, longer = file \o <<g>>
             PROVE  FileSound(longer)
  OBVIOUS
<1>1. /\ longer \in Seq(Fragments) /\ Len(longer) = end /\ end \in Nat
      /\ longer[end] = g
      /\ \A k \in 1 .. Len(file) : longer[k] = file[k] /\ file[k] \in Fragments
      /\ DOMAIN longer = 1 .. end /\ DOMAIN file = 1 .. Len(file)
  OBVIOUS
<1>2. ASSUME NEW c
      PROVE  /\ \A m : m \in WrittenBy(c, longer) <=>
                          \/ m \in WrittenBy(c, file)
                          \/ m = end /\ g.by = c
             /\ \A k \in 1 .. end :
                   LastBefore(c, longer, k) = LastBefore(c, file, k)
  BY PlacesAfterAppend, BeforeAfterAppend
<1>3. ASSUME NEW c \in Crawlers PROVE InOrder(c, longer)
  <2> SUFFICES ASSUME NEW k \in WrittenBy(c, longer)
               PROVE  IF LastBefore(c, longer, k) = {}
                      THEN longer[k].line = 1 /\ longer[k].part # "newline"
                      ELSE \A j \in LastBefore(c, longer, k) :
                              Follows(longer[j], longer[k])
    BY DEF InOrder
  <2>1. /\ WrittenBy(c, file) \subseteq 1 .. Len(file)
        /\ LastBefore(c, file, k) \subseteq 1 .. Len(file)
    BY <1>1 DEF WrittenBy, LastBefore
  <2>2. CASE k \in WrittenBy(c, file)
    <3>1. LastBefore(c, longer, k) = LastBefore(c, file, k)
      BY <1>1, <1>2, <2>1, <2>2
    <3>2. longer[k] = file[k]
      BY <1>1, <2>1, <2>2
    <3> QED
      BY <1>1, <2>1, <2>2, <3>1, <3>2 DEF FileSound, InOrder
  <2>3. CASE k = end /\ g.by = c
    <3>1. LastBefore(c, longer, k) = LastOf(c, file)
      BY <1>1, <1>2, <2>3 DEF LastOf
    <3>2. longer[k] = g
      BY <1>1, <2>3
    <3> QED
      BY <1>1, <2>1, <2>3, <3>1, <3>2 DEF Fits, LastOf
  <2> QED
    BY <1>2, <2>2, <2>3
<1>4. TornAsAllowed(longer)
  <2> SUFFICES ASSUME NEW k \in 1 .. end
               PROVE  IF longer[k].part = "newline"
                      THEN /\ k > 1
                           /\ longer[k - 1].by = longer[k].by
                                => Follows(longer[k - 1], longer[k])
                      ELSE \/ k = 1
                           \/ EndsLine(longer[k - 1])
                           \/ longer[k - 1].part = "cut"
                           \/ /\ longer[k - 1].part = "text"
                              /\ longer[k - 1].by # longer[k].by
    BY <1>1 DEF TornAsAllowed
  <2>1. CASE k # end
    <3>1. longer[k] = file[k] /\ (k > 1 => longer[k - 1] = file[k - 1])
      BY <1>1, <2>1
    <3>2. k \in DOMAIN file
      BY <1>1, <2>1
    <3> QED
      BY <3>1, <3>2 DEF FileSound, TornAsAllowed
  <2>2. CASE k = end
    <3> DEFINE before == file[Len(file)]
    <3>1. longer[k] = g
      BY <1>1, <2>2
    <3>2. CASE Len(file) = 0
      <4>1. LastOf(g.by, file) = {}
        BY <1>1, <3>2 DEF LastOf, LastBefore, WrittenBy
      <4> QED
        BY <1>1, <2>2, <3>1, <3>2, <4>1 DEF Fits
    <3>3. CASE Len(file) # 0
      <4>1. before \in Fragments /\ longer[k - 1] = before /\ k > 1
        BY <1>1, <2>2, <3>3
      <4>2. before.by = g.by => Len(file) \in LastOf(g.by, file)
        BY <1>1, <3>3 DEF LastOf, LastBefore, WrittenBy
      <4>3. before.by = g.by => Follows(before, g)
        BY <4>2 DEF Fits
      <4> HIDE DEF before
      <4> QED
        BY <3>1, <4>1, <4>3 DEF Follows, EndsLine, Fragments, Parts
    <3> QED
      BY <3>2, <3>3
  <2> QED
    BY <2>1, <2>2
<1> QED
  BY <1>3, <1>4 DEF FileSound

-----------------------------------------------------------------------------
(* The invariant.                                                          *)

\* What a crawler that has a file open wrote last, and may still write.
StreamSound(c, file) ==
    /\ ~ bad[c] =>
          /\ buffer[c] = <<>>
          /\ logged[c] = 0 \/ LastOf(c, file) # {}
          /\ LastOf(c, file) = {} => logged[c] = 0 /\ pc[c] # "newline"
          /\ \A k \in LastOf(c, file) :
                /\ file[k].line = logged[c]
                /\ IF pc[c] = "newline" THEN file[k].part = "text"
                   ELSE EndsLine(file[k]) \/ pc[c] = "killed"
    /\ bad[c] =>
          /\ pc[c] # "newline"
          /\ \/ buffer[c] = <<>>
             \/ \E g \in Fragments :
                   /\ buffer[c] = <<g>>
                   /\ g.by = c /\ g.line <= logged[c]
                   /\ g.part \in {"whole", "newline"}
                   /\ Fits(c, file, g)

StreamKept(c) == StreamSound(c, files[open[c]])

\* A crawler that has no file open has written nothing.
CrawlerSound(c) ==
    /\ open[c] <= Len(files)
    /\ pc[c] = "construct" => open[c] = NoFile /\ logged[c] = 0
    /\ IF open[c] = NoFile
       THEN ~ bad[c] /\ buffer[c] = <<>> /\ pc[c] # "newline"
       ELSE StreamSound(c, files[open[c]])
    /\ \A i \in DOMAIN files : \A k \in WrittenBy(c, files[i]) :
          i = open[c] /\ files[i][k].line <= logged[c]

LInv == /\ TypeOK
        /\ \A i \in DOMAIN files : FileSound(files[i])
        /\ \A c \in Crawlers : CrawlerSound(c)

LEMMA EmptyFile ==
  /\ <<>> \in Seq(Fragments)
  /\ FileSound(<<>>)
  /\ \A c : WrittenBy(c, <<>>) = {} /\ LastOf(c, <<>>) = {}
  BY DEF FileSound, TornAsAllowed, InOrder, WrittenBy, LastOf, LastBefore

LEMMA LInvInit == Init => LInv
<1> SUFFICES ASSUME Init PROVE LInv
  OBVIOUS
<1>1. /\ files = <<<<>>>> /\ Len(files) = 1 /\ files[1] = <<>>
      /\ DOMAIN files = {1} /\ files \in Seq(Seq(Fragments))
  BY EmptyFile DEF Init
<1>2. TypeOK
  <2>1. 1 \in FileIds /\ 0 \in 0 .. MaxLines
    BY LogAssumption DEF FileIds
  <2>2. <<>> \in Seq(Fragments)
    BY EmptyFile
  <2> QED
    BY <1>1, <2>1, <2>2 DEF Init, TypeOK
<1>3. \A c \in Crawlers : CrawlerSound(c)
  <2> SUFFICES ASSUME NEW c \in Crawlers PROVE CrawlerSound(c)
    OBVIOUS
  <2>1. \A i \in DOMAIN files : WrittenBy(c, files[i]) = {}
    BY <1>1, EmptyFile
  <2>2. /\ open[c] = NoFile /\ logged[c] = 0 /\ ~ bad[c]
        /\ buffer[c] = <<>> /\ pc[c] # "newline"
    BY DEF Init
  <2> QED
    BY <1>1, <2>1, <2>2 DEF CrawlerSound, NoFile
<1> QED
  BY <1>1, <1>2, <1>3, EmptyFile DEF LInv

LEMMA Implied == LInv => LogFollowsItsCrawler /\ TornOnlyBetweenCrawlers
<1> SUFFICES ASSUME LInv PROVE LogFollowsItsCrawler /\ TornOnlyBetweenCrawlers
  OBVIOUS
<1>1. TornOnlyBetweenCrawlers
  BY DEF LInv, FileSound, TornAsAllowed, TornOnlyBetweenCrawlers
<1>2. LogFollowsItsCrawler
  <2> SUFFICES ASSUME NEW c \in Crawlers, NEW i \in DOMAIN files
               PROVE  /\ \A k \in WrittenBy(c, files[i]) :
                           /\ i = open[c]
                           /\ files[i][k].line <= logged[c]
                      /\ InOrder(c, files[i])
                      /\ i = open[c] /\ ~ bad[c] /\ logged[c] > 0 =>
                           \E k \in LastOf(c, files[i]) :
                              /\ files[i][k].line = logged[c]
                              /\ \/ EndsLine(files[i][k])
                                 \/ pc[c] \in {"newline", "killed"}
    BY DEF LogFollowsItsCrawler, InOrder, LastOf
  <2>1. CrawlerSound(c) /\ InOrder(c, files[i])
    BY DEF LInv, FileSound
  <2>2. ASSUME i = open[c], ~ bad[c], logged[c] > 0
        PROVE  \E k \in LastOf(c, files[i]) :
                  /\ files[i][k].line = logged[c]
                  /\ \/ EndsLine(files[i][k])
                     \/ pc[c] \in {"newline", "killed"}
    <3>1. StreamSound(c, files[i])
      BY <2>1, <2>2 DEF CrawlerSound, LInv, TypeOK, NoFile
    <3>2. PICK k \in LastOf(c, files[i]) : TRUE
      BY <2>2, <3>1 DEF StreamSound
    <3> QED
      BY <2>2, <3>1, <3>2 DEF StreamSound
  <2> QED
    BY <2>1, <2>2 DEF CrawlerSound
<1> QED
  BY <1>1, <1>2

-----------------------------------------------------------------------------
(* Appending, and what it leaves alone.                                    *)

\* A crawler finds in the longer file what it wrote, where it was.
SameFor(d, file, longer) ==
    /\ WrittenBy(d, longer) = WrittenBy(d, file)
    /\ LastOf(d, longer) = LastOf(d, file)
    /\ \A k \in WrittenBy(d, file) : longer[k] = file[k]

StandsStill(d) ==
    /\ pc'[d] = pc[d] /\ open'[d] = open[d] /\ bad'[d] = bad[d]
    /\ buffer'[d] = buffer[d] /\ logged'[d] = logged[d]

LEMMA FilesAreTyped ==
  ASSUME TypeOK
  PROVE  /\ Len(files) \in Nat \ {0} /\ DOMAIN files = 1 .. Len(files)
         /\ \A i \in DOMAIN files : files[i] \in Seq(Fragments)
         /\ \A c \in Crawlers : open[c] \in Nat
  BY LogAssumption DEF TypeOK, FileIds, NoFile

LEMMA OthersStaySound ==
  ASSUME LInv, NEW d \in Crawlers, StandsStill(d),
         DOMAIN files \subseteq DOMAIN files', Len(files) <= Len(files'),
         Len(files') \in Nat,
         \A i \in DOMAIN files : SameFor(d, files[i], files'[i]),
         \A i \in DOMAIN files' \ DOMAIN files : WrittenBy(d, files'[i]) = {}
  PROVE  CrawlerSound(d)'
<1>1. CrawlerSound(d) /\ TypeOK
  BY DEF LInv
<1>2. open'[d] <= Len(files')
  BY <1>1, FilesAreTyped DEF CrawlerSound, StandsStill
<1>3. \A i \in DOMAIN files' : \A k \in WrittenBy(d, files'[i]) :
         i = open'[d] /\ files'[i][k].line <= logged'[d]
  BY <1>1 DEF CrawlerSound, SameFor, StandsStill
<1>4. ASSUME open[d] # NoFile
      PROVE  StreamSound(d, files[open[d]])'
  <2> DEFINE file == files[open[d]]
             longer == files'[open[d]]
  <2>1. open[d] \in DOMAIN files /\ StreamSound(d, file)
    BY <1>1, <1>4, FilesAreTyped DEF CrawlerSound, NoFile
  <2>2. SameFor(d, file, longer)
    BY <2>1
  <2>3. LastOf(d, file) \subseteq WrittenBy(d, file)
    BY DEF LastOf, LastBefore
  <2>4. \A g : Fits(d, file, g) => Fits(d, longer, g)
    BY <2>2, <2>3 DEF Fits, SameFor
  <2>5. \A k \in LastOf(d, longer) :
           k \in LastOf(d, file) /\ longer[k] = file[k]
    BY <2>2, <2>3 DEF SameFor
  <2>6. (LastOf(d, longer) = {}) <=> (LastOf(d, file) = {})
    BY <2>2 DEF SameFor
  <2>7. files[open[d]]' = longer
    BY DEF StandsStill
  <2> HIDE DEF file, longer
  <2> QED
    BY <2>1, <2>4, <2>5, <2>6, <2>7 DEF StreamSound, StandsStill
<1> QED
  BY <1>1, <1>2, <1>3, <1>4 DEF CrawlerSound, StandsStill

LEMMA Appending ==
  ASSUME LInv, NEW c \in Crawlers, open[c] # NoFile,
         NEW g \in Fragments, g.by = c, Fits(c, files[open[c]], g),
         files' = [files EXCEPT ![open[c]] = @ \o <<g>>]
  PROVE  /\ files' \in Seq(Seq(Fragments)) /\ Len(files') = Len(files)
         /\ DOMAIN files' = DOMAIN files
         /\ \A i \in DOMAIN files : FileSound(files'[i])
         /\ \A d \in Crawlers \ {c} : \A i \in DOMAIN files :
               SameFor(d, files[i], files'[i])
         /\ \E k : /\ LastOf(c, files'[open[c]]) = {k}
                   /\ files'[open[c]][k] = g
         /\ \A i \in DOMAIN files : \A k \in WrittenBy(c, files'[i]) :
               /\ i = open[c]
               /\ files'[i][k].line <= logged[c] \/ files'[i][k] = g
<1> DEFINE i0 == open[c]
           file == files[i0]
           longer == file \o <<g>>
<1>1. /\ i0 \in DOMAIN files /\ file \in Seq(Fragments) /\ FileSound(file)
      /\ CrawlerSound(c)
  BY FilesAreTyped DEF LInv, CrawlerSound, NoFile
<1>2. /\ longer \in Seq(Fragments) /\ longer[Len(file) + 1] = g
      /\ DOMAIN file = 1 .. Len(file) /\ Len(file) \in Nat
      /\ \A k \in 1 .. Len(file) : longer[k] = file[k]
  BY <1>1
<1>3. /\ files' \in Seq(Seq(Fragments)) /\ Len(files') = Len(files)
      /\ DOMAIN files' = DOMAIN files
      /\ \A i \in DOMAIN files : files'[i] = IF i = i0 THEN longer ELSE files[i]
  BY <1>1, <1>2 DEF LInv, TypeOK
<1>4. \A d : WrittenBy(d, file) \subseteq 1 .. Len(file)
  BY <1>2 DEF WrittenBy
<1>5. FileSound(longer)
  BY <1>1, AppendKeepsSound
<1>6. ASSUME NEW d \in Crawlers \ {c} PROVE SameFor(d, file, longer)
  <2>1. WrittenBy(d, longer) = WrittenBy(d, file)
    <3>1. \A m : m \in WrittenBy(d, longer) <=> m \in WrittenBy(d, file)
      BY <1>1, PlacesAfterAppend
    <3> QED
      BY <3>1
  <2>2. LastOf(d, longer) = LastOf(d, file)
    BY <1>1, LastAfterAppend
  <2> HIDE DEF longer, file
  <2> QED
    BY <1>2, <1>4, <2>1, <2>2 DEF SameFor
<1>7. LastOf(c, longer) = {Len(file) + 1}
  BY <1>1, LastAfterAppend
<1>8. \A m \in WrittenBy(c, longer) :
         m \in WrittenBy(c, file) \/ m = Len(file) + 1
  BY <1>1, PlacesAfterAppend
<1>9. \A k \in WrittenBy(c, file) : file[k].line <= logged[c]
  BY <1>1 DEF CrawlerSound
<1>10. \A k \in WrittenBy(c, longer) :
          longer[k].line <= logged[c] \/ longer[k] = g
  <2> HIDE DEF longer, file
  <2> QED
    BY <1>2, <1>4, <1>8, <1>9
<1>11. \A i \in DOMAIN files : i # i0 => WrittenBy(c, files[i]) = {}
  BY <1>1 DEF CrawlerSound
<1> HIDE DEF longer, file
<1>12. \A i \in DOMAIN files : FileSound(files'[i])
  BY <1>3, <1>5 DEF LInv
<1>13. \A d \in Crawlers \ {c} : \A i \in DOMAIN files :
          SameFor(d, files[i], files'[i])
  BY <1>3, <1>6 DEF SameFor, file
<1>14. \A i \in DOMAIN files : \A k \in WrittenBy(c, files'[i]) :
          /\ i = open[c]
          /\ files'[i][k].line <= logged[c] \/ files'[i][k] = g
  BY <1>3, <1>10, <1>11
<1>15. /\ LastOf(c, files'[i0]) = {Len(file) + 1}
       /\ files'[i0][Len(file) + 1] = g
  BY <1>1, <1>2, <1>3, <1>7
<1> QED
  BY <1>3, <1>12, <1>13, <1>14, <1>15

-----------------------------------------------------------------------------
(* The steps that append.                                                  *)

\* What a crawler leaves alone by appending a fragment of its own.
LEMMA AppendStep ==
  ASSUME LInv, NEW c \in Crawlers, open[c] # NoFile,
         NEW g \in Fragments, g.by = c, Fits(c, files[open[c]], g),
         files' = [files EXCEPT ![open[c]] = @ \o <<g>>],
         TypeOK', open'[c] = open[c], pc'[c] # "construct",
         g.line <= logged'[c], logged[c] <= logged'[c],
         \A d \in Crawlers \ {c} : StandsStill(d),
         \A k : LastOf(c, files'[open[c]]) = {k} /\ files'[open[c]][k] = g
                   => StreamKept(c)'
  PROVE  LInv'
<1>1. TypeOK /\ CrawlerSound(c)
  BY DEF LInv
<1>2. /\ Len(files') = Len(files) /\ DOMAIN files' = DOMAIN files
      /\ Len(files) \in Nat
  BY Appending, FilesAreTyped, <1>1
<1>3. \A i \in DOMAIN files : FileSound(files'[i])
  BY Appending
<1>4. ASSUME NEW d \in Crawlers \ {c} PROVE CrawlerSound(d)'
  <2>1. \A i \in DOMAIN files : SameFor(d, files[i], files'[i])
    BY Appending
  <2> QED
    BY <1>2, <2>1, OthersStaySound
<1>5. StreamKept(c)'
  <2>1. \E k : /\ LastOf(c, files'[open[c]]) = {k}
               /\ files'[open[c]][k] = g
    BY Appending
  <2> QED
    BY <2>1
<1>6. \A i \in DOMAIN files : \A k \in WrittenBy(c, files'[i]) :
         i = open'[c] /\ files'[i][k].line <= logged'[c]
  <2>1. \A i \in DOMAIN files : \A k \in WrittenBy(c, files'[i]) :
           /\ i = open[c]
           /\ files'[i][k].line <= logged[c] \/ files'[i][k] = g
    BY Appending
  <2> SUFFICES ASSUME NEW i \in DOMAIN files, NEW k \in WrittenBy(c, files'[i])
               PROVE  i = open[c] /\ files'[i][k].line <= logged'[c]
    OBVIOUS
  <2> DEFINE f == files'[i][k]
  <2>2. f \in Fragments
    <3>1. files'[i] \in Seq(Fragments)
      BY <1>2 DEF TypeOK
    <3>2. k \in 1 .. Len(files'[i])
      BY <3>1 DEF WrittenBy
    <3> QED
      BY <3>1, <3>2
  <2>3. i = open[c] /\ (f.line <= logged[c] \/ f = g)
    BY <2>1
  <2> HIDE DEF f
  <2>4. f.line \in Int /\ logged[c] \in Int /\ logged'[c] \in Int
    BY <1>1, <2>2, LogAssumption DEF TypeOK, Fragments, Lines
  <2>5. f.line <= logged'[c]
    BY <2>3, <2>4
  <2> QED
    BY <2>3, <2>5 DEF f
<1>7. CrawlerSound(c)'
  BY <1>1, <1>2, <1>5, <1>6 DEF CrawlerSound, StreamKept
<1> QED
  BY <1>2, <1>3, <1>4, <1>7 DEF LInv

-----------------------------------------------------------------------------
(* Type correctness.                                                       *)

LEMMA WriteIsTyped ==
  ASSUME TypeOK, NEW c \in Crawlers, open[c] # NoFile, open[c] <= Len(files),
         NEW fragments \in Seq(Fragments), Write(c, fragments)
  PROVE  files' \in Seq(Seq(Fragments)) /\ Len(files') = Len(files)
<1>1. open[c] \in DOMAIN files /\ files[open[c]] \in Seq(Fragments)
  BY FilesAreTyped DEF NoFile
<1>2. files[open[c]] \o fragments \in Seq(Fragments)
  BY <1>1
<1> QED
  BY <1>1, <1>2 DEF Write, TypeOK

LEMMA LogTypeStep == LInv /\ [Next]_vars => TypeOK'
<1> SUFFICES ASSUME LInv, [Next]_vars PROVE TypeOK'
  OBVIOUS
<1>1. TypeOK
  BY DEF LInv
<1>2. CASE UNCHANGED vars
  BY <1>1, <1>2 DEF vars, TypeOK
<1>3. CASE Rotate
  <2>1. /\ files' = Append(files, <<>>) /\ <<>> \in Seq(Fragments)
        /\ Len(files) \in Nat /\ Len(files) <= MaxRotations
    BY <1>1, <1>3, FilesAreTyped DEF Rotate
  <2>2. files' \in Seq(Seq(Fragments)) /\ Len(files') = Len(files) + 1
    BY <1>1, <2>1 DEF TypeOK
  <2>3. Len(files') \in FileIds
    BY <2>1, <2>2, LogAssumption DEF FileIds
  <2> QED
    BY <1>1, <1>3, <2>2, <2>3 DEF Rotate, TypeOK
<1>4. ASSUME NEW c \in Crawlers, Step(c) PROVE TypeOK'
  <2>1. open[c] <= Len(files)
    BY DEF LInv, CrawlerSound
  <2>2. CASE Open(c)
    BY <1>1, <2>2 DEF Open, GoTo, TypeOK
  <2>3. CASE WithoutFile(c) \/ OpenFails(c) \/ Kill(c)
    BY <1>1, <2>3 DEF WithoutFile, OpenFails, Kill, GoTo, TypeOK
  <2>4. ASSUME NextLine(c)
        PROVE  /\ logged' \in [Crawlers -> 0 .. MaxLines]
               /\ logged[c] + 1 \in Lines
    BY <1>1, <2>4, LogAssumption DEF NextLine, TypeOK, Lines
  <2>5. CASE WriteShortLine(c) \/ WriteLongText(c)
    <3>1. NextLine(c)
      BY <2>5 DEF WriteShortLine, WriteLongText
    <3>2. PICK part \in Parts : Appends(c, logged[c] + 1, part)
      BY <2>5 DEF WriteShortLine, WriteLongText, Parts
    <3>3. <<Fragment(c, logged[c] + 1, part)>> \in Seq(Fragments)
      BY <2>4, <3>1 DEF Fragment, Fragments
    <3>4. files' \in Seq(Seq(Fragments)) /\ Len(files') = Len(files)
      BY <1>1, <2>1, <3>1, <3>2, <3>3, WriteIsTyped DEF Appends, NextLine
    <3> QED
      BY <1>1, <2>4, <2>5, <3>1, <3>4
      DEF WriteShortLine, WriteLongText, GoTo, TypeOK
  <2>6. CASE WriteNewline(c) \/ WriteNewlineFails(c)
    <3>1. open[c] # NoFile /\ logged[c] \in Lines
      <4>1. pc[c] = "newline"
        BY <2>6 DEF WriteNewline, WriteNewlineFails
      <4>2. open[c] # NoFile
        BY <4>1 DEF LInv, CrawlerSound
      <4>3. StreamSound(c, files[open[c]]) /\ open[c] \in DOMAIN files
        BY <1>1, <4>2, FilesAreTyped DEF LInv, CrawlerSound, NoFile
      <4>4. PICK k \in LastOf(c, files[open[c]]) :
                    files[open[c]][k].line = logged[c]
        BY <4>1, <4>3 DEF StreamSound
      <4>5. files[open[c]] \in Seq(Fragments)
        BY <1>1, <4>3, FilesAreTyped
      <4>6. files[open[c]][k] \in Fragments
        BY <4>5 DEF LastOf, LastBefore, WrittenBy
      <4> QED
        BY <4>2, <4>4, <4>6 DEF Fragments
    <3>2. <<Fragment(c, logged[c], "newline")>> \in Seq(Fragments)
      BY <3>1 DEF Fragment, Fragments, Parts
    <3>3. CASE WriteNewline(c)
      <4>1. files' \in Seq(Seq(Fragments)) /\ Len(files') = Len(files)
        BY <1>1, <2>1, <3>1, <3>2, <3>3, WriteIsTyped
        DEF WriteNewline, Appends
      <4> QED
        BY <1>1, <3>3, <4>1 DEF WriteNewline, GoTo, TypeOK
    <3>4. CASE WriteNewlineFails(c)
      BY <1>1, <3>2, <3>4 DEF WriteNewlineFails, StreamFails, GoTo, TypeOK
    <3> QED
      BY <2>6, <3>3, <3>4
  <2>7. CASE WriteLineFails(c)
    <3>1. NextLine(c)
      BY <2>7 DEF WriteLineFails
    <3>2. \A part \in Parts :
             <<Fragment(c, logged[c] + 1, part)>> \in Seq(Fragments)
      BY <2>4, <3>1 DEF Fragment, Fragments
    <3>3. files' \in Seq(Seq(Fragments)) /\ Len(files') = Len(files)
      <4>1. CASE Appends(c, logged[c] + 1, "cut")
        BY <1>1, <2>1, <3>1, <3>2, <4>1, WriteIsTyped
        DEF Appends, NextLine, Parts
      <4>2. CASE UNCHANGED files
        BY <1>1, <4>2 DEF TypeOK
      <4> QED
        BY <2>7, <4>1, <4>2 DEF WriteLineFails
    <3>4. buffer' \in [Crawlers -> Seq(Fragments)]
          /\ bad' \in [Crawlers -> BOOLEAN]
      <4>1. <<>> \in Seq(Fragments)
        OBVIOUS
      <4>2. <<Fragment(c, logged[c] + 1, "whole")>> \in Seq(Fragments)
        BY <3>2 DEF Parts
      <4> QED
        BY <1>1, <2>7, <4>1, <4>2 DEF WriteLineFails, StreamFails, TypeOK
    <3> QED
      BY <1>1, <2>4, <2>7, <3>1, <3>3, <3>4 DEF WriteLineFails, TypeOK
  <2>8. CASE DropLine(c)
    BY <1>1, <2>8, LogAssumption DEF DropLine, TypeOK
  <2>9. CASE Close(c)
    <3>1. files' \in Seq(Seq(Fragments)) /\ Len(files') = Len(files)
      <4>1. CASE UNCHANGED files
        BY <1>1, <4>1 DEF TypeOK
      <4>2. ASSUME buffer[c] # <<>>
            PROVE  open[c] # NoFile /\ buffer[c] \in Seq(Fragments)
        BY <1>1, <4>2 DEF LInv, CrawlerSound, TypeOK
      <4>3. CASE buffer[c] # <<>> /\ Write(c, buffer[c])
        BY <1>1, <2>1, <4>2, <4>3, WriteIsTyped
      <4>4. CASE buffer[c] # <<>> /\ Appends(c, buffer[c][1].line, "cut")
        <5> DEFINE kept == buffer[c]
        <5>1. kept[1] \in Fragments
          <6>1. kept \in Seq(Fragments) /\ kept # <<>>
            BY <4>2, <4>4
          <6> HIDE DEF kept
          <6> QED
            BY <6>1
        <5>2. <<Fragment(c, buffer[c][1].line, "cut")>> \in Seq(Fragments)
          BY <5>1 DEF Fragment, Fragments, Parts
        <5> QED
          BY <1>1, <2>1, <4>2, <4>4, <5>2, WriteIsTyped DEF Appends
      <4> QED
        BY <2>9, <4>1, <4>3, <4>4 DEF Close
    <3>2. <<>> \in Seq(Fragments)
      OBVIOUS
    <3> QED
      BY <1>1, <2>9, <3>1, <3>2 DEF Close, GoTo, TypeOK
  <2> QED
    BY <1>4, <2>2, <2>3, <2>5, <2>6, <2>7, <2>8, <2>9 DEF Step
<1> QED
  BY <1>2, <1>3, <1>4 DEF Next

-----------------------------------------------------------------------------
(* The invariant is kept.                                                  *)

\* Steps that write nothing: the files stay, and so does what the other
\* crawlers know.
LEMMA UnwrittenStep ==
  ASSUME LInv, TypeOK', NEW c \in Crawlers, UNCHANGED files,
         \A d \in Crawlers \ {c} : StandsStill(d),
         open'[c] <= Len(files),
         logged[c] <= logged'[c],
         \A i \in DOMAIN files : i # open'[c] => WrittenBy(c, files[i]) = {},
         pc'[c] = "construct" => open'[c] = NoFile /\ logged'[c] = 0,
         IF open'[c] = NoFile
         THEN ~ bad'[c] /\ buffer'[c] = <<>> /\ pc'[c] # "newline"
         ELSE StreamKept(c)'
  PROVE  LInv'
<1>1. TypeOK /\ CrawlerSound(c) /\ Len(files) \in Nat
  BY FilesAreTyped DEF LInv
<1>2. ASSUME NEW d \in Crawlers \ {c} PROVE CrawlerSound(d)'
  <2>1. \A i \in DOMAIN files : SameFor(d, files[i], files'[i])
    BY DEF SameFor
  <2> QED
    BY <1>1, <2>1, OthersStaySound
<1>3. \A i \in DOMAIN files : \A k \in WrittenBy(c, files[i]) :
         i = open'[c] /\ files[i][k].line <= logged'[c]
  <2> SUFFICES ASSUME NEW i \in DOMAIN files, NEW k \in WrittenBy(c, files[i])
               PROVE  i = open'[c] /\ files[i][k].line <= logged'[c]
    OBVIOUS
  <2>1. files[i] \in Seq(Fragments)
    BY <1>1, FilesAreTyped
  <2>2. files[i][k] \in Fragments
    BY <2>1 DEF WrittenBy
  <2>3. /\ files[i][k].line \in Int /\ logged[c] \in Int /\ logged'[c] \in Int
        /\ files[i][k].line <= logged[c]
    BY <1>1, <2>2, LogAssumption
    DEF TypeOK, Fragments, Lines, CrawlerSound
  <2> QED
    BY <2>3
<1>4. CrawlerSound(c)'
  BY <1>3 DEF CrawlerSound, StreamKept
<1> QED
  BY <1>2, <1>4 DEF LInv

\* Starting to write a line: it fits, whatever part of it comes first.
LEMMA NextLineFits ==
  ASSUME LInv, NEW c \in Crawlers, NextLine(c)
  PROVE  /\ open[c] \in DOMAIN files
         /\ \A part \in Parts \ {"newline"} :
               LET g == Fragment(c, logged[c] + 1, part)
               IN  /\ g \in Fragments /\ g.by = c /\ g.line = logged[c] + 1
                   /\ g.part = part
                   /\ Fits(c, files[open[c]], g)
         /\ logged'[c] = logged[c] + 1 /\ logged[c] \in Nat
         /\ \A d \in Crawlers \ {c} : logged'[d] = logged[d]
<1>1. /\ open[c] \in DOMAIN files /\ logged[c] \in 0 .. MaxLines - 1
      /\ StreamSound(c, files[open[c]])
  BY LogAssumption, FilesAreTyped
  DEF LInv, TypeOK, NextLine, CrawlerSound, NoFile
<1>2. /\ logged'[c] = logged[c] + 1 /\ logged[c] \in Nat
      /\ \A d \in Crawlers \ {c} : logged'[d] = logged[d]
  BY <1>1 DEF NextLine, LInv, TypeOK
<1>3. ASSUME NEW part \in Parts \ {"newline"}, NEW g,
             g = Fragment(c, logged[c] + 1, part)
      PROVE  /\ g \in Fragments /\ g.by = c /\ g.line = logged[c] + 1
             /\ g.part = part
             /\ Fits(c, files[open[c]], g)
  <2>1. /\ g \in Fragments /\ g.by = c /\ g.line = logged[c] + 1
        /\ g.part = part
    BY <1>1, <1>3, LogAssumption DEF Fragment, Fragments, Lines
  <2>2. Fits(c, files[open[c]], g)
    BY <1>1, <2>1 DEF Fits, StreamSound, Follows, NextLine
  <2> QED
    BY <2>1, <2>2
<1> QED
  BY <1>1, <1>2, <1>3

LEMMA LineStep ==
  ASSUME LInv, TypeOK', NEW c \in Crawlers,
         WriteShortLine(c) \/ WriteLongText(c)
  PROVE  LInv'
<1>1. NextLine(c) /\ UNCHANGED <<open, bad, buffer>>
  BY DEF WriteShortLine, WriteLongText
<1>2. PICK part \in {"whole", "text"} :
          /\ Appends(c, logged[c] + 1, part)
          /\ pc' = IF part = "text" THEN [pc EXCEPT ![c] = "newline"] ELSE pc
  BY DEF WriteShortLine, WriteLongText, GoTo
<1> DEFINE g == Fragment(c, logged[c] + 1, part)
<1>3. /\ g \in Fragments /\ g.by = c /\ g.line = logged[c] + 1
      /\ g.part = part
      /\ Fits(c, files[open[c]], g)
      /\ open[c] \in DOMAIN files
      /\ logged'[c] = logged[c] + 1 /\ logged[c] \in Nat
      /\ \A d \in Crawlers \ {c} : logged'[d] = logged[d]
  BY <1>1, <1>2, NextLineFits DEF Parts
<1>4. files' = [files EXCEPT ![open[c]] = @ \o <<g>>]
  BY <1>2 DEF Appends, Write
<1> HIDE DEF g
<1>5. /\ \A d \in Crawlers \ {c} : StandsStill(d)
      /\ pc[c] = "log" /\ pc'[c] = IF part = "text" THEN "newline" ELSE "log"
      /\ open[c] # NoFile /\ ~ bad[c]
      /\ buffer[c] = <<>>
  BY <1>1, <1>2, <1>3
  DEF StandsStill, LInv, TypeOK, NextLine, CrawlerSound, StreamSound
<1>6. \A k : LastOf(c, files'[open[c]]) = {k} /\ files'[open[c]][k] = g
                => StreamKept(c)'
  BY <1>1, <1>2, <1>3, <1>5 DEF StreamKept, StreamSound, EndsLine
<1>7. /\ open'[c] = open[c] /\ pc'[c] # "construct"
      /\ g.line <= logged'[c] /\ logged[c] <= logged'[c]
  BY <1>1, <1>2, <1>3, <1>5
<1> QED
  BY <1>3, <1>4, <1>5, <1>6, <1>7, AppendStep

\* What a crawler wrote last, as it is about to write a newline.
LEMMA NewlineFits ==
  ASSUME LInv, NEW c \in Crawlers, pc[c] = "newline"
  PROVE  LET g == Fragment(c, logged[c], "newline")
         IN  /\ open[c] \in DOMAIN files
             /\ g \in Fragments /\ g.by = c /\ g.line = logged[c]
             /\ g.part = "newline"
             /\ Fits(c, files[open[c]], g)
             /\ ~ bad[c] /\ buffer[c] = <<>> /\ logged[c] \in Nat \ {0}
<1> DEFINE file == files[open[c]]
           g == Fragment(c, logged[c], "newline")
<1>1. /\ open[c] \in DOMAIN files /\ StreamSound(c, file)
      /\ file \in Seq(Fragments) /\ open[c] # NoFile
  BY FilesAreTyped DEF LInv, CrawlerSound, NoFile
<1>2. /\ ~ bad[c] /\ buffer[c] = <<>> /\ LastOf(c, file) # {}
      /\ \A k \in LastOf(c, file) :
            file[k].part = "text" /\ file[k].line = logged[c]
  BY <1>1 DEF StreamSound
<1>3. logged[c] \in Lines
  <2>1. PICK k \in LastOf(c, file) : TRUE
    BY <1>2
  <2>2. file[k] \in Fragments
    BY <1>1 DEF LastOf, LastBefore, WrittenBy
  <2> QED
    BY <1>2, <2>1, <2>2 DEF Fragments
<1>4. /\ g \in Fragments /\ g.by = c /\ g.line = logged[c]
      /\ g.part = "newline"
  BY <1>3 DEF Fragment, Fragments, Parts
<1>5. Fits(c, file, g)
  BY <1>2, <1>4 DEF Fits, Follows
<1>6. logged[c] \in Nat \ {0}
  BY <1>3, LogAssumption DEF Lines
<1> QED
  BY <1>1, <1>2, <1>4, <1>5, <1>6

LEMMA NewlineStep ==
  ASSUME LInv, TypeOK', NEW c \in Crawlers, WriteNewline(c)
  PROVE  LInv'
<1> DEFINE g == Fragment(c, logged[c], "newline")
<1>1. /\ open[c] \in DOMAIN files
      /\ g \in Fragments /\ g.by = c /\ g.line = logged[c]
      /\ g.part = "newline"
      /\ Fits(c, files[open[c]], g)
      /\ ~ bad[c] /\ buffer[c] = <<>> /\ logged[c] \in Nat \ {0}
  BY NewlineFits DEF WriteNewline
<1>2. files' = [files EXCEPT ![open[c]] = @ \o <<g>>]
  BY DEF WriteNewline, Appends, Write
<1> HIDE DEF g
<1>3. /\ \A d \in Crawlers \ {c} : StandsStill(d)
      /\ UNCHANGED <<open, bad, buffer, logged>>
      /\ pc'[c] = "log" /\ open[c] # NoFile
  BY DEF WriteNewline, GoTo, StandsStill, LInv, TypeOK, CrawlerSound
<1>4. \A k : LastOf(c, files'[open[c]]) = {k} /\ files'[open[c]][k] = g
                => StreamKept(c)'
  BY <1>1, <1>3 DEF StreamKept, StreamSound, EndsLine
<1>5. /\ open'[c] = open[c] /\ pc'[c] # "construct"
      /\ g.line <= logged'[c] /\ logged[c] <= logged'[c]
  BY <1>1, <1>3
<1> QED
  BY <1>1, <1>2, <1>3, <1>4, <1>5, AppendStep

\* A crawler's own files, while it keeps the file it has open.
LEMMA OwnFile ==
  ASSUME LInv, NEW c \in Crawlers
  PROVE  /\ open[c] <= Len(files) /\ open[c] \in Nat /\ Len(files) \in Nat
         /\ open[c] # NoFile => open[c] \in DOMAIN files
         /\ \A i \in DOMAIN files : i # open[c] => WrittenBy(c, files[i]) = {}
         /\ logged[c] \in Nat
  BY FilesAreTyped, LogAssumption DEF LInv, CrawlerSound, NoFile, TypeOK

LEMMA NewlineFailsStep ==
  ASSUME LInv, TypeOK', NEW c \in Crawlers, WriteNewlineFails(c)
  PROVE  LInv'
<1> DEFINE g == Fragment(c, logged[c], "newline")
<1>1. /\ open[c] \in DOMAIN files
      /\ g \in Fragments /\ g.by = c /\ g.line = logged[c]
      /\ g.part = "newline"
      /\ Fits(c, files[open[c]], g)
      /\ logged[c] \in Nat
  BY NewlineFits DEF WriteNewlineFails
<1>2. /\ UNCHANGED <<files, open, logged>>
      /\ \A d \in Crawlers \ {c} : StandsStill(d)
      /\ pc'[c] = "log" /\ open[c] # NoFile
      /\ bad'[c] = TRUE /\ buffer'[c] = <<g>>
  BY DEF WriteNewlineFails, StreamFails, GoTo, StandsStill, LInv, TypeOK,
         CrawlerSound
<1> HIDE DEF g
<1>3. StreamKept(c)'
  BY <1>1, <1>2 DEF StreamKept, StreamSound, Fits
<1>4. /\ open'[c] <= Len(files) /\ logged[c] <= logged'[c]
      /\ \A i \in DOMAIN files : i # open'[c] => WrittenBy(c, files[i]) = {}
      /\ open'[c] # NoFile /\ pc'[c] # "construct"
  BY <1>1, <1>2, OwnFile
<1> QED
  BY <1>2, <1>3, <1>4, UnwrittenStep

LEMMA LineFailsStep ==
  ASSUME LInv, TypeOK', NEW c \in Crawlers, WriteLineFails(c)
  PROVE  LInv'
<1> DEFINE cut == Fragment(c, logged[c] + 1, "cut")
           whole == Fragment(c, logged[c] + 1, "whole")
<1>1. NextLine(c) /\ UNCHANGED <<pc, open>>
  BY DEF WriteLineFails
<1>2. /\ open[c] \in DOMAIN files
      /\ cut \in Fragments /\ cut.by = c /\ cut.line = logged[c] + 1
      /\ cut.part = "cut" /\ Fits(c, files[open[c]], cut)
      /\ whole \in Fragments /\ whole.by = c /\ whole.line = logged[c] + 1
      /\ whole.part = "whole" /\ Fits(c, files[open[c]], whole)
      /\ logged'[c] = logged[c] + 1 /\ logged[c] \in Nat
      /\ \A d \in Crawlers \ {c} : logged'[d] = logged[d]
  BY <1>1, NextLineFits DEF Parts
<1>3. /\ \A d \in Crawlers \ {c} : StandsStill(d)
      /\ bad'[c] = TRUE /\ buffer'[c] \in {<<>>, <<whole>>}
      /\ pc'[c] = "log" /\ open'[c] = open[c] /\ open[c] # NoFile
  BY <1>1, <1>2
  DEF WriteLineFails, StreamFails, StandsStill, LInv, TypeOK, NextLine
<1>4. CASE Appends(c, logged[c] + 1, "cut")
  <2>1. files' = [files EXCEPT ![open[c]] = @ \o <<cut>>]
    BY <1>4 DEF Appends, Write
  <2> HIDE DEF cut, whole
  <2>2. \A k : LastOf(c, files'[open[c]]) = {k} /\ files'[open[c]][k] = cut
                => StreamKept(c)'
    <3>1. ASSUME NEW k, LastOf(c, files'[open[c]]) = {k},
                 files'[open[c]][k] = cut
          PROVE  Fits(c, files'[open[c]], whole)
      BY <1>2, <3>1 DEF Fits, Follows, EndsLine
    <3> QED
      BY <1>2, <1>3, <3>1 DEF StreamKept, StreamSound, Fits
  <2>3. /\ open'[c] = open[c] /\ pc'[c] # "construct"
        /\ cut.line <= logged'[c] /\ logged[c] <= logged'[c]
    BY <1>2, <1>3
  <2> QED
    BY <1>2, <1>3, <2>1, <2>2, <2>3, AppendStep
<1>5. CASE UNCHANGED files
  <2> HIDE DEF cut, whole
  <2>1. StreamKept(c)'
    BY <1>2, <1>3, <1>5 DEF StreamKept, StreamSound, Fits
  <2>2. /\ open'[c] <= Len(files) /\ logged[c] <= logged'[c]
        /\ \A i \in DOMAIN files : i # open'[c] => WrittenBy(c, files[i]) = {}
        /\ open'[c] # NoFile /\ pc'[c] # "construct"
    BY <1>2, <1>3, OwnFile
  <2> QED
    BY <1>3, <1>5, <2>1, <2>2, UnwrittenStep
<1> QED
  BY <1>4, <1>5 DEF WriteLineFails

LEMMA DropStep ==
  ASSUME LInv, TypeOK', NEW c \in Crawlers, DropLine(c)
  PROVE  LInv'
<1>1. /\ UNCHANGED <<files, pc, open, bad, buffer>>
      /\ \A d \in Crawlers \ {c} : StandsStill(d)
      /\ logged[c] \in Nat /\ logged'[c] = logged[c] + 1
      /\ pc[c] = "log" /\ (open[c] = NoFile \/ bad[c])
  BY OwnFile DEF DropLine, StandsStill, LInv, TypeOK
<1>2. CASE open[c] = NoFile
  <2>1. /\ open'[c] <= Len(files) /\ logged[c] <= logged'[c]
        /\ \A i \in DOMAIN files : i # open'[c] => WrittenBy(c, files[i]) = {}
        /\ open'[c] = NoFile /\ pc'[c] # "construct"
        /\ ~ bad'[c] /\ buffer'[c] = <<>> /\ pc'[c] # "newline"
    BY <1>1, <1>2, OwnFile DEF LInv, CrawlerSound
  <2> QED
    BY <1>1, <2>1, UnwrittenStep
<1>3. CASE open[c] # NoFile
  <2>1. StreamSound(c, files[open[c]]) /\ bad[c]
    BY <1>1, <1>3 DEF LInv, CrawlerSound
  <2>2. \A g \in Fragments : g.line <= logged[c] => g.line <= logged'[c]
    BY <1>1, LogAssumption DEF Fragments, Lines
  <2>3. StreamKept(c)'
    BY <1>1, <2>1, <2>2 DEF StreamKept, StreamSound, Fits
  <2>4. /\ open'[c] <= Len(files) /\ logged[c] <= logged'[c]
        /\ \A i \in DOMAIN files : i # open'[c] => WrittenBy(c, files[i]) = {}
        /\ open'[c] # NoFile /\ pc'[c] # "construct"
    BY <1>1, <1>3, OwnFile
  <2> QED
    BY <1>1, <2>3, <2>4, UnwrittenStep
<1> QED
  BY <1>2, <1>3

LEMMA ConstructorStep ==
  ASSUME LInv, TypeOK', NEW c \in Crawlers,
         Open(c) \/ WithoutFile(c) \/ OpenFails(c)
  PROVE  LInv'
<1>1. /\ UNCHANGED <<files, bad, buffer, logged>>
      /\ \A d \in Crawlers \ {c} : StandsStill(d)
      /\ pc[c] = "construct" /\ pc'[c] \in {"log", "failed"}
  BY DEF Open, WithoutFile, OpenFails, GoTo, StandsStill, LInv, TypeOK
<1>2. /\ open[c] = NoFile /\ logged[c] = 0 /\ ~ bad[c] /\ buffer[c] = <<>>
      /\ \A i \in DOMAIN files : WrittenBy(c, files[i]) = {}
  BY <1>1, OwnFile, FilesAreTyped DEF LInv, CrawlerSound, NoFile
<1>3. CASE WithoutFile(c) \/ OpenFails(c)
  <2>1. open'[c] = open[c]
    BY <1>3 DEF WithoutFile, OpenFails
  <2>2. /\ open'[c] <= Len(files) /\ logged[c] <= logged'[c]
        /\ \A i \in DOMAIN files : i # open'[c] => WrittenBy(c, files[i]) = {}
        /\ open'[c] = NoFile /\ pc'[c] # "construct"
        /\ ~ bad'[c] /\ buffer'[c] = <<>> /\ pc'[c] # "newline"
    BY <1>1, <1>2, <2>1, OwnFile
  <2> QED
    BY <1>1, <2>2, UnwrittenStep
<1>4. CASE Open(c)
  <2>1. open'[c] = Len(files)
    BY <1>4 DEF Open, LInv, TypeOK
  <2>2. Len(files) \in DOMAIN files /\ Len(files) # NoFile
    BY FilesAreTyped DEF LInv, NoFile
  <2>3. LastOf(c, files[Len(files)]) = {}
    BY <1>2, <2>2 DEF LastOf, LastBefore
  <2>4. StreamKept(c)'
    BY <1>1, <1>2, <2>1, <2>3 DEF StreamKept, StreamSound
  <2>5. /\ open'[c] <= Len(files) /\ logged[c] <= logged'[c]
        /\ \A i \in DOMAIN files : i # open'[c] => WrittenBy(c, files[i]) = {}
        /\ open'[c] # NoFile /\ pc'[c] # "construct"
    BY <1>1, <1>2, <2>1, <2>2, OwnFile
  <2> QED
    BY <1>1, <2>4, <2>5, UnwrittenStep
<1> QED
  BY <1>3, <1>4

\* A crawler that ends and leaves the file as it is.
LEMMA QuietEndStep ==
  ASSUME LInv, TypeOK', NEW c \in Crawlers, UNCHANGED files,
         Close(c) \/ Kill(c)
  PROVE  LInv'
<1>1. /\ UNCHANGED <<open, bad, logged>>
      /\ \A d \in Crawlers \ {c} : StandsStill(d)
      /\ \/ Kill(c) /\ pc'[c] = "killed" /\ buffer'[c] = buffer[c]
         \/ pc[c] = "log" /\ pc'[c] = "done" /\ buffer'[c] = <<>>
  BY DEF Close, Kill, GoTo, StandsStill, LInv, TypeOK
<1>2. CASE open[c] = NoFile
  <2>1. /\ open'[c] <= Len(files) /\ logged[c] <= logged'[c]
        /\ \A i \in DOMAIN files : i # open'[c] => WrittenBy(c, files[i]) = {}
        /\ open'[c] = NoFile /\ pc'[c] # "construct"
        /\ ~ bad'[c] /\ buffer'[c] = <<>> /\ pc'[c] # "newline"
    BY <1>1, <1>2, OwnFile DEF LInv, CrawlerSound
  <2> QED
    BY <1>1, <2>1, UnwrittenStep
<1>3. CASE open[c] # NoFile
  <2>1. StreamSound(c, files[open[c]])
    BY <1>3 DEF LInv, CrawlerSound
  <2>2. \/ pc'[c] = "killed"
        \/ bad[c]
        \/ \A k \in LastOf(c, files[open[c]]) : EndsLine(files[open[c]][k])
    BY <1>1, <2>1 DEF StreamSound
  <2>3. StreamKept(c)'
    BY <1>1, <2>1, <2>2 DEF StreamKept, StreamSound, Fits
  <2>4. /\ open'[c] <= Len(files) /\ logged[c] <= logged'[c]
        /\ \A i \in DOMAIN files : i # open'[c] => WrittenBy(c, files[i]) = {}
        /\ open'[c] # NoFile /\ pc'[c] # "construct"
    BY <1>1, <1>3, OwnFile
  <2> QED
    BY <1>1, <2>3, <2>4, UnwrittenStep
<1> QED
  BY <1>2, <1>3

\* The destructor writes the buffer, or as much of it as the disk takes.
LEMMA FlushStep ==
  ASSUME LInv, TypeOK', NEW c \in Crawlers, Close(c), buffer[c] # <<>>,
         \/ Write(c, buffer[c])
         \/ /\ buffer[c][1].part = "whole"
            /\ Appends(c, buffer[c][1].line, "cut")
  PROVE  LInv'
<1>1. /\ UNCHANGED <<open, bad, logged>>
      /\ \A d \in Crawlers \ {c} : StandsStill(d)
      /\ pc'[c] = "done" /\ buffer'[c] = <<>>
  BY DEF Close, GoTo, StandsStill, LInv, TypeOK
<1>2. /\ open[c] # NoFile /\ bad[c] /\ open[c] \in DOMAIN files
      /\ logged[c] \in Nat
  BY OwnFile DEF LInv, CrawlerSound, StreamSound
<1>3. PICK kept \in Fragments :
          /\ buffer[c] = <<kept>>
          /\ kept.by = c /\ kept.line <= logged[c]
          /\ Fits(c, files[open[c]], kept)
  BY <1>2 DEF LInv, CrawlerSound, StreamSound
<1>4. PICK g \in Fragments :
          /\ files' = [files EXCEPT ![open[c]] = @ \o <<g>>]
          /\ g.by = c /\ g.line <= logged[c]
          /\ Fits(c, files[open[c]], g)
  <2>1. CASE Write(c, buffer[c])
    BY <1>3, <2>1 DEF Write
  <2>2. CASE kept.part = "whole" /\ Appends(c, kept.line, "cut")
    <3> DEFINE g == Fragment(c, kept.line, "cut")
    <3>1. /\ g \in Fragments /\ g.by = c /\ g.line = kept.line
          /\ g.part = "cut"
      BY DEF Fragment, Fragments, Parts
    <3>2. files' = [files EXCEPT ![open[c]] = @ \o <<g>>]
      BY <2>2 DEF Appends, Write
    <3> HIDE DEF g
    <3>3. Fits(c, files[open[c]], g)
      BY <1>3, <2>2, <3>1 DEF Fits, Follows
    <3> QED
      BY <1>3, <3>1, <3>2, <3>3
  <2>3. buffer[c][1] = kept
    BY <1>3
  <2> QED
    BY <2>1, <2>2, <2>3
<1>5. StreamKept(c)'
  BY <1>1, <1>2 DEF StreamKept, StreamSound
<1>6. /\ open'[c] = open[c] /\ pc'[c] # "construct"
      /\ g.line <= logged'[c] /\ logged[c] <= logged'[c]
  BY <1>1, <1>2, <1>4
<1> QED
  BY <1>1, <1>2, <1>4, <1>5, <1>6, AppendStep

LEMMA RotateStep == LInv /\ TypeOK' /\ Rotate => LInv'
<1> SUFFICES ASSUME LInv, TypeOK', Rotate PROVE LInv'
  OBVIOUS
<1>1. /\ files \in Seq(Seq(Fragments)) /\ Len(files) \in Nat
      /\ DOMAIN files = 1 .. Len(files)
  BY FilesAreTyped DEF LInv, TypeOK
<1>2. files' = Append(files, <<>>)
  BY DEF Rotate
<1>3. /\ Len(files') = Len(files) + 1 /\ files'[Len(files) + 1] = <<>>
      /\ DOMAIN files' = DOMAIN files \cup {Len(files) + 1}
      /\ \A i \in DOMAIN files : files'[i] = files[i]
  BY <1>1, <1>2
<1>4. \A i \in DOMAIN files' : FileSound(files'[i])
  BY <1>3, EmptyFile DEF LInv
<1>5. ASSUME NEW d \in Crawlers PROVE CrawlerSound(d)'
  <2>1. StandsStill(d)
    BY DEF Rotate, StandsStill
  <2>2. \A i \in DOMAIN files : SameFor(d, files[i], files'[i])
    BY <1>3 DEF SameFor
  <2>3. \A i \in DOMAIN files' \ DOMAIN files : WrittenBy(d, files'[i]) = {}
    BY <1>3, EmptyFile
  <2> QED
    <3>1. /\ DOMAIN files \subseteq DOMAIN files'
          /\ Len(files) <= Len(files') /\ Len(files') \in Nat
      BY <1>1, <1>3
    <3> QED
      BY <2>1, <2>2, <2>3, <3>1, OthersStaySound
<1> QED
  BY <1>4, <1>5 DEF LInv

LEMMA LInvStep == LInv /\ [Next]_vars => LInv'
<1> SUFFICES ASSUME LInv, [Next]_vars PROVE LInv'
  OBVIOUS
<1>1. TypeOK'
  BY LogTypeStep
<1>2. CASE UNCHANGED vars
  BY <1>2
  DEF vars, LInv, TypeOK, CrawlerSound, StreamSound
<1>3. ASSUME NEW c \in Crawlers, Step(c) PROVE LInv'
  <2>1. CASE Close(c)
    BY <1>1, <2>1, QuietEndStep, FlushStep DEF Close
  <2>2. CASE Kill(c)
    BY <1>1, <2>2, QuietEndStep DEF Kill
  <2> QED
    BY <1>1, <1>3, <2>1, <2>2, ConstructorStep, LineStep, NewlineStep,
       LineFailsStep, NewlineFailsStep, DropStep
    DEF Step
<1> QED
  BY <1>1, <1>2, <1>3, RotateStep DEF Next

-----------------------------------------------------------------------------
(* The theorems.                                                           *)

LEMMA LInvAlways == Spec => []LInv
  BY LInvInit, LInvStep, PTL DEF Spec

\* Every variable of the streams and the files keeps its type, for any number
\* of crawlers, lines and rotations.
THEOREM LogTypeCorrect == Spec => []TypeOK
<1>1. LInv => TypeOK
  BY DEF LInv
<1> QED
  BY <1>1, LInvAlways, PTL

\* However many crawlers share the path, however often the file is renamed and
\* wherever a write fails: a file holds a crawler's lines in order and without
\* a gap, and all of them as long as its stream is good.
THEOREM LogFollowsEveryCrawler == Spec => []LogFollowsItsCrawler
  BY Implied, LInvAlways, PTL

\* A line that is not one entry comes from a cut write or from two crawlers.
THEOREM OnlyCrawlersTearLines == Spec => []TornOnlyBetweenCrawlers
  BY Implied, LInvAlways, PTL

=============================================================================
