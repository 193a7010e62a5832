------------------------- MODULE CatalogPagesProofs -------------------------
(***************************************************************************)
(* Proofs about CatalogPages, for any tree of any depth, any spellings of  *)
(* the roots, phrases and page sizes.                                      *)
(*                                                                         *)
(* The inductive invariant says what a crawl may have recorded and that a  *)
(* page is cut from the rows there are; the rest are facts about the       *)
(* operators: the path of the names of a path, the place of an element in  *)
(* a total order, LIKE and its pattern.                                    *)
(***************************************************************************)
EXTENDS CatalogPages, SequenceTheorems, FiniteSetTheorems, TLAPS

-----------------------------------------------------------------------------
(* Numbers and total orders.                                               *)

\* Induction: a set of naturals that is not empty has a least element,
\* because there is no infinite chain of ever smaller finite sets.
LEMMA NatHasLeast ==
  ASSUME NEW S \in SUBSET Nat, S # {}
  PROVE  \E least \in S : \A n \in S : least <= n
<1> DEFINE below(n) == 0 .. n - 1
           T == {below(n) : n \in S}
<1>1. T \subseteq FiniteSubsetsOf(Nat) /\ T # {}
  <2> SUFFICES ASSUME NEW n \in S
               PROVE  below(n) \in FiniteSubsetsOf(Nat)
    OBVIOUS
  <2> QED
    BY FS_Interval DEF FiniteSubsetsOf
<1>2. PICK t \in T : \A u \in T : <<u, t>> \notin StrictSubsetOrdering(Nat)
  <2> HIDE DEF T
  <2> QED
    BY <1>1, FS_StrictSubsetOrderingWellFounded, WFMin
<1>3. PICK least \in S : t = below(least)
  OBVIOUS
<1>4. ASSUME NEW n \in S, ~ (least <= n)
      PROVE  FALSE
  <2>1. below(n) \subseteq below(least) /\ below(n) # below(least)
    <3>1. n \in below(least) /\ n \notin below(n)
      BY <1>4
    <3> QED
      BY <1>4, <3>1
  <2>2. <<below(n), t>> \notin StrictSubsetOrdering(Nat)
    BY <1>2
  <2>3. below(n) \in SUBSET Nat /\ t \in SUBSET Nat
    BY <1>3
  <2> QED
    BY <1>3, <2>1, <2>2, <2>3 DEF StrictSubsetOrdering
<1> QED
  BY <1>4

\* In a finite total order, how many elements precede one is its place.
LEMMA PlacesAreABijection ==
  ASSUME NEW S, IsFiniteSet(S), NEW R,
         \A p \in S : <<p, p>> \notin R,
         \A p, q, r \in S : <<p, q>> \in R /\ <<q, r>> \in R => <<p, r>> \in R,
         \A p, q \in S : p = q \/ <<p, q>> \in R \/ <<q, p>> \in R,
         NEW place,
         place = [p \in S |-> Cardinality({q \in S : <<q, p>> \in R})]
  PROVE  /\ place \in Bijection(S, 0 .. Cardinality(S) - 1)
         /\ \A p, q \in S : place[p] < place[q] <=> <<p, q>> \in R
<1> DEFINE before(p) == {q \in S : <<q, p>> \in R}
<1>1. /\ Cardinality(S) \in Nat
      /\ \A p \in S : /\ IsFiniteSet(before(p))
                      /\ Cardinality(before(p)) \in Nat
  BY FS_CardinalityType, FS_Subset
<1>2. ASSUME NEW p \in S, NEW q \in S, <<p, q>> \in R
      PROVE  place[p] < place[q]
  <2>1. before(p) \subseteq before(q) /\ p \in before(q) /\ p \notin before(p)
    BY <1>2
  <2>2. before(p) \in SUBSET before(q) /\ before(p) # before(q)
    BY <2>1
  <2>3. /\ Cardinality(before(p)) <= Cardinality(before(q))
        /\ Cardinality(before(p)) # Cardinality(before(q))
    <3> HIDE DEF before
    <3> QED
      BY <1>1, <2>2, FS_Subset
  <2>4. Cardinality(before(p)) < Cardinality(before(q))
    <3> HIDE DEF before
    <3> QED
      BY <1>1, <2>3
  <2> QED
    BY <2>4
<1>3. \A p \in S : place[p] = Cardinality(before(p)) /\ place[p] \in Nat
  BY <1>1
<1>4. ASSUME NEW p \in S, NEW q \in S
      PROVE  /\ place[p] < place[q] <=> <<p, q>> \in R
             /\ place[p] = place[q] => p = q
  <2>1. /\ place[p] \in Nat /\ place[q] \in Nat
        /\ <<p, q>> \in R => place[p] < place[q]
        /\ <<q, p>> \in R => place[q] < place[p]
    BY <1>2, <1>3
  <2>2. p = q \/ <<p, q>> \in R \/ <<q, p>> \in R
    OBVIOUS
  <2> QED
    BY <2>1, <2>2
<1>5. ASSUME NEW p \in S PROVE place[p] \in 0 .. Cardinality(S) - 1
  <2>1. before(p) \in SUBSET S /\ before(p) # S
    OBVIOUS
  <2>2. Cardinality(before(p)) < Cardinality(S)
    <3> HIDE DEF before
    <3> QED
      BY <1>1, <2>1, FS_Subset
  <2> QED
    BY <1>1, <1>3, <2>2
<1>6. \A p, q \in S : place[p] = place[q] => p = q
  BY <1>4
<1>7. place \in Injection(S, 0 .. Cardinality(S) - 1)
  BY <1>5, <1>6 DEF Injection, IsInjective
<1>8. /\ IsFiniteSet(0 .. Cardinality(S) - 1)
      /\ Cardinality(0 .. Cardinality(S) - 1) = Cardinality(S)
  <2> DEFINE n == Cardinality(S)
  <2>1. /\ 0 \in Int /\ n - 1 \in Int
        /\ (IF 0 > n - 1 THEN 0 ELSE (n - 1) - 0 + 1) = n
    BY <1>1, FS_CardinalityType
  <2> HIDE DEF n
  <2>2. IsFiniteSet(0 .. n - 1) /\ Cardinality(0 .. n - 1) = n
    BY <2>1, FS_Interval
  <2> QED
    BY <2>2 DEF n
<1>9. place \in Surjection(S, 0 .. Cardinality(S) - 1)
  BY <1>7, <1>8, FS_Injection
<1> QED
  BY <1>4, <1>7, <1>9 DEF Bijection

-----------------------------------------------------------------------------
(* The names of a path.                                                    *)

Components == (Characters \ {"/"}) \cup {""}

\* The components that are names.
Named == Characters \ {"/", "."}

\* How many names there are up to a place.
Count(path, i) == Cardinality({j \in Names(path) : j <= i})

\* The names of a path are counted from 1 on without a gap, so that Denotes
\* has each of them at the place it is counted to.
LEMMA DenotesCounts ==
  ASSUME NEW path \in Seq(Components)
  PROVE  /\ IsFiniteSet(Names(path)) /\ Cardinality(Names(path)) \in Nat
         /\ Denotes(path) \in Seq(Named)
         /\ Len(Denotes(path)) = Cardinality(Names(path))
         /\ \A k \in 1 .. Cardinality(Names(path)) :
               \E i \in Names(path) : Count(path, i) = k
         /\ \A i \in Names(path) :
               /\ Count(path, i) \in 1 .. Cardinality(Names(path))
               /\ Denotes(path)[Count(path, i)] = path[i]
<1> DEFINE N == Names(path)
           n == Cardinality(N)
           R == {pair \in N \X N : pair[1] < pair[2]}
           place == [j \in N |-> Cardinality({i \in N : <<i, j>> \in R})]
<1>1. /\ N \subseteq 1 .. Len(path) /\ N \subseteq Nat
      /\ IsFiniteSet(N) /\ n \in Nat
  <2>1. N \in SUBSET (1 .. Len(path)) /\ Len(path) \in Nat
    BY LenProperties DEF Names
  <2>2. IsFiniteSet(N)
    <3>1. IsFiniteSet(1 .. Len(path))
      BY <2>1, FS_Interval
    <3> HIDE DEF N
    <3> QED
      BY <2>1, <3>1, FS_Subset
  <2> QED
    BY <2>1, <2>2, FS_CardinalityType
<1>2. \A i, j \in N : <<i, j>> \in R <=> i < j
  OBVIOUS
<1>3. /\ place \in Bijection(N, 0 .. n - 1)
      /\ \A i, j \in N : place[i] < place[j] <=> <<i, j>> \in R
  <2>1. /\ \A i \in N : <<i, i>> \notin R
        /\ \A i, j, k \in N :
              <<i, j>> \in R /\ <<j, k>> \in R => <<i, k>> \in R
        /\ \A i, j \in N : i = j \/ <<i, j>> \in R \/ <<j, i>> \in R
    BY <1>1, <1>2
  <2> HIDE DEF N, R
  <2> QED
    BY <1>1, <2>1, PlacesAreABijection
<1>4. ASSUME NEW i \in N
      PROVE  Count(path, i) = place[i] + 1 /\ place[i] \in 0 .. n - 1
  <2> DEFINE B == {j \in N : <<j, i>> \in R}
  <2>1. {j \in N : j <= i} = B \cup {i} /\ i \notin B
    BY <1>1, <1>2
  <2>2. B \in SUBSET N
    OBVIOUS
  <2>3. IsFiniteSet(B) /\ Cardinality(B) = place[i]
    <3>1. IsFiniteSet(B)
      <4> HIDE DEF B, N
      <4> QED
        BY <1>1, <2>2, FS_Subset
    <3> QED
      BY <3>1
  <2>4. place[i] \in 0 .. n - 1
    <3> HIDE DEF N, place
    <3> QED
      BY <1>3 DEF Bijection, Injection
  <2> HIDE DEF B, place
  <2> QED
    BY <2>1, <2>3, <2>4, FS_AddElement DEF Count
<1>5. ASSUME NEW k \in 1 .. n PROVE \E i \in N : Count(path, i) = k
  <2>1. k - 1 \in 0 .. n - 1
    BY <1>1
  <2>2. PICK i \in N : place[i] = k - 1
    <3> HIDE DEF N, place
    <3> QED
      BY <1>3, <2>1 DEF Bijection, Surjection
  <2> HIDE DEF N, place
  <2> QED
    BY <1>1, <1>4, <2>2
<1>6. \A i, j \in N : Count(path, i) = Count(path, j) => i = j
  <2>1. \A i, j \in N : place[i] = place[j] => i = j
    <3> HIDE DEF N, place
    <3> QED
      BY <1>3 DEF Bijection, Injection, IsInjective
  <2> HIDE DEF N, place
  <2> QED
    BY <1>1, <1>4, <2>1
<1>7. ASSUME NEW i \in N
      PROVE  /\ Count(path, i) \in 1 .. n
             /\ Denotes(path)[Count(path, i)] = path[i]
  <2>1. Count(path, i) \in 1 .. n
    <3> HIDE DEF N, place
    <3> QED
      BY <1>1, <1>4
  <2>2. \A j \in N : Count(path, j) = Count(path, i) => j = i
    BY <1>6
  <2>3. (CHOOSE j \in N : Count(path, j) = Count(path, i)) = i
    BY <2>2
  <2> QED
    BY <2>1, <2>3 DEF Denotes, Count
<1>8. Denotes(path) = [k \in 1 .. n |-> Denotes(path)[k]]
  BY DEF Denotes
<1>9. ASSUME NEW k \in 1 .. n PROVE Denotes(path)[k] \in Named
  <2>1. PICK i \in N : Count(path, i) = k
    BY <1>5
  <2>2. path[i] \in Named
    <3>1. i \in 1 .. Len(path) /\ path[i] \notin {"", "."}
      BY LenProperties DEF Names
    <3>2. path[i] \in Components
      BY <3>1, ElementOfSeq
    <3> QED
      BY <3>1, <3>2 DEF Named, Components
  <2> QED
    BY <1>7, <2>1, <2>2
<1>10. Denotes(path) \in Seq(Named) /\ Len(Denotes(path)) = n
  <2> HIDE DEF N
  <2> QED
    BY <1>1, <1>8, <1>9
<1> QED
  BY <1>1, <1>5, <1>7, <1>10

LEMMA NamedComponents == Named \subseteq Components
BY DEF Named, Components

\* A sequence that has the names at the places they are counted to is the path
\* of the names.
LEMMA DenotesIs ==
  ASSUME NEW path \in Seq(Components), NEW names \in Seq(Named),
         Len(names) = Cardinality(Names(path)),
         \A i \in Names(path) : names[Count(path, i)] = path[i]
  PROVE  Denotes(path) = names
<1>1. /\ Denotes(path) \in Seq(Named) /\ Len(Denotes(path)) = Len(names)
      /\ \A k \in 1 .. Len(names) : \E i \in Names(path) : Count(path, i) = k
      /\ \A i \in Names(path) : Denotes(path)[Count(path, i)] = path[i]
  BY DenotesCounts
<1>2. \A k \in 1 .. Len(names) : Denotes(path)[k] = names[k]
  BY <1>1
<1> QED
  BY <1>1, <1>2, SeqEqual

\* Names at the end of a path are the end of its names.
LEMMA DenotesAppends ==
  ASSUME NEW base \in Seq(Components), NEW t \in Seq(Named)
  PROVE  Denotes(base \o t) = Denotes(base) \o t
<1> DEFINE path == base \o t
           b == Len(base)
           N == Names(base)
           T(m) == b + 1 .. b + m
<1>1. /\ t \in Seq(Components)
      /\ path \in Seq(Components) /\ Len(path) = b + Len(t)
      /\ b \in Nat /\ Len(t) \in Nat
      /\ \A i \in 1 .. b : path[i] = base[i]
      /\ \A m \in 1 .. Len(t) : path[b + m] = t[m]
  <2>1. t \in Seq(Components)
    BY NamedComponents, SeqMonotonic
  <2> QED
    BY <2>1, ConcatProperties, LenProperties
<1>2. /\ N \subseteq 1 .. b
      /\ IsFiniteSet(N) /\ Cardinality(N) \in Nat
      /\ Denotes(base) \in Seq(Named)
      /\ Len(Denotes(base)) = Cardinality(N)
      /\ \A i \in N : /\ Count(base, i) \in 1 .. Cardinality(N)
                      /\ Denotes(base)[Count(base, i)] = base[i]
  BY DenotesCounts, LenProperties DEF Names
<1>3. \A m \in 1 .. Len(t) : t[m] \notin {"", "."}
  <2>1. \A m \in 1 .. Len(t) : t[m] \in Named
    BY ElementOfSeq
  <2> QED
    BY <2>1, PagesAssumption DEF Named
<1>4. Names(path) = N \cup T(Len(t))
  <2>1. DOMAIN path = 1 .. b + Len(t) /\ DOMAIN base = 1 .. b
    BY <1>1, LenProperties
  <2>2. ASSUME NEW i \in 1 .. b
        PROVE  i \in Names(path) <=> i \in N
    <3>1. i \in 1 .. b + Len(t) /\ path[i] = base[i]
      BY <1>1
    <3> QED
      BY <2>1, <3>1 DEF Names
  <2>3. ASSUME NEW i \in T(Len(t))
        PROVE  i \in Names(path)
    <3>1. i - b \in 1 .. Len(t) /\ i = b + (i - b) /\ i \in 1 .. b + Len(t)
      BY <1>1
    <3>2. path[i] = t[i - b]
      BY <1>1, <3>1
    <3> QED
      BY <1>3, <2>1, <3>1, <3>2 DEF Names
  <2>4. Names(path) \subseteq 1 .. b + Len(t)
    BY <2>1 DEF Names
  <2>5. \A i \in 1 .. b + Len(t) : i \in 1 .. b \/ i \in T(Len(t))
    BY <1>1
  <2> HIDE DEF N, T, path
  <2> QED
    BY <1>1, <1>2, <2>2, <2>3, <2>4, <2>5
<1>5. ASSUME NEW m \in 0 .. Len(t)
      PROVE  Cardinality(N \cup T(m)) = Cardinality(N) + m
  <2>1. /\ m \in Nat /\ b + 1 \in Int /\ b + m \in Int
        /\ (IF b + 1 > b + m THEN 0 ELSE (b + m) - (b + 1) + 1) = m
    BY <1>1
  <2>2. IsFiniteSet(T(m)) /\ Cardinality(T(m)) = m
    <3> HIDE DEF b
    <3> QED
      BY <2>1, FS_Interval
  <2>3. N \cap T(m) = {}
    BY <1>1, <1>2
  <2>4. Cardinality(N \cap T(m)) = 0
    BY <2>3, FS_EmptySet
  <2> HIDE DEF N, T
  <2>5. Cardinality(N \cup T(m)) = Cardinality(N) + Cardinality(T(m)) - 0
    BY <1>2, <2>2, <2>4, FS_Union
  <2> QED
    BY <1>2, <2>1, <2>2, <2>5
<1>6. /\ Denotes(base) \o t \in Seq(Named)
      /\ Len(Denotes(base) \o t) = Cardinality(N) + Len(t)
      /\ \A k \in 1 .. Cardinality(N) :
             (Denotes(base) \o t)[k] = Denotes(base)[k]
      /\ \A m \in 1 .. Len(t) :
             (Denotes(base) \o t)[Cardinality(N) + m] = t[m]
  <2>1. Denotes(base) \in Seq(Named)
    BY <1>2
  <2>2. /\ Denotes(base) \o t \in Seq(Named)
        /\ Len(Denotes(base) \o t) = Len(Denotes(base)) + Len(t)
        /\ \A k \in 1 .. Len(Denotes(base)) + Len(t) :
              (Denotes(base) \o t)[k] =
                IF k <= Len(Denotes(base)) THEN Denotes(base)[k]
                ELSE t[k - Len(Denotes(base))]
    BY <2>1, ConcatProperties
  <2> DEFINE d == Denotes(base)
  <2>3. Len(d) = Cardinality(N) /\ Cardinality(N) \in Nat /\ Len(t) \in Nat
    BY <1>1, <1>2
  <2> HIDE DEF N, d
  <2> QED
    <3>1. Len(d \o t) = Cardinality(N) + Len(t)
      BY <2>2, <2>3 DEF d
    <3>2. ASSUME NEW k \in 1 .. Cardinality(N) PROVE (d \o t)[k] = d[k]
      BY <2>2, <2>3 DEF d
    <3>3. ASSUME NEW m \in 1 .. Len(t)
          PROVE  (d \o t)[Cardinality(N) + m] = t[m]
      <4>1. /\ Cardinality(N) + m \in 1 .. Len(d) + Len(t)
            /\ ~ (Cardinality(N) + m <= Len(d))
            /\ (Cardinality(N) + m) - Len(d) = m
        BY <2>3
      <4> QED
        BY <2>2, <4>1 DEF d
    <3> QED
      BY <2>2, <3>1, <3>2, <3>3 DEF d
<1>7. Len(Denotes(base) \o t) = Cardinality(Names(path))
  <2>1. Len(t) \in 0 .. Len(t)
    BY <1>1
  <2>2. Cardinality(N \cup T(Len(t))) = Cardinality(N) + Len(t)
    BY <1>5, <2>1
  <2> HIDE DEF N, T, path
  <2> QED
    BY <1>4, <1>6, <2>2
<1>8. ASSUME NEW i \in Names(path)
      PROVE  (Denotes(base) \o t)[Count(path, i)] = path[i]
  <2>1. CASE i \in N
    <3>1. {j \in Names(path) : j <= i} = {j \in N : j <= i}
      <4>1. \A j \in T(Len(t)) : ~ (j <= i)
        BY <1>1, <1>2, <2>1
      <4> HIDE DEF N, T, path
      <4> QED
        BY <1>4, <4>1
    <3>2. Count(path, i) = Count(base, i)
      BY <3>1 DEF Count
    <3> HIDE DEF N, T, path
    <3> QED
      BY <1>1, <1>2, <1>6, <2>1, <3>2
  <2>2. CASE i \in T(Len(t))
    <3> DEFINE m == i - b
    <3>1. m \in 1 .. Len(t) /\ i = b + m
      BY <1>1, <2>2
    <3>2. {j \in Names(path) : j <= i} = N \cup T(m)
      <4>1. \A j \in N : j <= i
        BY <1>1, <1>2, <3>1
      <4>2. \A j \in T(Len(t)) : j <= i <=> j \in T(m)
        BY <1>1, <3>1
      <4>3. T(m) \subseteq T(Len(t))
        BY <1>1, <3>1
      <4> HIDE DEF N, T, path, m
      <4> QED
        BY <1>4, <4>1, <4>2, <4>3
    <3>3. Count(path, i) = Cardinality(N) + m
      BY <1>5, <3>1, <3>2 DEF Count
    <3> HIDE DEF N, T, path, m
    <3> QED
      BY <1>1, <1>6, <3>1, <3>3
  <2> HIDE DEF N, T, path
  <2> QED
    BY <1>4, <2>1, <2>2
<1> HIDE DEF path, N, T
<1>9. Denotes(path) = Denotes(base) \o t
  BY <1>1, <1>6, <1>7, <1>8, DenotesIs
<1> QED
  BY <1>9 DEF path

EndsInSlash(path) == path # <<>> /\ Last(path) = ""
EndsInName(path) == path # <<>> /\ Last(path) \notin {"", "."}

\* A slash or a dot at the end of a path is no name.
LEMMA DenotesFront ==
  ASSUME NEW r \in Seq(Components), r # <<>>, ~ EndsInName(r)
  PROVE  Front(r) \in Seq(Components) /\ Denotes(Front(r)) = Denotes(r)
<1>1. Len(r) \in Nat /\ Len(r) > 0 /\ DOMAIN r = 1 .. Len(r)
  <2>1. Len(r) # 0
    BY EmptySeq
  <2> QED
    BY <2>1, LenProperties
<1>2. /\ Front(r) \in Seq(Components) /\ Len(Front(r)) = Len(r) - 1
      /\ DOMAIN Front(r) = 1 .. Len(r) - 1
      /\ \A i \in 1 .. Len(r) - 1 : Front(r)[i] = r[i]
  <2>1. \A i \in 1 .. Len(r) - 1 : r[i] \in Components
    BY <1>1, ElementOfSeq
  <2> QED
    BY <1>1, <2>1, SubSeqProperties, LenProperties DEF Front
<1>3. Names(Front(r)) = Names(r)
  <2> DEFINE n == Len(r)
  <2>1. \A i \in 1 .. n : i \in 1 .. n - 1 \/ i = n
    <3>1. n \in Nat
      BY <1>1
    <3> HIDE DEF n
    <3> QED
      BY <3>1
  <2>2. \A i \in 1 .. Len(r) - 1 : i \in 1 .. Len(r)
    BY <1>1
  <2>3. Len(r) \notin Names(r)
    BY DEF EndsInName, Last, Names
  <2> QED
    BY <1>1, <1>2, <2>1, <2>2, <2>3 DEF Names
<1>4. \A i \in Names(Front(r)) :
         Count(Front(r), i) = Count(r, i) /\ Front(r)[i] = r[i]
  BY <1>2, <1>3 DEF Count, Names
<1>5. /\ Denotes(r) \in Seq(Named)
      /\ Len(Denotes(r)) = Cardinality(Names(r))
      /\ \A i \in Names(r) : Denotes(r)[Count(r, i)] = r[i]
  BY DenotesCounts
<1> DEFINE names == Denotes(r)
           front == Front(r)
<1>6. /\ front \in Seq(Components) /\ names \in Seq(Named)
      /\ Len(names) = Cardinality(Names(front))
      /\ \A i \in Names(front) : names[Count(front, i)] = front[i]
  BY <1>2, <1>3, <1>4, <1>5
<1> HIDE DEF names, front
<1>7. Denotes(front) = names
  BY <1>6, DenotesIs
<1> QED
  BY <1>2, <1>7 DEF names, front

-----------------------------------------------------------------------------
(* The entry a row stands for.                                             *)

\* The part of a path behind the path of a root.
Rest(root, path) == SubSeq(path, Len(Denotes(root)) + 1, Len(path))

\* The entries below a root.
Within(root) ==
    {path \in Tree : IsPrefix(Denotes(root), path) /\ path # Denotes(root)}

LEMMA BelowIsWithin ==
  /\ \A root, path : EntryPath(root, path) = Stem(root) \o Rest(root, path)
  /\ \A root : Below(root) = {EntryPath(root, path) : path \in Within(root)}
<1>1. \A root, path : EntryPath(root, path) = Stem(root) \o Rest(root, path)
  BY DEF EntryPath, Rest
<1>2. ASSUME NEW root
      PROVE  Within(root) = {p \in Tree \ {Denotes(root)} :
                               IsPrefix(Denotes(root), p)}
  BY DEF Within
<1> QED
  BY <1>1, <1>2 DEF Below

LEMMA PathsAreSequences ==
  /\ \A path \in Tree : path \in Seq(Named)
  /\ \A root \in Roots : /\ root \in Seq(Components)
                         /\ Denotes(root) \in Tree
                         /\ Denotes(root) \in Seq(Named)
<1>1. \A path \in Tree : path \in Seq(Named)
  BY PagesAssumption DEF Named
<1>2. \A root \in Roots : root \in Seq(Components) /\ Denotes(root) \in Tree
  BY PagesAssumption DEF Components
<1> QED
  BY <1>1, <1>2

LEMMA SlashIsNoName ==
  \A path : EndsInSlash(path) => path # <<>> /\ ~ EndsInName(path)
BY DEF EndsInSlash, EndsInName

LEMMA StemDenotes ==
  ASSUME NEW root \in Roots
  PROVE  Stem(root) \in Seq(Components) /\ Denotes(Stem(root)) = Denotes(root)
BY PathsAreSequences, SlashIsNoName, DenotesFront DEF Stem, EndsInSlash

LEMMA RestOfPath ==
  ASSUME NEW root \in Roots, NEW path \in Within(root)
  PROVE  /\ path \in Seq(Named) /\ Len(Denotes(root)) \in Nat
         /\ Rest(root, path) \in Seq(Named)
         /\ Denotes(root) \o Rest(root, path) = path
         /\ Len(Denotes(root)) < Len(path)
         /\ Len(Rest(root, path)) = Len(path) - Len(Denotes(root))
<1> DEFINE d == Denotes(root)
           n == Len(d)
           l == Len(path)
<1>1. /\ path \in Seq(Named) /\ d \in Seq(Named)
      /\ IsPrefix(d, path) /\ path # d
  BY PathsAreSequences DEF Within
<1>2. /\ n \in Nat /\ l \in Nat /\ n <= l
      /\ \A i \in 1 .. l : path[i] \in Named
      /\ SubSeq(d, 1, n) = SubSeq(path, 1, n)
  BY <1>1, LenProperties, ElementOfSeq DEF IsPrefix
<1>3. SubSeq(path, 1, n) = d /\ SubSeq(path, 1, l) = path
  BY <1>1, <1>2, SubSeqFull
<1>4. SubSeq(path, 1, n) \o SubSeq(path, n + 1, l) = SubSeq(path, 1, l)
  <2>1. 1 \in 1 .. l + 1 /\ n \in 1 - 1 .. l /\ l \in n .. l
    BY <1>2
  <2> HIDE DEF n, l, d
  <2> QED
    BY <1>1, <2>1, ConcatAdjacentSubSeq DEF l
<1>5. d \o Rest(root, path) = path
  BY <1>3, <1>4 DEF Rest
<1>6. n # l
  BY <1>1, <1>3
<1>7. n < l /\ \A i \in n + 1 .. l : path[i] \in Named
  BY <1>2, <1>6
<1>8. /\ Rest(root, path) \in Seq(Named)
      /\ Len(Rest(root, path)) = l - n
  <2> HIDE DEF n, l, d
  <2>1. /\ SubSeq(path, n + 1, l) \in Seq(Named)
        /\ Len(SubSeq(path, n + 1, l)) = l - (n + 1) + 1
    BY <1>2, <1>7, SubSeqProperties
  <2> QED
    BY <1>2, <2>1 DEF Rest, n, l, d
<1> QED
  BY <1>1, <1>2, <1>5, <1>7, <1>8

\* The entry below a root that a path leads to is the entry that was walked.
LEMMA EntryDenotes ==
  ASSUME NEW root \in Roots, NEW path \in Within(root)
  PROVE  /\ EntryPath(root, path) \in Seq(Components)
         /\ Denotes(EntryPath(root, path)) = path
<1>1. /\ Rest(root, path) \in Seq(Named) /\ Rest(root, path) \in Seq(Components)
      /\ Denotes(root) \o Rest(root, path) = path
  BY RestOfPath, NamedComponents, SeqMonotonic
<1>2. /\ Stem(root) \in Seq(Components)
      /\ Denotes(Stem(root)) = Denotes(root)
  BY StemDenotes
<1>3. /\ Stem(root) \o Rest(root, path) \in Seq(Components)
      /\ Denotes(Stem(root) \o Rest(root, path))
           = Denotes(Stem(root)) \o Rest(root, path)
  BY <1>1, <1>2, ConcatProperties, DenotesAppends
<1> QED
  BY <1>1, <1>2, <1>3, BelowIsWithin

\* A crawl returns no entry twice, however its root is spelled.
LEMMA OneRowPerEntryOfACrawl ==
  ASSUME NEW root \in Roots,
         NEW p \in Below(root) \cup {root}, NEW q \in Below(root) \cup {root},
         Denotes(p) = Denotes(q)
  PROVE  p = q
<1>1. ASSUME NEW r \in Below(root)
      PROVE  \E path \in Within(root) : /\ r = EntryPath(root, path)
                                        /\ Denotes(r) = path
                                        /\ Denotes(r) # Denotes(root)
  <2>1. PICK path \in Within(root) : r = EntryPath(root, path)
    BY BelowIsWithin
  <2>2. path # Denotes(root)
    BY DEF Within
  <2> QED
    BY <2>1, <2>2, EntryDenotes
<1> QED
  BY <1>1

-----------------------------------------------------------------------------
(* Where the rows come from.                                               *)

RowsOfCrawls ==
    \A p \in rows : /\ Root(p) \in Roots
                    /\ p \in Below(Root(p)) \cup {Root(p)}
                    /\ \E mode \in DOMAIN TypeTexts : Type(p) = TypeTexts[mode]

LEMMA RowsOfCrawlsStep == RowsOfCrawls /\ [Next]_vars => RowsOfCrawls'
<1> SUFFICES ASSUME RowsOfCrawls, [Next]_vars PROVE RowsOfCrawls'
  OBVIOUS
<1>1. ASSUME NEW root \in Roots, NEW path \in Below(root) \cup {root},
             NEW mode \in Modes[Denotes(path)], Record(root, path, mode)
      PROVE  RowsOfCrawls'
  <2>1. mode \in DOMAIN TypeTexts
    <3>1. Denotes(path) \in Tree
      <4>1. CASE path = root
        BY <4>1, PagesAssumption
      <4>2. CASE path \in Below(root)
        <5>1. PICK entry \in Within(root) : path = EntryPath(root, entry)
          BY <4>2, BelowIsWithin
        <5>2. Denotes(path) = entry
          BY <5>1, EntryDenotes
        <5> QED
          BY <5>2 DEF Within
      <4> QED
        BY <4>1, <4>2
    <3> QED
      BY <3>1, PagesAssumption
  <2>2. /\ rows' = rows \cup {path}
        /\ Root(path)' = root /\ Type(path)' = TypeTexts[mode]
        /\ \A p \in rows \ {path} :
              Root(p)' = Root(p) /\ Type(p)' = Type(p)
    BY <1>1 DEF Record, rows, Root, Type
  <2> QED
    BY <2>1, <2>2 DEF RowsOfCrawls
<1>2. CASE Clear
  <2>1. rows' = {}
    BY <1>2 DEF Clear, rows
  <2> QED
    BY <2>1 DEF RowsOfCrawls
<1>3. CASE UNCHANGED catalog
  BY <1>3 DEF RowsOfCrawls, rows, Root, Type
<1> QED
  BY <1>1, <1>2, <1>3 DEF Next, Browse, Search, vars

\* Each row is what a crawl of its scan run's root may have recorded.
LEMMA RowsComeFromCrawls == Spec => []RowsOfCrawls
<1>1. Init => RowsOfCrawls
  BY DEF Init, RowsOfCrawls, rows
<1> QED
  BY <1>1, RowsOfCrawlsStep, PTL DEF Spec

\* One entry has two rows only where two crawls spelled their roots
\* differently: no spelling of a root makes its own walk return an entry
\* twice (create_file_system_entry_record, ON CONFLICT(absolute_path)).
THEOREM OneRowForEachSpelling == Spec => []OneRowPerSpelling
<1>1. ASSUME RowsOfCrawls PROVE OneRowPerSpelling
  <2> SUFFICES ASSUME NEW p \in rows, NEW q \in rows, Root(p) = Root(q),
                      Denotes(p) = Denotes(q)
               PROVE  p = q
    BY DEF OneRowPerSpelling
  <2> QED
    BY <1>1, OneRowPerEntryOfACrawl DEF RowsOfCrawls
<1> QED
  BY <1>1, RowsComeFromCrawls, PTL

-----------------------------------------------------------------------------
(* The order of texts.                                                     *)

LEMMA CodesAreDistinct ==
  /\ \A c \in Characters : Code(c) \in Nat /\ Order[Code(c)] = c
  /\ \A c, d \in Characters : Code(c) = Code(d) => c = d
<1>1. DOMAIN Order = 1 .. Len(Order) /\ Len(Order) \in Nat
  BY PagesAssumption, LenProperties
<1>2. ASSUME NEW c \in Characters
      PROVE  Code(c) \in DOMAIN Order /\ Order[Code(c)] = c
  <2>1. \E k \in DOMAIN Order : Order[k] = c
    BY DEF Characters, ToSet
  <2> QED
    BY <2>1 DEF Code
<1> QED
  BY <1>1, <1>2

Texts == Seq(Characters)

LEMMA PrecedesIsStrict == \A s \in Texts : ~ Precedes(s, s)
<1> SUFFICES ASSUME NEW s \in Texts, NEW k \in 1 .. Len(s) + 1,
                    k <= Len(s), k <= Len(s) => Code(s[k]) < Code(s[k])
             PROVE  FALSE
  BY DEF Precedes
<1>1. Len(s) \in Nat
  BY LenProperties DEF Texts
<1>2. s[k] \in Characters
  BY <1>1, ElementOfSeq DEF Texts
<1> QED
  BY <1>1, <1>2, CodesAreDistinct

\* s comes before t because of the place k.
PrecedesAt(s, t, k) ==
    /\ k \in 1 .. Len(s) + 1 /\ k <= Len(t)
    /\ \A i \in 1 .. k - 1 : s[i] = t[i]
    /\ k <= Len(s) => Code(s[k]) < Code(t[k])

LEMMA PrecedesIsTransitive ==
  ASSUME NEW s \in Texts, NEW t \in Texts, NEW u \in Texts,
         Precedes(s, t), Precedes(t, u)
  PROVE  Precedes(s, u)
<1>1. PICK k : PrecedesAt(s, t, k)
  BY DEF Precedes, PrecedesAt
<1>2. PICK m : PrecedesAt(t, u, m)
  BY DEF Precedes, PrecedesAt
<1>3. /\ Len(s) \in Nat /\ Len(t) \in Nat /\ Len(u) \in Nat
      /\ k \in Nat /\ m \in Nat
  BY <1>1, <1>2, LenProperties DEF PrecedesAt, Texts
<1>4. /\ \A i \in 1 .. Len(s) : Code(s[i]) \in Nat
      /\ \A i \in 1 .. Len(t) : Code(t[i]) \in Nat
      /\ \A i \in 1 .. Len(u) : Code(u[i]) \in Nat
  BY CodesAreDistinct, ElementOfSeq DEF Texts
<1>5. CASE k < m
  <2>1. /\ k \in 1 .. Len(s) + 1 /\ k <= Len(u)
        /\ u[k] = t[k] /\ \A i \in 1 .. k - 1 : s[i] = u[i]
    BY <1>1, <1>2, <1>3, <1>5 DEF PrecedesAt
  <2> QED
    BY <1>1, <2>1 DEF Precedes, PrecedesAt
<1>6. CASE m < k
  <2>1. /\ m \in 1 .. Len(s) + 1 /\ m <= Len(u) /\ m <= Len(t)
        /\ s[m] = t[m] /\ \A i \in 1 .. m - 1 : s[i] = u[i]
    BY <1>1, <1>2, <1>3, <1>6 DEF PrecedesAt
  <2> QED
    BY <1>2, <2>1 DEF Precedes, PrecedesAt
<1>7. CASE k = m
  <2>1. /\ k \in 1 .. Len(s) + 1 /\ k <= Len(u) /\ k <= Len(t)
        /\ \A i \in 1 .. k - 1 : s[i] = u[i]
    BY <1>1, <1>2, <1>3, <1>7 DEF PrecedesAt
  <2>2. k <= Len(s) => Code(s[k]) < Code(u[k])
    <3>1. SUFFICES ASSUME k <= Len(s) PROVE Code(s[k]) < Code(u[k])
      OBVIOUS
    <3>2. Code(s[k]) < Code(t[k]) /\ Code(t[k]) < Code(u[k])
      BY <1>1, <1>2, <1>7, <2>1, <3>1 DEF PrecedesAt
    <3>3. /\ Code(s[k]) \in Nat /\ Code(t[k]) \in Nat /\ Code(u[k]) \in Nat
      BY <1>3, <1>4, <2>1, <3>1
    <3> QED
      BY <3>2, <3>3
  <2> QED
    BY <2>1, <2>2 DEF Precedes
<1> QED
  BY <1>3, <1>5, <1>6, <1>7

\* Two different texts have a first place where they differ.
LEMMA PrecedesIsTotal ==
  ASSUME NEW s \in Texts, NEW t \in Texts, s # t
  PROVE  Precedes(s, t) \/ Precedes(t, s)
<1> DEFINE apart(k) == k > Len(s) \/ k > Len(t) \/ s[k] # t[k]
           D == {k \in Nat : k > 0 /\ apart(k)}
<1>1. Len(s) \in Nat /\ Len(t) \in Nat
  BY LenProperties DEF Texts
<1>2. PICK k \in D : \A i \in D : k <= i
  <2>1. Len(s) + 1 \in D
    BY <1>1
  <2>2. D \in SUBSET Nat /\ D # {}
    BY <2>1
  <2> HIDE DEF D
  <2> QED
    BY <2>2, NatHasLeast
<1>3. /\ k \in Nat /\ k > 0 /\ apart(k)
      /\ k <= Len(s) + 1 /\ k <= Len(t) + 1
  <2>1. Len(s) + 1 \in D /\ Len(t) + 1 \in D
    BY <1>1
  <2> QED
    BY <1>2, <2>1
<1>4. ASSUME NEW i \in 1 .. k - 1 PROVE s[i] = t[i]
  <2>1. i \in Nat /\ i > 0 /\ i < k
    BY <1>3
  <2>2. i \notin D
    BY <1>2, <1>3, <2>1
  <2> QED
    BY <2>1, <2>2
<1>5. CASE k > Len(s) /\ k > Len(t)
  <2>1. Len(s) = k - 1 /\ Len(t) = k - 1
    BY <1>1, <1>3, <1>5
  <2> QED
    BY <1>4, <2>1, SeqEqual DEF Texts
<1>6. CASE k > Len(s) /\ k <= Len(t)
  BY <1>1, <1>3, <1>4, <1>6 DEF Precedes
<1>7. CASE k <= Len(s) /\ k > Len(t)
  BY <1>1, <1>3, <1>4, <1>7 DEF Precedes
<1>8. CASE k <= Len(s) /\ k <= Len(t)
  <2>1. k \in 1 .. Len(s) + 1 /\ k \in 1 .. Len(t) + 1
    BY <1>1, <1>3
  <2>2. s[k] # t[k]
    BY <1>1, <1>3, <1>8
  <2>3. s[k] \in Characters /\ t[k] \in Characters
    BY <1>3, <1>8, ElementOfSeq DEF Texts
  <2>4. Code(s[k]) < Code(t[k]) \/ Code(t[k]) < Code(s[k])
    BY <2>2, <2>3, CodesAreDistinct
  <2>5. CASE Code(s[k]) < Code(t[k])
    BY <1>4, <1>8, <2>1, <2>5 DEF Precedes
  <2>6. CASE Code(t[k]) < Code(s[k])
    BY <1>4, <1>8, <2>1, <2>6 DEF Precedes
  <2> QED
    BY <2>4, <2>5, <2>6
<1> QED
  BY <1>1, <1>3, <1>5, <1>6, <1>7, <1>8

-----------------------------------------------------------------------------
(* What LIMIT leaves.                                                      *)

\* Each of the first elements once; all of them unless the limit cut some off.
IsCut(shown, S, place, size) ==
    /\ Len(shown) \in Nat
    /\ ToSet(shown) \subseteq S
    /\ IsFiniteSet(ToSet(shown))
    /\ Cardinality(ToSet(shown)) = Len(shown)
    /\ \A p \in S : p \in ToSet(shown) <=> place[p] < Len(shown)
    /\ Len(shown) # size => ToSet(shown) = S

LEMMA FirstOfPlaces ==
  ASSUME NEW S, IsFiniteSet(S),
         NEW place, place \in Bijection(S, 0 .. Cardinality(S) - 1),
         NEW size, size \in Int
  PROVE  IsCut(FirstOf(place, size), S, place, size)
<1> DEFINE count == Cardinality(S)
           length == IF size \in 0 .. count THEN size ELSE count
           at(k) == CHOOSE p \in S : place[p] = k - 1
           shown == FirstOf(place, size)
<1>1. /\ count \in Nat /\ length \in 0 .. count /\ length \in Nat
      /\ length # size => length = count
  BY FS_CardinalityType
<1>2. /\ DOMAIN place = S
      /\ \A p \in S : place[p] \in 0 .. count - 1
      /\ \A p, q \in S : place[p] = place[q] => p = q
      /\ \A k \in 0 .. count - 1 : \E p \in S : place[p] = k
  BY DEF Bijection, Injection, Surjection, IsInjective
<1>3. shown = [k \in 1 .. length |-> at(k)]
  BY <1>2 DEF FirstOf
<1>4. ASSUME NEW k \in 1 .. length
      PROVE  at(k) \in S /\ place[at(k)] = k - 1 /\ shown[k] = at(k)
  <2>1. k - 1 \in 0 .. count - 1
    <3> HIDE DEF count, length
    <3> QED
      BY <1>1
  <2>2. \E p \in S : place[p] = k - 1
    BY <1>2, <2>1
  <2> HIDE DEF length
  <2> QED
    BY <1>3, <2>2
<1> HIDE DEF at, length, shown
<1>5. DOMAIN shown = 1 .. length
  BY <1>3
<1>6. \A k \in 1 .. length : shown[k] \in S /\ place[shown[k]] = k - 1
  BY <1>4
<1>7. /\ shown \in [1 .. length -> ToSet(shown)]
      /\ ToSet(shown) = {shown[k] : k \in 1 .. length}
  <2>1. ToSet(shown) = {shown[k] : k \in 1 .. length}
    BY <1>5 DEF ToSet
  <2>2. \A k \in 1 .. length : shown[k] \in ToSet(shown)
    BY <2>1
  <2> QED
    BY <1>3, <2>1, <2>2
<1>8. Len(shown) = length
  <2>1. shown \in Seq(ToSet(shown))
    <3>1. length \in Nat /\ shown \in [1 .. length -> ToSet(shown)]
      BY <1>1, <1>7
    <3> QED
      BY <3>1
  <2> QED
    BY <1>1, <1>5, <2>1, LenProperties
<1>9. ASSUME NEW p \in S
      PROVE  p \in ToSet(shown) <=> place[p] < length
  <2>1. place[p] \in 0 .. count - 1
    BY <1>2
  <2>2. ASSUME p \in ToSet(shown) PROVE place[p] < length
    <3>1. PICK k \in 1 .. length : p = shown[k]
      BY <1>7, <2>2
    <3>2. place[p] = k - 1
      BY <1>6, <3>1
    <3> QED
      BY <1>1, <3>1, <3>2
  <2>3. ASSUME place[p] < length PROVE p \in ToSet(shown)
    <3>1. place[p] + 1 \in 1 .. length /\ place[p] \in Nat
      <4> HIDE DEF count
      <4> QED
        BY <1>1, <2>1, <2>3
    <3>2. place[shown[place[p] + 1]] = (place[p] + 1) - 1
      BY <1>6, <3>1
    <3>3. place[shown[place[p] + 1]] = place[p]
      BY <3>1, <3>2
    <3>4. shown[place[p] + 1] = p
      BY <1>2, <1>6, <3>1, <3>3
    <3> QED
      BY <1>7, <3>1, <3>4
  <2> QED
    BY <2>2, <2>3
<1>10. ToSet(shown) \subseteq S
  BY <1>6, <1>7
<1>11. IsFiniteSet(ToSet(shown)) /\ Cardinality(ToSet(shown)) = length
  <2>1. \A k, m \in 1 .. length : shown[k] = shown[m] => k = m
    <3> SUFFICES ASSUME NEW k \in 1 .. length, NEW m \in 1 .. length,
                        shown[k] = shown[m]
                 PROVE  k = m
      OBVIOUS
    <3>1. k - 1 = m - 1
      BY <1>6
    <3> QED
      BY <1>1, <3>1
  <2>2. shown \in Bijection(1 .. length, ToSet(shown))
    <3>1. shown \in Injection(1 .. length, ToSet(shown))
      BY <1>7, <2>1 DEF Injection, IsInjective
    <3>2. shown \in Surjection(1 .. length, ToSet(shown))
      BY <1>7 DEF Surjection
    <3> QED
      BY <3>1, <3>2 DEF Bijection
  <2>3. IsFiniteSet(1 .. length) /\ Cardinality(1 .. length) = length
    BY <1>1, FS_Interval
  <2> QED
    BY <2>2, <2>3, FS_Bijection DEF ExistsBijection
<1>12. Len(shown) # size => ToSet(shown) = S
  <2> SUFFICES ASSUME length # size, NEW p \in S PROVE p \in ToSet(shown)
    BY <1>8, <1>10
  <2>1. place[p] < length
    <3> HIDE DEF count
    <3> QED
      BY <1>1, <1>2
  <2> QED
    BY <1>9, <2>1
<1>13. IsCut(shown, S, place, size)
  BY <1>1, <1>8, <1>9, <1>10, <1>11, <1>12 DEF IsCut
<1> QED
  BY <1>13 DEF shown

-----------------------------------------------------------------------------
(* The text of a path.                                                     *)

\* A slash at the end follows a name.
Spelled(path) ==
    /\ path \in Seq(Components)
    /\ \A i \in DOMAIN path : path[i] = "" => i > 1 /\ i = Len(path)

Shorter(path) == IF EndsInSlash(path) THEN 1 ELSE 0

LEMMA OneCharacter ==
  ASSUME NEW c \in Characters
  PROVE  <<c>> \in Texts /\ Len(<<c>>) = 1 /\ <<c>>[1] = c
BY DEF Texts

LEMMA TextOfPath ==
  ASSUME NEW path, Spelled(path), path # <<>>
  PROVE  /\ Len(path) \in Nat /\ Len(path) > 0
         /\ EndsInSlash(path) => Len(path) > 1
         /\ Text(path) \in Texts
         /\ Len(Text(path)) = 2 * Len(path) - Shorter(path)
         /\ \A i \in Nat : i > 0 /\ 2 * i <= Len(Text(path)) =>
               Text(path)[2 * i] = path[i]
<1> DEFINE l == 2 * Len(path) - Shorter(path)
<1>1. /\ Len(path) \in Nat /\ Len(path) > 0
      /\ DOMAIN path = 1 .. Len(path)
      /\ \A i \in 1 .. Len(path) : path[i] \in Components
  <2>1. path \in Seq(Components)
    BY DEF Spelled
  <2>2. Len(path) # 0
    BY <2>1, EmptySeq
  <2>3. \A i \in 1 .. Len(path) : path[i] \in Components
    BY <2>1, ElementOfSeq
  <2> QED
    BY <2>1, <2>2, <2>3, LenProperties
<1>2. EndsInSlash(path) <=> path[Len(path)] = ""
  BY DEF EndsInSlash, Last
<1>3. EndsInSlash(path) => Len(path) > 1
  <2>1. Len(path) \in DOMAIN path
    BY <1>1
  <2> QED
    BY <1>2, <2>1 DEF Spelled
<1>4. \A i \in 1 .. Len(path) :
         ~ (EndsInSlash(path) /\ i = Len(path)) => path[i] \in Characters
  <2> SUFFICES ASSUME NEW i \in 1 .. Len(path),
                      ~ (EndsInSlash(path) /\ i = Len(path))
               PROVE  path[i] \in Characters
    OBVIOUS
  <2>1. path[i] # ""
    BY <1>1, <1>2 DEF Spelled
  <2> QED
    BY <1>1, <2>1 DEF Components
<1>5. Shorter(path) \in 0 .. 1 /\ (EndsInSlash(path) <=> Shorter(path) = 1)
  BY DEF Shorter
<1>6. l \in Nat
  BY <1>1, <1>5
<1>7. Text(path) =
        [i \in 1 .. l |-> IF i % 2 = 1 THEN "/" ELSE path[i \div 2]]
  BY DEF Text, Shorter, EndsInSlash
<1>8. ASSUME NEW i \in 1 .. l PROVE Text(path)[i] \in Characters
  <2>1. CASE i % 2 = 1
    BY <1>7, <2>1, PagesAssumption
  <2>2. CASE i % 2 # 1
    <3> DEFINE h == i \div 2
    <3>1. i = 2 * h /\ h \in Nat
      BY <1>6, <2>2
    <3>2. h \in 1 .. Len(path) /\ ~ (Shorter(path) = 1 /\ h = Len(path))
      <4> DEFINE e == Shorter(path)
                 n == Len(path)
      <4>1. e \in 0 .. 1 /\ n \in Nat /\ i \in 1 .. 2 * n - e
        BY <1>1, <1>5
      <4> HIDE DEF h, e, n
      <4>2. h \in 1 .. n /\ ~ (e = 1 /\ h = n)
        BY <3>1, <4>1
      <4> QED
        BY <4>2 DEF e, n
    <3>3. path[h] \in Characters
      <4> HIDE DEF h
      <4> QED
        BY <1>4, <1>5, <3>2
    <3> QED
      BY <1>7, <2>2, <3>3
  <2> QED
    BY <2>1, <2>2
<1>9. Text(path) \in Texts /\ Len(Text(path)) = l
  <2> HIDE DEF l
  <2>1. Text(path) = [i \in 1 .. l |-> Text(path)[i]]
    BY <1>7
  <2> QED
    BY <1>6, <1>8, <2>1 DEF Texts
<1>10. ASSUME NEW i \in Nat, i > 0, 2 * i <= l
       PROVE  Text(path)[2 * i] = path[i]
  <2>1. /\ 2 * i \in 1 .. l /\ (2 * i) % 2 # 1 /\ (2 * i) \div 2 = i
    <3> HIDE DEF l
    <3> QED
      BY <1>6, <1>10
  <2> HIDE DEF l
  <2> QED
    BY <1>7, <2>1
<1> QED
  BY <1>1, <1>3, <1>9, <1>10

\* Two paths with the same text are the same path.
LEMMA TextIsInjective ==
  ASSUME NEW p, NEW q, Spelled(p), Spelled(q), Text(p) = Text(q)
  PROVE  p = q
<1>1. Text(<<>>) \in Texts /\ Len(Text(<<>>)) = 1
  <2>1. Text(<<>>) = <<"/">>
    BY DEF Text
  <2>2. "/" \in Characters
    BY PagesAssumption
  <2> QED
    BY <2>1, <2>2, OneCharacter
<1>2. ASSUME NEW r, Spelled(r), r # <<>> PROVE Len(Text(r)) # 1
  <2>1. /\ Len(r) \in Nat /\ Len(r) > 0
        /\ EndsInSlash(r) => Len(r) > 1
        /\ Len(Text(r)) = 2 * Len(r) - Shorter(r)
    BY <1>2, TextOfPath
  <2> QED
    BY <2>1 DEF Shorter
<1>3. CASE p = <<>> \/ q = <<>>
  BY <1>1, <1>2, <1>3
<1>4. CASE p # <<>> /\ q # <<>>
  <2>1. /\ Len(p) \in Nat /\ Len(p) > 0
        /\ Len(Text(p)) = 2 * Len(p) - Shorter(p)
        /\ \A i \in Nat : i > 0 /\ 2 * i <= Len(Text(p)) =>
              Text(p)[2 * i] = p[i]
    BY <1>4, TextOfPath
  <2>2. /\ Len(q) \in Nat /\ Len(q) > 0
        /\ Len(Text(q)) = 2 * Len(q) - Shorter(q)
        /\ \A i \in Nat : i > 0 /\ 2 * i <= Len(Text(q)) =>
              Text(q)[2 * i] = q[i]
    BY <1>4, TextOfPath
  <2>3. /\ Shorter(p) \in 0 .. 1 /\ (EndsInSlash(p) <=> Shorter(p) = 1)
        /\ Shorter(q) \in 0 .. 1 /\ (EndsInSlash(q) <=> Shorter(q) = 1)
    BY DEF Shorter
  <2>4. Len(p) = Len(q) /\ Shorter(p) = Shorter(q)
    <3>1. 2 * Len(p) - Shorter(p) = 2 * Len(q) - Shorter(q)
      BY <2>1, <2>2
    <3> QED
      BY <2>1, <2>2, <2>3, <3>1
  <2>5. ASSUME NEW i \in 1 .. Len(p) PROVE p[i] = q[i]
    <3>1. CASE Shorter(p) = 1 /\ i = Len(p)
      <4>1. EndsInSlash(p) /\ EndsInSlash(q)
        BY <2>3, <2>4, <3>1
      <4>2. p[Len(p)] = "" /\ q[Len(q)] = ""
        BY <4>1 DEF EndsInSlash, Last
      <4> QED
        BY <2>4, <3>1, <4>2
    <3>2. CASE ~ (Shorter(p) = 1 /\ i = Len(p))
      <4>1. i \in Nat /\ i > 0 /\ 2 * i <= Len(Text(p))
        BY <2>1, <2>3, <3>2
      <4> QED
        BY <2>1, <2>2, <4>1
    <3> QED
      BY <3>1, <3>2
  <2> QED
    BY <2>4, <2>5, SeqEqual DEF Spelled
<1> QED
  BY <1>3, <1>4

LEMMA RootsAreSpelled ==
  ASSUME NEW root \in Roots
  PROVE  /\ Spelled(root)
         /\ Spelled(Stem(root)) /\ ~ EndsInSlash(Stem(root))
<1>1. Spelled(root)
  BY PathsAreSequences, PagesAssumption DEF Spelled
<1>2. CASE EndsInSlash(root)
  <2>1. Front(root) \in Seq(Components)
    BY <1>1, <1>2, SlashIsNoName, DenotesFront DEF Spelled
  <2>2. /\ Len(root) \in Nat /\ DOMAIN root = 1 .. Len(root)
        /\ Len(root) > 1
    BY <1>1, <1>2, TextOfPath, LenProperties DEF Spelled, EndsInSlash
  <2>3. /\ Len(Front(root)) = Len(root) - 1
        /\ DOMAIN Front(root) = 1 .. Len(root) - 1
        /\ \A i \in 1 .. Len(root) - 1 : Front(root)[i] = root[i]
    <3>1. root \in Seq(Components)
      BY <1>1 DEF Spelled
    <3>2. \A i \in 1 .. Len(root) - 1 : root[i] \in Components
      BY <2>2, <3>1, ElementOfSeq
    <3> QED
      BY <2>1, <2>2, <3>2, SubSeqProperties, LenProperties DEF Front
  <2>4. \A i \in DOMAIN Front(root) : Front(root)[i] # ""
    <3> SUFFICES ASSUME NEW i \in 1 .. Len(root) - 1 PROVE root[i] # ""
      BY <2>3
    <3>1. i \in 1 .. Len(root) /\ i # Len(root)
      <4> DEFINE n == Len(root)
      <4>1. n \in Nat /\ i \in 1 .. n - 1
        BY <2>2
      <4> HIDE DEF n
      <4>2. i \in 1 .. n /\ i # n
        BY <4>1
      <4> QED
        BY <4>2 DEF n
    <3> QED
      BY <1>1, <2>2, <3>1 DEF Spelled
  <2>5. Len(Front(root)) \in DOMAIN Front(root)
    BY <2>2, <2>3
  <2> QED
    BY <1>1, <1>2, <2>1, <2>4, <2>5 DEF Spelled, EndsInSlash, Last, Stem
<1> QED
  BY <1>1, <1>2 DEF Stem, EndsInSlash

\* The components of an entry below a root are those of the root, a slash at
\* its end left out, and those of the rest of its path.
LEMMA EntryIsSpelled ==
  ASSUME NEW root \in Roots, NEW path \in Within(root)
  PROVE  /\ Spelled(EntryPath(root, path))
         /\ EntryPath(root, path) # <<>>
         /\ Len(EntryPath(root, path)) =
              Len(Stem(root)) + Len(Rest(root, path))
         /\ \A i \in DOMAIN EntryPath(root, path) :
               EntryPath(root, path)[i] # ""
         /\ ~ EndsInSlash(EntryPath(root, path))
<1> DEFINE stem == Stem(root)
           rest == Rest(root, path)
           entry == EntryPath(root, path)
<1>1. /\ Spelled(stem) /\ ~ EndsInSlash(stem)
      /\ stem \in Seq(Components)
  BY RootsAreSpelled DEF Spelled
<1>2. /\ rest \in Seq(Named) /\ rest \in Seq(Components) /\ Len(rest) > 0
  BY RestOfPath, NamedComponents, SeqMonotonic
<1>3. /\ entry \in Seq(Components) /\ Len(entry) = Len(stem) + Len(rest)
      /\ DOMAIN entry = 1 .. Len(stem) + Len(rest)
      /\ Len(stem) \in Nat /\ Len(rest) \in Nat
      /\ \A i \in 1 .. Len(stem) + Len(rest) :
            entry[i] = IF i <= Len(stem) THEN stem[i] ELSE rest[i - Len(stem)]
  <2>1. entry = stem \o rest
    BY BelowIsWithin
  <2> HIDE DEF stem, rest, entry
  <2> QED
    BY <1>1, <1>2, <2>1, ConcatProperties, LenProperties
<1>4. ASSUME NEW i \in 1 .. Len(stem) PROVE stem[i] # ""
  <2>1. DOMAIN stem = 1 .. Len(stem)
    BY <1>1, LenProperties
  <2>2. ASSUME stem[i] = "" PROVE FALSE
    <3>1. i = Len(stem) /\ stem # <<>>
      <4> HIDE DEF stem
      <4>1. i \in DOMAIN stem
        BY <2>1
      <4>2. stem # <<>>
        BY <4>1
      <4>3. i = Len(stem)
        BY <1>1, <2>2, <4>1 DEF Spelled
      <4> QED
        BY <4>2, <4>3
    <3>2. EndsInSlash(stem)
      BY <2>2, <3>1 DEF EndsInSlash, Last
    <3> QED
      BY <1>1, <3>2
  <2> QED
    BY <2>2
<1>5. ASSUME NEW i \in 1 .. Len(rest) PROVE rest[i] # ""
  <2>1. rest[i] \in Named
    BY <1>2, ElementOfSeq
  <2> QED
    BY <2>1, PagesAssumption DEF Named
<1>6. ASSUME NEW i \in 1 .. Len(stem) + Len(rest) PROVE entry[i] # ""
  <2> DEFINE n == Len(stem)
             m == Len(rest)
  <2>1. n \in Nat /\ m \in Nat /\ i \in 1 .. n + m
    BY <1>3
  <2>2. i \in 1 .. n \/ (~ (i <= n) /\ i - n \in 1 .. m)
    <3> HIDE DEF n, m
    <3> QED
      BY <2>1
  <2>3. CASE i \in 1 .. n
    <3>1. entry[i] = stem[i]
      BY <1>3, <2>3
    <3> QED
      BY <1>4, <2>3, <3>1
  <2>4. CASE ~ (i <= n) /\ i - n \in 1 .. m
    <3>1. entry[i] = rest[i - n]
      BY <1>3, <2>4
    <3> QED
      BY <1>5, <2>4, <3>1
  <2> QED
    BY <2>2, <2>3, <2>4
<1> HIDE DEF stem, rest, entry
<1>7. Len(entry) \in 1 .. Len(stem) + Len(rest)
  BY <1>2, <1>3
<1>8. entry # <<>>
  BY <1>7, EmptySeq
<1>9. ~ EndsInSlash(entry)
  BY <1>6, <1>7 DEF EndsInSlash, Last
<1>10. Spelled(entry)
  BY <1>3, <1>6 DEF Spelled
<1> QED
  BY <1>3, <1>6, <1>8, <1>9, <1>10 DEF stem, rest, entry

LEMMA RowsAreSpelled ==
  ASSUME RowsOfCrawls
  PROVE  \A p \in rows : Spelled(p)
<1> SUFFICES ASSUME NEW p \in rows PROVE Spelled(p)
  OBVIOUS
<1>1. Root(p) \in Roots /\ p \in Below(Root(p)) \cup {Root(p)}
  BY DEF RowsOfCrawls
<1>2. CASE p = Root(p)
  BY <1>1, <1>2, RootsAreSpelled
<1>3. CASE p \in Below(Root(p))
  <2>1. PICK path \in Within(Root(p)) : p = EntryPath(Root(p), path)
    BY <1>3, BelowIsWithin
  <2> QED
    BY <1>1, <2>1, EntryIsSpelled
<1> QED
  BY <1>1, <1>2, <1>3

LEMMA RowsAreFinite == RowsOfCrawls => IsFiniteSet(rows)
<1> SUFFICES ASSUME RowsOfCrawls PROVE IsFiniteSet(rows)
  OBVIOUS
<1>1. ASSUME NEW root \in Roots
      PROVE  IsFiniteSet(Below(root) \cup {root})
  <2> DEFINE entry == [path \in Within(root) |-> EntryPath(root, path)]
  <2>1. IsFiniteSet(Within(root))
    <3>1. Within(root) \in SUBSET Tree
      BY DEF Within
    <3> QED
      BY <3>1, PagesAssumption, FS_Subset
  <2>2. entry \in Surjection(Within(root), Below(root))
    <3>1. Below(root) = {entry[path] : path \in Within(root)}
      BY BelowIsWithin
    <3> QED
      BY <3>1 DEF Surjection
  <2>3. IsFiniteSet(Below(root))
    <3> HIDE DEF entry
    <3> QED
      BY <2>1, <2>2, FS_Surjection
  <2> QED
    BY <2>3, FS_AddElement
<1> DEFINE crawl == [root \in Roots |-> Below(root) \cup {root}]
           crawls == {crawl[root] : root \in Roots}
<1>2. IsFiniteSet(Roots)
  BY PagesAssumption
<1>3. IsFiniteSet(crawls)
  <2>1. crawl \in Surjection(Roots, crawls)
    BY DEF Surjection
  <2> HIDE DEF crawl, crawls
  <2> QED
    BY <1>2, <2>1, FS_Surjection
<1>4. \A c \in crawls : IsFiniteSet(c)
  BY <1>1
<1>5. rows \in SUBSET UNION crawls
  BY DEF RowsOfCrawls
<1> HIDE DEF crawls
<1> QED
  BY <1>3, <1>4, <1>5, FS_UNION, FS_Subset

-----------------------------------------------------------------------------
(* LIKE.                                                                   *)

\* What is true of 1, and of each number up to n that follows one it is true
\* of, is true up to n.
LEMMA Upwards ==
  ASSUME NEW n \in Nat, NEW S, 1 \in S,
         \A i \in 1 .. n : i < n /\ i \in S => i + 1 \in S
  PROVE  \A i \in 1 .. n : i \in S
<1> DEFINE D == {i \in Nat : i > 0 /\ i <= n /\ i \notin S}
<1> SUFFICES ASSUME D # {} PROVE FALSE
  OBVIOUS
<1>1. PICK least \in D : \A i \in D : least <= i
  <2>1. D \in SUBSET Nat
    OBVIOUS
  <2> HIDE DEF D
  <2> QED
    BY <2>1, NatHasLeast
<1>2. least \in Nat /\ least > 1 /\ least <= n /\ least \notin S
  <2>1. least # 1
    OBVIOUS
  <2> QED
    BY <2>1
<1>3. least - 1 \in S
  <2>1. least - 1 \in Nat /\ least - 1 > 0 /\ least - 1 <= n
        /\ ~ (least <= least - 1)
    BY <1>2
  <2> QED
    BY <1>1, <2>1
<1>4. least - 1 \in 1 .. n /\ least - 1 < n /\ (least - 1) + 1 = least
  BY <1>2
<1> QED
  BY <1>2, <1>3, <1>4

\* The same from n down to 1.
LEMMA Downwards ==
  ASSUME NEW n \in Nat, NEW S, n \in S,
         \A i \in 1 .. n : i < n /\ i + 1 \in S => i \in S
  PROVE  \A i \in 1 .. n : i \in S
<1> DEFINE D == {d \in Nat : d < n /\ n - d \notin S}
<1> SUFFICES ASSUME NEW i \in 1 .. n, i \notin S PROVE FALSE
  OBVIOUS
<1>1. D \in SUBSET Nat /\ D # {}
  <2>1. n - i \in Nat /\ n - i < n /\ n - (n - i) = i
    OBVIOUS
  <2> QED
    BY <2>1
<1>2. PICK least \in D : \A d \in D : least <= d
  <2> HIDE DEF D
  <2> QED
    BY <1>1, NatHasLeast
<1>3. least \in Nat /\ least < n /\ n - least \notin S /\ least # 0
  OBVIOUS
<1>4. least - 1 \in Nat /\ least - 1 < n /\ ~ (least <= least - 1)
  BY <1>3
<1>5. n - (least - 1) \in S
  BY <1>2, <1>4
<1>6. /\ n - least \in 1 .. n /\ n - least < n
      /\ (n - least) + 1 = n - (least - 1)
  BY <1>3
<1> QED
  BY <1>3, <1>5, <1>6

\* The text from i on can be cut into pieces that the pattern from j on stands
\* for.
Cuts(text, pattern, i, j) ==
    \E cut \in [1 .. Len(pattern) + 1 -> 1 .. Len(text) + 1] :
        /\ cut[j] = i /\ cut[Len(pattern) + 1] = Len(text) + 1
        /\ \A p \in j .. Len(pattern) :
               StandsFor(pattern[p], text, cut[p], cut[p + 1])

LEMMA CutsStep ==
  ASSUME NEW text, NEW pattern, Len(text) \in Nat, Len(pattern) \in Nat,
         NEW i \in 1 .. Len(text) + 1, NEW j \in 1 .. Len(pattern)
  PROVE  Cuts(text, pattern, i, j) <=>
           \E k \in 1 .. Len(text) + 1 : /\ Cuts(text, pattern, k, j + 1)
                                         /\ StandsFor(pattern[j], text, i, k)
<1> DEFINE n == Len(text)
           m == Len(pattern)
           Cut == [1 .. m + 1 -> 1 .. n + 1]
           Fits(cut, b) ==
               /\ cut[m + 1] = n + 1
               /\ \A p \in b .. m :
                     StandsFor(pattern[p], text, cut[p], cut[p + 1])
<1>1. n \in Nat /\ m \in Nat /\ i \in 1 .. n + 1 /\ j \in 1 .. m
  OBVIOUS
<1>2. \A a, b : Cuts(text, pattern, a, b) <=>
                  \E cut \in Cut : cut[b] = a /\ Fits(cut, b)
  BY DEF Cuts
<1> HIDE DEF n, m
<1>3. ASSUME Cuts(text, pattern, i, j)
      PROVE  \E k \in 1 .. n + 1 : /\ Cuts(text, pattern, k, j + 1)
                                   /\ StandsFor(pattern[j], text, i, k)
  <2>1. PICK cut \in Cut : cut[j] = i /\ Fits(cut, j)
    BY <1>2, <1>3
  <2>2. /\ j + 1 \in 1 .. m + 1 /\ j \in j .. m
        /\ \A p \in j + 1 .. m : p \in j .. m
    BY <1>1
  <2>3. /\ cut[j + 1] \in 1 .. n + 1 /\ Fits(cut, j + 1)
        /\ StandsFor(pattern[j], text, i, cut[j + 1])
    BY <2>1, <2>2
  <2> HIDE DEF Fits, Cut
  <2> QED
    BY <1>2, <2>1, <2>3
<1>4. ASSUME NEW k \in 1 .. n + 1, Cuts(text, pattern, k, j + 1),
             StandsFor(pattern[j], text, i, k)
      PROVE  Cuts(text, pattern, i, j)
  <2>1. PICK cut \in Cut : cut[j + 1] = k /\ Fits(cut, j + 1)
    BY <1>2, <1>4
  <2> DEFINE new == [cut EXCEPT ![j] = i]
  <2>2. /\ new \in Cut /\ new[j] = i
        /\ \A p \in 1 .. m + 1 : p # j => new[p] = cut[p]
    BY <1>1
  <2>3. new[m + 1] = n + 1
    BY <1>1, <2>1, <2>2
  <2>4. ASSUME NEW p \in j .. m
        PROVE  StandsFor(pattern[p], text, new[p], new[p + 1])
    <3>1. /\ p \in 1 .. m + 1 /\ p + 1 \in 1 .. m + 1 /\ p + 1 # j
          /\ p # j => p \in j + 1 .. m
      BY <1>1
    <3>2. new[p + 1] = cut[p + 1]
      BY <2>2, <3>1
    <3> HIDE DEF new
    <3> QED
      BY <1>4, <2>1, <2>2, <3>1, <3>2
  <2> HIDE DEF new, Cut
  <2>5. Fits(new, j)
    BY <2>3, <2>4
  <2> HIDE DEF Fits
  <2> QED
    BY <1>2, <2>2, <2>5
<1> QED
  BY <1>3, <1>4 DEF n

\* The places of the text from which on the pattern, from each place on, stands
\* for the rest of the text.
IsStarts(from, text, pattern) ==
    /\ from[Len(pattern) + 1] = {Len(text) + 1}
    /\ \A j \in 1 .. Len(pattern) :
           from[j] = {i \in 1 .. Len(text) + 1 :
                        \E k \in from[j + 1] :
                           StandsFor(pattern[j], text, i, k)}

\* The recursive function of LIKE satisfies its equation, because cutting the
\* text does.
LEMMA LikeEquation ==
  ASSUME NEW text, NEW pattern, Len(text) \in Nat, Len(pattern) \in Nat
  PROVE  \E from : /\ Like(text, pattern) <=> 1 \in from[1]
                   /\ IsStarts(from, text, pattern)
<1> DEFINE n == Len(text)
           m == Len(pattern)
           Step(f, j) == IF j > m THEN {n + 1}
                         ELSE {i \in 1 .. n + 1 :
                                 \E k \in f[j + 1] :
                                    StandsFor(pattern[j], text, i, k)}
           Start(j) == {i \in 1 .. n + 1 : Cuts(text, pattern, i, j)}
           Starts == [j \in 1 .. m + 1 |-> Start(j)]
           from == CHOOSE f : f = [j \in 1 .. m + 1 |-> Step(f, j)]
<1>1. n \in Nat /\ m \in Nat
  OBVIOUS
<1>2. Like(text, pattern) <=> 1 \in from[1]
  BY DEF Like
<1> HIDE DEF n, m
<1>3. ASSUME NEW j \in 1 .. m + 1
      PROVE  Start(j) = Step(Starts, j)
  <2>1. CASE j > m
    <3>1. j = m + 1
      BY <1>1, <2>1
    <3>2. ASSUME NEW i \in 1 .. n + 1
          PROVE  Cuts(text, pattern, i, j) <=> i = n + 1
      <4> DEFINE all == [p \in 1 .. m + 1 |-> n + 1]
      <4>1. all \in [1 .. m + 1 -> 1 .. n + 1] /\ all[m + 1] = n + 1
        BY <1>1
      <4>2. \A p \in m + 1 .. m : FALSE
        BY <1>1
      <4> HIDE DEF all
      <4> QED
        BY <3>1, <4>1, <4>2 DEF Cuts, n, m
    <3>3. n + 1 \in 1 .. n + 1
      BY <1>1
    <3>4. Start(j) = {n + 1}
      BY <3>2, <3>3
    <3> QED
      BY <2>1, <3>4
  <2>2. CASE ~ (j > m)
    <3>1. j \in 1 .. m /\ j + 1 \in 1 .. m + 1
      BY <1>1, <2>2
    <3>2. Starts[j + 1] = Start(j + 1)
      BY <3>1
    <3>3. ASSUME NEW i \in 1 .. n + 1
          PROVE  Cuts(text, pattern, i, j) <=>
                   \E k \in Start(j + 1) : StandsFor(pattern[j], text, i, k)
      BY <1>1, <3>1, CutsStep DEF n, m
    <3> HIDE DEF Starts
    <3> QED
      BY <2>2, <3>2, <3>3
  <2> QED
    BY <2>1, <2>2
<1>4. Starts = [j \in 1 .. m + 1 |-> Step(Starts, j)]
  <2> HIDE DEF Start, Step
  <2> QED
    BY <1>3
<1>5. from = [j \in 1 .. m + 1 |-> Step(from, j)]
  <2> HIDE DEF Starts, Step
  <2> QED
    BY <1>4
<1>6. \A j \in 1 .. m + 1 : from[j] = Step(from, j)
  <2> HIDE DEF Step, from
  <2> QED
    BY <1>5
<1> HIDE DEF from
<1>7. from[m + 1] = {n + 1}
  <2>1. m + 1 \in 1 .. m + 1 /\ m + 1 > m
    BY <1>1
  <2> QED
    BY <1>6, <2>1
<1>8. ASSUME NEW j \in 1 .. m
      PROVE  from[j] = {i \in 1 .. n + 1 :
                          \E k \in from[j + 1] :
                             StandsFor(pattern[j], text, i, k)}
  <2>1. j \in 1 .. m + 1 /\ ~ (j > m)
    BY <1>1
  <2> QED
    BY <1>6, <2>1
<1> QED
  BY <1>2, <1>7, <1>8 DEF IsStarts, n, m

LEMMA PatternOfPhrase ==
  ASSUME NEW phrase \in Texts
  PROVE  /\ Len(phrase) \in Nat
         /\ Len(Pattern(phrase)) = Len(phrase) + 2
         /\ Pattern(phrase)[1] = "%"
         /\ Pattern(phrase)[Len(phrase) + 2] = "%"
         /\ \A j \in 1 .. Len(phrase) : Pattern(phrase)[j + 1] = phrase[j]
<1> DEFINE C == Characters \cup {"%"}
           any == <<"%">>
           m == Len(phrase)
<1>1. any \in Seq(C) /\ Len(any) = 1 /\ any[1] = "%"
  OBVIOUS
<1>2. phrase \in Seq(C) /\ m \in Nat
  BY SeqMonotonic, LenProperties DEF Texts
<1> HIDE DEF any, C, m
<1>3. /\ any \o phrase \in Seq(C) /\ Len(any \o phrase) = 1 + m
      /\ \A i \in 1 .. 1 + m : (any \o phrase)[i] =
            IF i <= 1 THEN any[i] ELSE phrase[i - 1]
  <2>1. /\ any \o phrase \in Seq(C)
        /\ Len(any \o phrase) = Len(any) + Len(phrase)
        /\ \A i \in 1 .. Len(any) + Len(phrase) : (any \o phrase)[i] =
              IF i <= Len(any) THEN any[i] ELSE phrase[i - Len(any)]
    BY <1>1, <1>2, ConcatProperties
  <2> QED
    BY <1>1, <2>1 DEF m
<1>4. /\ Len((any \o phrase) \o any) = 1 + m + 1
      /\ \A i \in 1 .. 1 + m + 1 : ((any \o phrase) \o any)[i] =
            IF i <= 1 + m THEN (any \o phrase)[i] ELSE any[i - (1 + m)]
  <2> DEFINE front == any \o phrase
  <2>1. front \in Seq(C) /\ Len(front) = 1 + m
    BY <1>3
  <2> HIDE DEF front
  <2>2. /\ Len(front \o any) = Len(front) + Len(any)
        /\ \A i \in 1 .. Len(front) + Len(any) : (front \o any)[i] =
              IF i <= Len(front) THEN front[i] ELSE any[i - Len(front)]
    BY <1>1, <2>1, ConcatProperties
  <2> QED
    BY <1>1, <2>1, <2>2 DEF front
<1>5. Pattern(phrase) = (any \o phrase) \o any
  BY DEF Pattern, any
<1>6. /\ 1 \in 1 .. 1 + m + 1 /\ 1 <= 1 + m /\ 1 \in 1 .. 1 + m
      /\ m + 2 \in 1 .. 1 + m + 1 /\ ~ (m + 2 <= 1 + m)
      /\ (m + 2) - (1 + m) = 1
  BY <1>2
<1>7. Pattern(phrase)[1] = "%" /\ Pattern(phrase)[m + 2] = "%"
  BY <1>1, <1>3, <1>4, <1>5, <1>6
<1>8. ASSUME NEW j \in 1 .. m PROVE Pattern(phrase)[j + 1] = phrase[j]
  <2>1. /\ j + 1 \in 1 .. 1 + m + 1 /\ j + 1 <= 1 + m /\ j + 1 \in 1 .. 1 + m
        /\ ~ (j + 1 <= 1) /\ (j + 1) - 1 = j
    BY <1>2
  <2> QED
    BY <1>3, <1>4, <1>5, <2>1
<1>9. Len(Pattern(phrase)) = m + 2
  BY <1>2, <1>4, <1>5
<1> QED
  BY <1>2, <1>7, <1>8, <1>9 DEF m

\* The pattern of a phrase matches every text that contains the phrase.
LEMMA LikeWhatIncludes ==
  ASSUME NEW text \in Texts, NEW phrase \in Texts, Includes(text, phrase)
  PROVE  Like(text, Pattern(phrase))
<1> DEFINE n == Len(text)
           m == Len(phrase)
           P == Pattern(phrase)
<1>1. /\ n \in Nat /\ m \in Nat /\ Len(P) = m + 2
      /\ P[1] = "%" /\ P[m + 2] = "%"
      /\ \A j \in 1 .. m : P[j + 1] = phrase[j]
  BY PatternOfPhrase, LenProperties DEF Texts
<1>2. PICK k \in 0 .. n - m :
         \A i \in 1 .. m : SameCharacter(text[k + i], phrase[i])
  BY LenProperties DEF Includes, SameCharacter, Texts
<1> HIDE DEF n, m, P
<1>3. Len(text) \in Nat /\ Len(P) \in Nat
  BY <1>1 DEF n
<1>4. PICK from : /\ Like(text, P) <=> 1 \in from[1]
                  /\ IsStarts(from, text, P)
  BY <1>3, LikeEquation
<1>5. /\ from[Len(P) + 1] = {n + 1}
      /\ \A j \in 1 .. Len(P) :
            from[j] = {i \in 1 .. n + 1 :
                         \E b \in from[j + 1] : StandsFor(P[j], text, i, b)}
  BY <1>4 DEF IsStarts, n
<1>6. ASSUME NEW i \in 1 .. n + 1 PROVE i \in from[m + 2]
  <2>1. /\ m + 2 \in 1 .. Len(P) /\ (m + 2) + 1 = Len(P) + 1
        /\ n + 1 \in from[Len(P) + 1]
    BY <1>1, <1>5
  <2>2. StandsFor(P[m + 2], text, i, n + 1)
    BY <1>1 DEF StandsFor
  <2> QED
    BY <1>5, <2>1, <2>2
<1> DEFINE S == {j \in 1 .. m + 1 : k + j \in from[j + 1]}
<1>7. \A j \in 1 .. m + 1 : j \in S
  <2>1. m + 1 \in S
    <3>1. /\ k + (m + 1) \in 1 .. n + 1 /\ (m + 1) + 1 = m + 2
          /\ m + 1 \in 1 .. m + 1
      BY <1>1, <1>2
    <3> QED
      BY <1>6, <3>1
  <2>2. ASSUME NEW j \in 1 .. m + 1, j < m + 1, j + 1 \in S
        PROVE  j \in S
    <3>1. /\ j \in 1 .. m /\ j + 1 \in 1 .. Len(P)
          /\ k + j \in 1 .. n + 1 /\ k + (j + 1) = (k + j) + 1
      BY <1>1, <1>2, <2>2
    <3>2. k + (j + 1) \in from[(j + 1) + 1]
      BY <2>2
    <3>3. StandsFor(P[j + 1], text, k + j, k + (j + 1))
      <4>1. P[j + 1] = phrase[j] /\ SameCharacter(text[k + j], phrase[j])
        BY <1>1, <1>2, <3>1
      <4> QED
        BY <3>1, <4>1 DEF StandsFor
    <3>4. k + j \in from[j + 1]
      BY <1>5, <3>1, <3>2, <3>3
    <3> QED
      BY <3>4
  <2>3. m + 1 \in Nat
    BY <1>1
  <2> HIDE DEF S
  <2> QED
    BY <2>1, <2>2, <2>3, Downwards
<1>8. k + 1 \in from[1 + 1]
  <2>1. 1 \in 1 .. m + 1
    BY <1>1
  <2> QED
    BY <1>7, <2>1
<1>9. StandsFor(P[1], text, 1, k + 1)
  BY <1>1, <1>2 DEF StandsFor
<1>10. 1 \in from[1]
  <2>1. 1 \in 1 .. Len(P) /\ 1 \in 1 .. n + 1
    BY <1>1
  <2> QED
    BY <1>5, <1>8, <1>9, <2>1
<1> QED
  BY <1>4, <1>10 DEF P

Literal(phrase) == ToSet(phrase) \cap {"%", "_"} = {}

\* A phrase without a % or a _ matches only what contains it.
LEMMA IncludesWhatIsLike ==
  ASSUME NEW text \in Texts, NEW phrase \in Texts,
         Literal(phrase),
         Like(text, Pattern(phrase))
  PROVE  Includes(text, phrase)
<1> DEFINE n == Len(text)
           m == Len(phrase)
           P == Pattern(phrase)
<1>1. /\ n \in Nat /\ m \in Nat /\ Len(P) = m + 2
      /\ \A j \in 1 .. m : P[j + 1] = phrase[j]
  BY PatternOfPhrase, LenProperties DEF Texts
<1> HIDE DEF P
<1>2. Len(text) \in Nat /\ Len(P) \in Nat
  BY <1>1
<1>3. PICK from : /\ Like(text, P) <=> 1 \in from[1]
                  /\ IsStarts(from, text, P)
  BY <1>2, LikeEquation
<1>4. \A j \in 1 .. Len(P) :
         from[j] = {i \in 1 .. n + 1 :
                      \E b \in from[j + 1] : StandsFor(P[j], text, i, b)}
  BY <1>3 DEF IsStarts
<1>5. \A i \in 1 .. m : phrase[i] # "%" /\ phrase[i] # "_"
  BY LenProperties DEF Literal, ToSet, Texts
<1>6. 1 \in from[1]
  BY <1>3 DEF P
<1> HIDE DEF n, m
<1>7. \A j \in 1 .. m + 2 : \A i \in from[j] : i \in 1 .. n + 1
  BY <1>1, <1>4
<1>8. PICK first \in from[1 + 1] : TRUE
  <2>1. 1 \in 1 .. Len(P)
    BY <1>1
  <2> QED
    BY <1>4, <1>6, <2>1
<1>9. PICK k \in Nat : first = k + 1
  <2>1. 1 + 1 \in 1 .. m + 2
    BY <1>1
  <2>2. first \in 1 .. n + 1
    BY <1>7, <1>8, <2>1
  <2>3. first - 1 \in Nat /\ first = (first - 1) + 1
    BY <1>1, <2>2
  <2> QED
    BY <2>3
<1> DEFINE S == {j \in 1 .. m + 1 :
                   /\ k + j \in from[j + 1]
                   /\ \A i \in 1 .. j - 1 :
                         SameCharacter(text[k + i], phrase[i])}
<1>10. \A j \in 1 .. m + 1 : j \in S
  <2>1. 1 \in S
    <3>1. 1 \in 1 .. m + 1 /\ \A i \in 1 .. 1 - 1 : FALSE
      BY <1>1
    <3> QED
      BY <1>8, <1>9, <3>1
  <2>2. ASSUME NEW j \in 1 .. m + 1, j < m + 1, j \in S
        PROVE  j + 1 \in S
    <3>1. /\ j \in 1 .. m /\ j + 1 \in 1 .. Len(P) /\ j + 1 \in 1 .. m + 1
          /\ k + (j + 1) = (k + j) + 1
          /\ \A i \in 1 .. (j + 1) - 1 : i \in 1 .. j - 1 \/ i = j
      BY <1>1, <1>9, <2>2
    <3>2. k + j \in from[j + 1]
      BY <2>2
    <3>3. PICK b \in from[(j + 1) + 1] : StandsFor(P[j + 1], text, k + j, b)
      BY <1>4, <3>1, <3>2
    <3>4. b = (k + j) + 1 /\ SameCharacter(text[k + j], phrase[j])
      <4>1. P[j + 1] # "%" /\ P[j + 1] # "_" /\ P[j + 1] = phrase[j]
        BY <1>1, <1>5, <3>1
      <4> QED
        BY <3>3, <4>1 DEF StandsFor
    <3>5. k + (j + 1) \in from[(j + 1) + 1]
      BY <3>1, <3>3, <3>4
    <3>6. \A i \in 1 .. (j + 1) - 1 : SameCharacter(text[k + i], phrase[i])
      BY <2>2, <3>1, <3>4
    <3> QED
      BY <3>1, <3>5, <3>6
  <2>3. m + 1 \in Nat
    BY <1>1
  <2> HIDE DEF S
  <2> QED
    BY <2>1, <2>2, <2>3, Upwards
<1>11. /\ k + (m + 1) \in 1 .. n + 1
       /\ \A i \in 1 .. m : SameCharacter(text[k + i], phrase[i])
  <2>1. m + 1 \in 1 .. m + 1 /\ (m + 1) + 1 \in 1 .. m + 2 /\ (m + 1) - 1 = m
    BY <1>1
  <2>2. m + 1 \in S
    BY <1>10, <2>1
  <2> QED
    BY <1>7, <2>1, <2>2
<1>12. k \in 0 .. n - m
  BY <1>1, <1>9, <1>11
<1> QED
  BY <1>11, <1>12, LenProperties DEF Includes, SameCharacter, Texts, n, m

-----------------------------------------------------------------------------
(* Which pages are served.                                                 *)

BrowsePage(directory, size) ==
    [route |-> "browse", directory |-> directory, size |-> size,
     shown |-> FirstOf(PlacesByTypeAndName(
                           {p \in rows : Parent(p) = directory}), size)]

SearchPage(phrase, type, size) ==
    [route |-> "search", phrase |-> phrase, type |-> type, size |-> size,
     shown |-> FirstOf(PlacesByPath(Found(phrase, type)), size)]

PageOfRows ==
    \/ page = NoPage
    \/ \E directory : \E size \in PageSizes :
           page = BrowsePage(directory, size)
    \/ \E phrase \in Phrases, type \in {"", "file", "directory"},
          size \in PageSizes : page = SearchPage(phrase, type, size)

LEMMA PageOfRowsStep == PageOfRows /\ [Next]_vars => PageOfRows'
<1> SUFFICES ASSUME PageOfRows, [Next]_vars PROVE PageOfRows'
  OBVIOUS
<1>1. ASSUME page' = NoPage PROVE PageOfRows'
  BY <1>1 DEF PageOfRows
<1>2. ASSUME UNCHANGED catalog
      PROVE  /\ \A directory, size :
                   BrowsePage(directory, size)' = BrowsePage(directory, size)
             /\ \A phrase, type, size :
                   SearchPage(phrase, type, size)'
                     = SearchPage(phrase, type, size)
  <2>1. /\ rows' = rows
        /\ \A path : Type(path)' = Type(path)
    BY <1>2 DEF rows, Type
  <2>2. \A paths : PlacesByTypeAndName(paths)' = PlacesByTypeAndName(paths)
    <3>1. \A path : TypeRank(path)' = TypeRank(path)
      BY <2>1 DEF TypeRank
    <3>2. \A p, q : ListedBefore(p, q)' <=> ListedBefore(p, q)
      BY <3>1 DEF ListedBefore
    <3> QED
      BY <3>2 DEF PlacesByTypeAndName
  <2>3. \A phrase, type : Found(phrase, type)' = Found(phrase, type)
    BY <2>1 DEF Found
  <2> QED
    BY <2>1, <2>2, <2>3 DEF BrowsePage, SearchPage
<1>3. ASSUME NEW directory, NEW size \in PageSizes,
             Browse(directory, size)
      PROVE  PageOfRows'
  <2>1. page' = BrowsePage(directory, size) /\ UNCHANGED catalog
    BY <1>3 DEF Browse, BrowsePage
  <2> QED
    BY <1>2, <2>1 DEF PageOfRows
<1>4. ASSUME NEW phrase \in Phrases, NEW type \in {"", "file", "directory"},
             NEW size \in PageSizes, Search(phrase, type, size)
      PROVE  PageOfRows'
  <2>1. page' = SearchPage(phrase, type, size) /\ UNCHANGED catalog
    BY <1>4 DEF Search, SearchPage
  <2> QED
    BY <1>2, <2>1 DEF PageOfRows
<1>5. CASE UNCHANGED vars
  BY <1>2, <1>5 DEF PageOfRows, vars
<1> QED
  BY <1>1, <1>3, <1>4, <1>5 DEF Next, Record, Clear

\* A page is what its query selects from the rows there are: no write leaves a
\* page from before it.
LEMMA PagesAreCutFromRows == Spec => [](RowsOfCrawls /\ PageOfRows)
<1>1. Init => PageOfRows
  BY DEF Init, PageOfRows
<1> QED
  BY <1>1, PageOfRowsStep, RowsComeFromCrawls, PTL DEF Spec

-----------------------------------------------------------------------------
(* The search.                                                             *)

\* What the name of an entry contains, its path contains.
LEMMA NameIsInText ==
  ASSUME NEW p, Spelled(p)
  PROVE  /\ Text(p) \in Texts /\ Name(p) \in Texts
         /\ \A phrase \in Texts :
               Includes(Name(p), phrase) => Includes(Text(p), phrase)
<1>1. Text(p) \in Texts
  <2>1. Text(<<>>) = <<"/">> /\ <<"/">> \in Texts
    BY PagesAssumption, OneCharacter DEF Text
  <2> QED
    BY <2>1, TextOfPath
<1>2. CASE p = <<>> \/ EndsInSlash(p)
  <2>1. Name(p) = Text(p)
    BY <1>2 DEF Name, EndsInSlash
  <2> QED
    BY <1>1, <2>1
<1>3. CASE ~ (p = <<>> \/ EndsInSlash(p))
  <2> DEFINE c == Last(p)
             n == Len(p)
  <2>1. Name(p) = <<c>>
    BY <1>3 DEF Name, EndsInSlash
  <2>2. /\ n \in Nat /\ n > 0 /\ Len(Text(p)) = 2 * n
        /\ Text(p)[2 * n] = c
    <3>1. /\ Len(p) \in Nat /\ Len(p) > 0 /\ Shorter(p) = 0
          /\ Len(Text(p)) = 2 * Len(p) - Shorter(p)
          /\ \A i \in Nat : i > 0 /\ 2 * i <= Len(Text(p)) =>
                Text(p)[2 * i] = p[i]
      BY <1>3, TextOfPath DEF Shorter
    <3>2. Len(Text(p)) = 2 * Len(p)
      BY <3>1
    <3> QED
      BY <3>1, <3>2 DEF Last
  <2>3. c \in Characters
    <3>1. 2 * n \in 1 .. Len(Text(p))
      BY <2>2
    <3> QED
      BY <1>1, <2>2, <3>1, ElementOfSeq DEF Texts
  <2> HIDE DEF c, n
  <2>4. <<c>> \in Texts /\ Len(<<c>>) = 1 /\ <<c>>[1] = c
    BY <2>3, OneCharacter
  <2>5. ASSUME NEW phrase \in Texts, Includes(<<c>>, phrase)
        PROVE  Includes(Text(p), phrase)
    <3> DEFINE m == Len(phrase)
    <3>1. m \in Nat /\ DOMAIN phrase = 1 .. m
      BY LenProperties DEF Texts
    <3> HIDE DEF m
    <3>2. PICK k \in 0 .. 1 - m :
             \A i \in 1 .. m : Lower[<<c>>[k + i]] = Lower[phrase[i]]
      BY <2>4, <2>5, <3>1 DEF Includes, m
    <3>3. CASE m = 0
      <4>1. 0 \in 0 .. Len(Text(p)) - m /\ \A i \in 1 .. m : FALSE
        BY <2>2, <3>3
      <4> QED
        BY <3>1, <4>1 DEF Includes, m
    <3>4. CASE m = 1
      <4>1. 2 * n - 1 \in 0 .. Len(Text(p)) - m /\ (2 * n - 1) + 1 = 2 * n
        BY <2>2, <3>4
      <4>2. k = 0 /\ 1 \in 1 .. m /\ \A i \in 1 .. m : i = 1
        BY <3>2, <3>4
      <4>3. Lower[<<c>>[0 + 1]] = Lower[phrase[1]]
        BY <3>2, <4>2
      <4>4. Lower[Text(p)[2 * n]] = Lower[phrase[1]]
        BY <2>2, <2>4, <4>3
      <4>5. \A i \in 1 .. m :
               Lower[Text(p)[(2 * n - 1) + i]] = Lower[phrase[i]]
        BY <4>1, <4>2, <4>4
      <4> QED
        BY <3>1, <4>1, <4>5 DEF Includes, m
    <3> QED
      BY <3>1, <3>2, <3>3, <3>4
  <2> QED
    BY <1>1, <2>1, <2>4, <2>5
<1> QED
  BY <1>2, <1>3

\* The rows found have their places in the order of their paths.
LEMMA PlacesByPathOrder ==
  ASSUME NEW S, IsFiniteSet(S), \A p \in S : Spelled(p)
  PROVE  /\ PlacesByPath(S) \in Bijection(S, 0 .. Cardinality(S) - 1)
         /\ \A p, q \in S : PlacesByPath(S)[p] < PlacesByPath(S)[q] <=>
                              Precedes(Text(p), Text(q))
<1> DEFINE R == {pair \in S \X S : Precedes(Text(pair[1]), Text(pair[2]))}
           place == PlacesByPath(S)
<1>1. \A p, q \in S : <<p, q>> \in R <=> Precedes(Text(p), Text(q))
  OBVIOUS
<1>2. \A p \in S : Text(p) \in Texts
  BY NameIsInText
<1>3. \A p \in S : <<p, p>> \notin R
  BY <1>1, <1>2, PrecedesIsStrict
<1>4. \A p, q, r \in S : <<p, q>> \in R /\ <<q, r>> \in R => <<p, r>> \in R
  <2> HIDE DEF R
  <2> QED
    BY <1>1, <1>2, PrecedesIsTransitive
<1>5. \A p, q \in S : p = q \/ <<p, q>> \in R \/ <<q, p>> \in R
  <2> SUFFICES ASSUME NEW p \in S, NEW q \in S, p # q
               PROVE  <<p, q>> \in R \/ <<q, p>> \in R
    OBVIOUS
  <2>1. Text(p) # Text(q)
    BY TextIsInjective
  <2> HIDE DEF R
  <2> QED
    BY <1>1, <1>2, <2>1, PrecedesIsTotal
<1>6. place = [p \in S |-> Cardinality({q \in S : <<q, p>> \in R})]
  <2>1. ASSUME NEW p \in S
        PROVE  {q \in S : Precedes(Text(q), Text(p))} =
                   {q \in S : <<q, p>> \in R}
    BY <1>1
  <2> HIDE DEF R
  <2> QED
    BY <2>1 DEF PlacesByPath
<1> HIDE DEF R, place
<1>7. /\ place \in Bijection(S, 0 .. Cardinality(S) - 1)
      /\ \A p, q \in S : place[p] < place[q] <=> <<p, q>> \in R
  BY <1>3, <1>4, <1>5, <1>6, PlacesAreABijection
<1> QED
  BY <1>1, <1>7 DEF place

\* What SearchShowsWhatContains says of the rows of one page.
ShowsWhatContains(shown, phrase, type, size) ==
    /\ \A path \in rows :
           /\ Includes(Text(path), phrase)
           /\ type \in {"", Type(path)}
           => \/ path \in ToSet(shown)
              \/ /\ Len(shown) = size
                 /\ \A q \in ToSet(shown) : Precedes(Text(q), Text(path))
    /\ Literal(phrase) =>
           \A path \in ToSet(shown) : Includes(Text(path), phrase)

LEMMA FoundOnPage ==
  ASSUME RowsOfCrawls,
         NEW phrase \in Texts, NEW type, NEW size \in Int,
         NEW shown, shown = FirstOf(PlacesByPath(Found(phrase, type)), size)
  PROVE  ShowsWhatContains(shown, phrase, type, size)
<1> DEFINE S == Found(phrase, type)
           place == PlacesByPath(S)
<1>1. /\ IsFiniteSet(S) /\ S \subseteq rows
      /\ \A p \in rows : Spelled(p) /\ Text(p) \in Texts /\ Name(p) \in Texts
  <2>1. S \in SUBSET rows
    BY DEF Found
  <2>2. IsFiniteSet(rows) /\ \A p \in rows : Spelled(p)
    BY RowsAreFinite, RowsAreSpelled
  <2>3. IsFiniteSet(S)
    <3> HIDE DEF S
    <3> QED
      BY <2>1, <2>2, FS_Subset
  <2> QED
    BY <2>1, <2>2, <2>3, NameIsInText
<1>2. \A p \in rows : p \in S <=>
         /\ type \in {"", Type(p)}
         /\ \/ phrase = <<>>
            \/ Like(Text(p), Pattern(phrase))
            \/ Like(Name(p), Pattern(phrase))
  BY DEF Found
<1>3. shown = FirstOf(place, size)
  OBVIOUS
<1> HIDE DEF S
<1>4. /\ place \in Bijection(S, 0 .. Cardinality(S) - 1)
      /\ \A p, q \in S :
            place[p] < place[q] <=> Precedes(Text(p), Text(q))
  BY <1>1, PlacesByPathOrder
<1> HIDE DEF place
<1>5. /\ Len(shown) \in Nat
      /\ ToSet(shown) \subseteq S
      /\ \A p \in S : p \in ToSet(shown) <=> place[p] < Len(shown)
      /\ Len(shown) # size => ToSet(shown) = S
  <2>1. IsCut(shown, S, place, size)
    BY <1>1, <1>3, <1>4, FirstOfPlaces
  <2> QED
    BY <2>1 DEF IsCut
<1>6. \A p \in S : place[p] \in Int
  <2>1. place \in [S -> 0 .. Cardinality(S) - 1]
    BY <1>4 DEF Bijection, Injection
  <2> QED
    BY <2>1
<1>7. ASSUME NEW path \in rows, Includes(Text(path), phrase),
             type \in {"", Type(path)}, path \notin ToSet(shown)
      PROVE  /\ Len(shown) = size
             /\ \A q \in ToSet(shown) : Precedes(Text(q), Text(path))
  <2>1. path \in S
    BY <1>1, <1>2, <1>7, LikeWhatIncludes
  <2>2. Len(shown) = size
    BY <1>5, <1>7, <2>1
  <2>3. ASSUME NEW q \in ToSet(shown) PROVE Precedes(Text(q), Text(path))
    <3>1. q \in S /\ place[q] < Len(shown) /\ ~ (place[path] < Len(shown))
      BY <1>5, <1>7, <2>1
    <3>2. place[q] \in Int /\ place[path] \in Int /\ Len(shown) \in Int
      BY <1>5, <1>6, <2>1, <3>1
    <3>3. place[q] < place[path]
      BY <3>1, <3>2
    <3> QED
      BY <1>4, <2>1, <3>1, <3>3
  <2> QED
    BY <2>2, <2>3
<1>8. ASSUME Literal(phrase), NEW path \in ToSet(shown)
      PROVE  Includes(Text(path), phrase)
  <2>1. path \in S /\ path \in rows
    BY <1>1, <1>5
  <2>2. CASE phrase = <<>>
    <3>1. Len(Text(path)) \in Nat
      BY <1>1, <2>1, LenProperties DEF Texts
    <3>2. Len(phrase) = 0 /\ \A i \in DOMAIN phrase : FALSE
      BY <2>2
    <3>3. 0 \in 0 .. Len(Text(path)) - Len(phrase)
      BY <3>1, <3>2
    <3> QED
      BY <3>2, <3>3 DEF Includes
  <2>3. CASE Like(Text(path), Pattern(phrase))
    BY <1>1, <1>8, <2>1, <2>3, IncludesWhatIsLike
  <2>4. CASE Like(Name(path), Pattern(phrase))
    BY <1>1, <1>8, <2>1, <2>4, IncludesWhatIsLike, NameIsInText
  <2> QED
    BY <1>2, <2>1, <2>2, <2>3, <2>4
<1> QED
  BY <1>7, <1>8 DEF ShowsWhatContains

\* A search shows what contains the phrase, whatever its case; only a phrase
\* with a % or a _ also shows other entries; and a full page leaves out the
\* entries whose paths come last (searchEntries).
THEOREM SearchIsComplete == Spec => []SearchShowsWhatContains
<1>1. ASSUME RowsOfCrawls, PageOfRows PROVE SearchShowsWhatContains
  <2> SUFFICES ASSUME page.route = "search" PROVE SearchShowsWhatContains
    BY DEF SearchShowsWhatContains
  <2>1. PICK phrase \in Phrases, type \in {"", "file", "directory"},
             size \in PageSizes : page = SearchPage(phrase, type, size)
    <3>1. NoPage.route # "search"
      BY DEF NoPage
    <3>2. \A directory, size : BrowsePage(directory, size).route # "search"
      BY DEF BrowsePage
    <3> QED
      BY <1>1, <3>1, <3>2 DEF PageOfRows
  <2>2. /\ page.phrase = phrase /\ page.type = type /\ page.size = size
        /\ page.shown = FirstOf(PlacesByPath(Found(phrase, type)), size)
    BY <2>1 DEF SearchPage
  <2>3. phrase \in Texts /\ size \in Int
    BY PagesAssumption DEF Texts
  <2>4. ShowsWhatContains(page.shown, phrase, type, size)
    <3> DEFINE shown == page.shown
    <3>1. shown = FirstOf(PlacesByPath(Found(phrase, type)), size)
      BY <2>2
    <3> HIDE DEF shown
    <3>2. ShowsWhatContains(shown, phrase, type, size)
      BY <1>1, <2>3, <3>1, FoundOnPage
    <3> QED
      BY <3>2 DEF shown
  <2> QED
    BY <2>2, <2>4
    DEF SearchShowsWhatContains, ShowsWhatContains, Shown, PageIsFull, Literal
<1> QED
  BY <1>1, PagesAreCutFromRows, PTL

-----------------------------------------------------------------------------
(* The parent and the name of a row.                                       *)

LEMMA FrontAndLast ==
  ASSUME NEW C, NEW s \in Seq(C), s # <<>>
  PROVE  /\ Front(s) \in Seq(C) /\ Last(s) \in C
         /\ Len(s) \in Nat /\ Len(s) > 0 /\ Len(Front(s)) = Len(s) - 1
         /\ s = Front(s) \o <<Last(s)>>
<1> DEFINE n == Len(s)
<1>1. n \in Nat /\ n > 0
  <2>1. n # 0
    BY EmptySeq
  <2> QED
    BY <2>1, LenProperties
<1>2. Last(s) \in C
  BY <1>1, ElementOfSeq DEF Last
<1>3. \A i \in 1 .. n - 1 : s[i] \in C
  <2>1. \A i \in 1 .. n : s[i] \in C
    BY ElementOfSeq
  <2> HIDE DEF n
  <2> QED
    BY <1>1, <2>1
<1>4. Front(s) \in Seq(C) /\ Len(Front(s)) = n - 1
  <2> HIDE DEF n
  <2>1. /\ SubSeq(s, 1, n - 1) \in Seq(C)
        /\ Len(SubSeq(s, 1, n - 1)) = IF 1 <= n - 1 THEN (n - 1) - 1 + 1 ELSE 0
    BY <1>1, <1>3, SubSeqProperties
  <2>2. Len(SubSeq(s, 1, n - 1)) = n - 1
    BY <1>1, <2>1
  <2> QED
    BY <2>1, <2>2 DEF Front, n
<1>5. s = Front(s) \o <<Last(s)>>
  <2>1. s = SubSeq(s, 1, n)
    BY SubSeqFull
  <2>2. SubSeq(s, 1, n) = SubSeq(s, 1, n - 1) \o <<s[n]>>
    <3>1. 1 \in 1 .. n /\ n \in 1 .. n
      BY <1>1
    <3> HIDE DEF n
    <3> QED
      BY <3>1, SubSeqRecursiveSecond DEF n
  <2> QED
    BY <2>1, <2>2 DEF Front, Last
<1> QED
  BY <1>1, <1>2, <1>4, <1>5

LEMMA FrontOfLonger ==
  ASSUME NEW C, NEW s \in Seq(C), NEW x \in C
  PROVE  /\ s \o <<x>> \in Seq(C) /\ s \o <<x>> # <<>> /\ s \o <<x>> # s
         /\ Len(s \o <<x>>) = Len(s) + 1
         /\ Front(s \o <<x>>) = s /\ Last(s \o <<x>>) = x
<1> DEFINE t == s \o <<x>>
<1>1. <<x>> \in Seq(C) /\ Len(<<x>>) = 1 /\ <<x>>[1] = x /\ Len(s) \in Nat
  BY LenProperties
<1>2. /\ t \in Seq(C) /\ Len(t) = Len(s) + 1 /\ t[Len(s) + 1] = x
  <2>1. /\ t \in Seq(C) /\ Len(t) = Len(s) + Len(<<x>>)
        /\ \A i \in 1 .. Len(s) + Len(<<x>>) :
              t[i] = IF i <= Len(s) THEN s[i] ELSE <<x>>[i - Len(s)]
    BY <1>1, ConcatProperties
  <2>2. /\ Len(s) + 1 \in 1 .. Len(s) + 1 /\ ~ (Len(s) + 1 <= Len(s))
        /\ (Len(s) + 1) - Len(s) = 1
    BY <1>1
  <2> HIDE DEF t
  <2> QED
    BY <1>1, <2>1, <2>2
<1> HIDE DEF t
<1>3. t # <<>> /\ t # s
  BY <1>1, <1>2, EmptySeq
<1>4. Last(t) = x
  BY <1>2 DEF Last
<1>5. Front(t) = s
  <2>1. /\ Front(t) \in Seq(C) /\ t = Front(t) \o <<Last(t)>>
    BY <1>2, <1>3, FrontAndLast
  <2>2. Front(t) \o <<x>> = s \o <<x>>
    BY <1>4, <2>1 DEF t
  <2> QED
    BY <1>1, <2>1, <2>2, ConcatSimplifications
<1> QED
  BY <1>2, <1>3, <1>4, <1>5 DEF t

\* A path that ends in a name leads to that name in what its parent leads to.
LEMMA DenotesName ==
  ASSUME NEW p \in Seq(Components), EndsInName(p)
  PROVE  /\ Last(p) \in Named
         /\ Denotes(Front(p)) \in Seq(Named)
         /\ Denotes(p) = Denotes(Front(p)) \o <<Last(p)>>
<1>1. /\ p # <<>> /\ Front(p) \in Seq(Components) /\ Last(p) \in Components
      /\ p = Front(p) \o <<Last(p)>>
  BY FrontAndLast DEF EndsInName
<1>2. Last(p) \in Named
  BY <1>1 DEF EndsInName, Named, Components
<1>3. <<Last(p)>> \in Seq(Named)
  BY <1>2
<1>4. Denotes(Front(p) \o <<Last(p)>>) = Denotes(Front(p)) \o <<Last(p)>>
  BY <1>1, <1>3, DenotesAppends
<1> QED
  BY <1>1, <1>2, <1>4, DenotesCounts

LEMMA LongerIsWithin ==
  ASSUME NEW root \in Roots, NEW u \in Seq(Named), u # <<>>,
         Denotes(root) \o u \in Tree
  PROVE  /\ Denotes(root) \o u \in Within(root)
         /\ Rest(root, Denotes(root) \o u) = u
<1> DEFINE d == Denotes(root)
           path == d \o u
           n == Len(d)
<1>1. d \in Seq(Named) /\ n \in Nat /\ Len(u) \in Nat /\ Len(u) > 0
  <2>1. Len(u) # 0
    BY EmptySeq
  <2> QED
    BY <2>1, PathsAreSequences, LenProperties
<1>2. /\ path \in Seq(Named) /\ Len(path) = n + Len(u)
      /\ \A i \in 1 .. n : path[i] = d[i]
  <2>1. /\ path \in Seq(Named) /\ Len(path) = Len(d) + Len(u)
        /\ \A i \in 1 .. Len(d) + Len(u) :
              path[i] = IF i <= Len(d) THEN d[i] ELSE u[i - Len(d)]
    BY <1>1, ConcatProperties
  <2> HIDE DEF path, d
  <2> QED
    BY <1>1, <2>1
<1> HIDE DEF path, d
<1>3. path # d /\ n <= Len(path)
  BY <1>1, <1>2
<1>4. SubSeq(d, 1, n) = SubSeq(path, 1, n)
  <2>1. \A i \in 1 .. n : d[i] \in Named /\ path[i] \in Named
    BY <1>1, <1>2, ElementOfSeq
  <2>2. SubSeq(d, 1, n) = d
    BY <1>1, SubSeqFull
  <2> HIDE DEF n
  <2>3. /\ SubSeq(path, 1, n) \in Seq(Named)
        /\ Len(SubSeq(path, 1, n)) = IF 1 <= n THEN n - 1 + 1 ELSE 0
        /\ \A i \in 1 .. n - 1 + 1 : SubSeq(path, 1, n)[i] = path[1 + i - 1]
    BY <1>1, <2>1, SubSeqProperties
  <2>4. /\ Len(SubSeq(path, 1, n)) = n
        /\ \A i \in 1 .. n : SubSeq(path, 1, n)[i] = d[i]
    <3>1. n - 1 + 1 = n /\ \A i \in 1 .. n : 1 + i - 1 = i
      BY <1>1
    <3> QED
      BY <1>1, <1>2, <2>3, <3>1
  <2>5. SubSeq(path, 1, n) = d
    BY <1>1, <2>3, <2>4, SeqEqual DEF n
  <2> QED
    BY <2>2, <2>5
<1>5. path \in Within(root)
  BY <1>3, <1>4 DEF Within, IsPrefix, path, d
<1>6. Rest(root, path) = u
  <2>1. Rest(root, path) \in Seq(Named) /\ d \o Rest(root, path) = d \o u
    BY <1>5, RestOfPath DEF path, d
  <2> QED
    BY <1>1, <2>1, ConcatSimplifications
<1> QED
  BY <1>5, <1>6 DEF path, d

\* What is below a root is a name in what is below the root or the root itself,
\* spelled the same way.
LEMMA ParentBelow ==
  ASSUME NEW root \in Roots, NEW p \in Below(root)
  PROVE  /\ EndsInName(p) /\ p # root
         /\ Parent(p) \in Below(root) \cup {Stem(root)}
<1>1. PICK path \in Within(root) : p = EntryPath(root, path)
  BY BelowIsWithin
<1>2. /\ Stem(root) \in Seq(Components) /\ Denotes(root) \in Seq(Named)
      /\ Rest(root, path) \in Seq(Named) /\ Rest(root, path) # <<>>
      /\ path = Denotes(root) \o Rest(root, path)
      /\ path \in Tree /\ path # Denotes(root) /\ Denotes(p) = path
  BY <1>1, StemDenotes, RestOfPath, EmptySeq, EntryDenotes, PathsAreSequences
     DEF Within
<1> DEFINE x == Last(Rest(root, path))
           front == Front(Rest(root, path))
           base == Stem(root) \o front
<1>3. /\ x \in Named /\ front \in Seq(Named)
      /\ Rest(root, path) = front \o <<x>>
  BY <1>2, FrontAndLast
<1> HIDE DEF x, front
<1>4. /\ x \in Components /\ front \in Seq(Components)
      /\ <<x>> \in Seq(Components) /\ <<x>> \in Seq(Named)
  <2>1. x \in Components /\ front \in Seq(Components)
    BY <1>3, NamedComponents, SeqMonotonic
  <2> QED
    BY <1>3, <2>1
<1>5. base \in Seq(Components) /\ p = base \o <<x>>
  <2>1. base \in Seq(Components)
    BY <1>2, <1>4, ConcatProperties
  <2>2. p = Stem(root) \o (front \o <<x>>)
    BY <1>1, <1>3, BelowIsWithin
  <2> QED
    BY <1>2, <1>4, <2>1, <2>2, ConcatAssociative
<1>6. base \in Below(root) \cup {Stem(root)}
  <2>1. CASE front = <<>>
    BY <1>2, <2>1, ConcatEmptySeq
  <2>2. CASE front # <<>>
    <3> DEFINE u == Denotes(root) \o front
    <3>1. u \in Seq(Named) /\ path = u \o <<x>>
      <4>1. u \in Seq(Named)
        BY <1>2, <1>3, ConcatProperties
      <4>2. path = Denotes(root) \o (front \o <<x>>)
        BY <1>2, <1>3
      <4> QED
        BY <1>2, <1>3, <1>4, <4>1, <4>2, ConcatAssociative
    <3> HIDE DEF u
    <3>2. path # <<>> /\ Front(path) = u
      BY <1>3, <3>1, FrontOfLonger
    <3>3. Denotes(root) \o front \in Tree
      <4>1. \A q \in Tree : q # <<>> => Front(q) \in Tree
        BY PagesAssumption
      <4> QED
        BY <1>2, <3>2, <4>1 DEF u
    <3>4. /\ Denotes(root) \o front \in Within(root)
          /\ Rest(root, Denotes(root) \o front) = front
      BY <1>3, <2>2, <3>3, LongerIsWithin
    <3> QED
      BY <3>4, BelowIsWithin
  <2> QED
    BY <2>1, <2>2
<1> HIDE DEF base
<1>7. p # <<>> /\ Last(p) = x /\ Front(p) = base
  BY <1>4, <1>5, FrontOfLonger
<1>8. EndsInName(p)
  BY <1>3, <1>7, PagesAssumption DEF EndsInName, Named
<1> QED
  BY <1>2, <1>6, <1>7, <1>8 DEF Parent

\* Only the root of a crawl may end otherwise.
LEMMA OtherRowsAreRoots ==
  ASSUME RowsOfCrawls, NEW p \in rows, ~ EndsInName(p)
  PROVE  p = Root(p) /\ Denotes(Parent(p)) = Denotes(p)
<1>1. Root(p) \in Roots /\ p \in Below(Root(p)) \cup {Root(p)}
  BY DEF RowsOfCrawls
<1>2. p = Root(p)
  BY <1>1, ParentBelow
<1>3. p \in Seq(Components)
  BY <1>1, <1>2, PathsAreSequences
<1> QED
  BY <1>2, <1>3, DenotesFront DEF Parent

\* Two rows in the same directory have different names.
LEMMA NamesDiffer ==
  ASSUME NEW p, NEW q, Spelled(p), Spelled(q),
         Parent(p) = Parent(q), Name(p) = Name(q)
  PROVE  p = q
<1>1. ASSUME NEW r, Spelled(r), ~ EndsInSlash(r), r # <<>>
      PROVE  /\ Name(r) = <<Last(r)>> /\ Len(Name(r)) = 1
             /\ Name(r)[1] = Last(r) /\ Last(r) \in Components
  BY <1>1, FrontAndLast DEF Name, EndsInSlash, Spelled
<1>2. ASSUME NEW r, Spelled(r), EndsInSlash(r)
      PROVE  Name(r) = Text(r) /\ Len(Name(r)) > 1
  <2>1. /\ Name(r) = Text(r) /\ r # <<>> /\ Shorter(r) = 1
    BY <1>2 DEF Name, EndsInSlash, Shorter
  <2>2. Len(r) \in Nat /\ Len(r) > 1 /\ Len(Text(r)) = 2 * Len(r) - 1
    BY <1>2, <2>1, TextOfPath
  <2> QED
    BY <2>1, <2>2
<1>3. Name(<<>>) = <<"/">>
  BY DEF Name, Text
<1>4. ASSUME NEW r, Spelled(r), r # <<>> PROVE Name(r) # <<"/">>
  <2>1. CASE EndsInSlash(r)
    <3>1. ~ (Len(<<"/">>) > 1)
      OBVIOUS
    <3>2. Len(Name(r)) > 1
      BY <1>2, <1>4, <2>1
    <3> QED
      BY <3>1, <3>2, Zenon
  <2>2. CASE ~ EndsInSlash(r)
    <3>1. "/" \notin Components
      BY DEF Components
    <3>2. <<"/">>[1] = "/"
      OBVIOUS
    <3> QED
      BY <1>1, <1>4, <2>2, <3>1, <3>2
  <2> QED
    BY <2>1, <2>2
<1>5. CASE p = <<>> \/ q = <<>>
  BY <1>3, <1>4, <1>5
<1>6. CASE p # <<>> /\ q # <<>>
  <2>1. EndsInSlash(p) <=> EndsInSlash(q)
    <3>1. ~ (1 > 1)
      OBVIOUS
    <3> QED
      BY <1>1, <1>2, <1>6, <3>1
  <2>2. Last(p) = Last(q)
    <3>1. CASE EndsInSlash(p)
      BY <2>1, <3>1 DEF EndsInSlash
    <3>2. CASE ~ EndsInSlash(p)
      BY <1>1, <1>6, <2>1, <3>2
    <3> QED
      BY <3>1, <3>2
  <2>3. Front(p) = Front(q)
    BY <1>6 DEF Parent
  <2>4. p = Front(p) \o <<Last(p)>> /\ q = Front(q) \o <<Last(q)>>
    BY <1>6, FrontAndLast DEF Spelled
  <2> QED
    BY <2>2, <2>3, <2>4
<1> QED
  BY <1>5, <1>6

HasType(p) == \E mode \in DOMAIN TypeTexts : Type(p) = TypeTexts[mode]

LEMMA RankIsANumber ==
  ASSUME NEW p, HasType(p)
  PROVE  TypeRank(p) \in 1 .. 7
<1>1. Type(p) \in {"block_device", "character_device", "directory", "file",
                   "named_pipe", "socket", "symbolic_link"}
  <2>1. PICK mode \in DOMAIN TypeTexts : Type(p) = TypeTexts[mode]
    BY DEF HasType
  <2>2. \A m \in DOMAIN TypeTexts :
           TypeTexts[m] \in {"block_device", "character_device",
                                "directory", "file", "named_pipe", "socket",
                                "symbolic_link"}
    BY DEF TypeTexts
  <2> QED
    BY <2>1, <2>2, Zenon
<1>2. \E k \in 1 .. 7 : TypeOrder[k] = Type(p)
  <2>1. /\ TypeOrder[1] = "block_device" /\ TypeOrder[2] = "character_device"
        /\ TypeOrder[3] = "directory" /\ TypeOrder[4] = "file"
        /\ TypeOrder[5] = "named_pipe" /\ TypeOrder[6] = "socket"
        /\ TypeOrder[7] = "symbolic_link"
    BY DEF TypeOrder
  <2> QED
    BY <1>1, <2>1
<1>3. DOMAIN TypeOrder = 1 .. 7
  BY DEF TypeOrder
<1> QED
  BY <1>2, <1>3 DEF TypeRank

\* The rows of a directory have their places in the order of their types and
\* names.
LEMMA PlacesByTypeAndNameOrder ==
  ASSUME NEW S, IsFiniteSet(S),
         \A p \in S : Spelled(p) /\ HasType(p),
         NEW directory, \A p \in S : Parent(p) = directory
  PROVE  /\ PlacesByTypeAndName(S) \in Bijection(S, 0 .. Cardinality(S) - 1)
         /\ \A p, q \in S :
               PlacesByTypeAndName(S)[p] < PlacesByTypeAndName(S)[q] <=>
                 ListedBefore(p, q)
<1> DEFINE R == {pair \in S \X S : ListedBefore(pair[1], pair[2])}
           place == PlacesByTypeAndName(S)
<1>0. \A p, q \in S : <<p, q>> \in R <=> ListedBefore(p, q)
  OBVIOUS
<1>1. \A p, q \in S : <<p, q>> \in R <=>
         \/ TypeRank(p) > TypeRank(q)
         \/ TypeRank(p) = TypeRank(q) /\ Precedes(Name(p), Name(q))
  BY DEF ListedBefore
<1>2. \A p \in S : TypeRank(p) \in Nat /\ Name(p) \in Texts
  <2>1. \A p \in S : TypeRank(p) \in 1 .. 7
    BY RankIsANumber
  <2> QED
    BY <2>1, NameIsInText
<1>3. place = [p \in S |-> Cardinality({q \in S : <<q, p>> \in R})]
  <2>1. ASSUME NEW p \in S
        PROVE  {q \in S : ListedBefore(q, p)} = {q \in S : <<q, p>> \in R}
    OBVIOUS
  <2> HIDE DEF R
  <2> QED
    BY <2>1 DEF PlacesByTypeAndName
<1> HIDE DEF R, place
<1>4. ASSUME NEW p \in S PROVE <<p, p>> \notin R
  <2>1. ~ Precedes(Name(p), Name(p)) /\ ~ (TypeRank(p) > TypeRank(p))
    BY <1>2, PrecedesIsStrict
  <2> QED
    BY <1>1, <2>1
<1>5. ASSUME NEW p \in S, NEW q \in S, NEW r \in S,
             <<p, q>> \in R, <<q, r>> \in R
      PROVE  <<p, r>> \in R
  <2>1. /\ TypeRank(p) \in Nat /\ TypeRank(q) \in Nat /\ TypeRank(r) \in Nat
        /\ Name(p) \in Texts /\ Name(q) \in Texts /\ Name(r) \in Texts
    BY <1>2
  <2>2. /\ \/ TypeRank(p) > TypeRank(q)
           \/ TypeRank(p) = TypeRank(q) /\ Precedes(Name(p), Name(q))
        /\ \/ TypeRank(q) > TypeRank(r)
           \/ TypeRank(q) = TypeRank(r) /\ Precedes(Name(q), Name(r))
    BY <1>1, <1>5
  <2>3. Precedes(Name(p), Name(q)) /\ Precedes(Name(q), Name(r)) =>
          Precedes(Name(p), Name(r))
    BY <2>1, PrecedesIsTransitive
  <2>4. \/ TypeRank(p) > TypeRank(r)
        \/ TypeRank(p) = TypeRank(r) /\ Precedes(Name(p), Name(r))
    BY <2>1, <2>2, <2>3
  <2> QED
    BY <1>1, <2>4
<1>6. ASSUME NEW p \in S, NEW q \in S, p # q
      PROVE  <<p, q>> \in R \/ <<q, p>> \in R
  <2>1. Name(p) # Name(q)
    BY <1>6, NamesDiffer
  <2>2. Precedes(Name(p), Name(q)) \/ Precedes(Name(q), Name(p))
    BY <1>2, <2>1, PrecedesIsTotal
  <2>3. \/ TypeRank(p) > TypeRank(q) \/ TypeRank(q) > TypeRank(p)
        \/ TypeRank(p) = TypeRank(q)
    BY <1>2
  <2> QED
    BY <1>1, <2>2, <2>3
<1>7. /\ place \in Bijection(S, 0 .. Cardinality(S) - 1)
      /\ \A p, q \in S : place[p] < place[q] <=> <<p, q>> \in R
  BY <1>3, <1>4, <1>5, <1>6, PlacesAreABijection
<1> QED
  BY <1>0, <1>7 DEF place

-----------------------------------------------------------------------------
(* The directory.                                                          *)

\* A crawl spells a directory in one way.
LEMMA OneSpelling ==
  ASSUME NEW root \in Roots, NEW d \in Below(root) \cup {Stem(root)},
         NEW e \in Below(root) \cup {Stem(root)}, Denotes(d) = Denotes(e)
  PROVE  d = e
<1>1. \A r \in Below(root) : Denotes(r) # Denotes(Stem(root))
  <2> SUFFICES ASSUME NEW r \in Below(root)
               PROVE  Denotes(r) # Denotes(Stem(root))
    OBVIOUS
  <2>1. PICK path \in Within(root) : r = EntryPath(root, path)
    BY BelowIsWithin
  <2> QED
    BY <2>1, EntryDenotes, StemDenotes DEF Within
<1> QED
  BY <1>1, OneRowPerEntryOfACrawl

Itself(directory) == {p \in rows : Denotes(p) = Denotes(directory)}

Inside(directory) ==
    {p \in rows : /\ Denotes(p) # <<>>
                  /\ Front(Denotes(p)) = Denotes(directory)
                  /\ directory \in Spellings(p)}

LEMMA DenotesEmpty == Denotes(<<>>) = <<>>
<1>1. Names(<<>>) = {}
  BY DEF Names
<1>2. /\ <<>> \in Seq(Components) /\ <<>> \in Seq(Named)
      /\ Len(<<>>) = Cardinality(Names(<<>>))
  BY <1>1, FS_EmptySet
<1> QED
  BY <1>1, <1>2, DenotesIs

LEMMA InsideIsNotItself ==
  ASSUME RowsOfCrawls, NEW directory, NEW p \in Inside(directory)
  PROVE  p \notin Itself(directory)
<1> DEFINE d == Denotes(p)
<1>1. d \in Seq(Named)
  BY RowsAreSpelled, DenotesCounts DEF Inside, Spelled
<1>2. d # <<>> /\ Front(d) = Denotes(directory)
  BY DEF Inside
<1>3. Len(d) \in Nat /\ Len(Front(d)) = Len(d) - 1
  <2> HIDE DEF d
  <2> QED
    BY <1>1, <1>2, FrontAndLast
<1>4. Front(d) # d
  BY <1>3
<1> QED
  BY <1>2, <1>4 DEF Itself

\* The query of browseDirectory selects what was recorded in the directory, and
\* of the rows of the directory itself those of roots.
LEMMA ParentIsDirectory ==
  ASSUME RowsOfCrawls, NEW p \in rows, NEW directory
  PROVE  /\ Parent(p) = directory =>
              \/ p \in Inside(directory) /\ EndsInName(p)
              \/ p \in Itself(directory) /\ p = Root(p)
         /\ p \in Inside(directory) =>
              Parent(p) = directory /\ p \notin Itself(directory)
<1> DEFINE root == Root(p)
<1>1. /\ root \in Roots /\ p \in Below(root) \cup {root}
      /\ p \in Seq(Components)
  BY RowsAreSpelled DEF RowsOfCrawls, Spelled
<1>2. ASSUME EndsInName(p)
      PROVE  /\ Parent(p) = Front(p)
             /\ Denotes(p) # <<>> /\ Front(Denotes(p)) = Denotes(Parent(p))
  <2> DEFINE d == Denotes(Front(p))
             x == Last(p)
  <2>1. x \in Named /\ d \in Seq(Named) /\ Denotes(p) = d \o <<x>>
    BY <1>1, <1>2, DenotesName
  <2> HIDE DEF x, d
  <2>2. Denotes(p) # <<>> /\ Front(Denotes(p)) = d
    BY <2>1, FrontOfLonger
  <2>3. Parent(p) = Front(p)
    BY <1>2 DEF Parent, EndsInName
  <2> QED
    BY <2>2, <2>3 DEF d
<1>3. CASE p \in Below(root)
  <2>1. /\ EndsInName(p) /\ p # root
        /\ Parent(p) \in Below(root) \cup {Stem(root)}
    BY <1>1, <1>3, ParentBelow
  <2>2. Spellings(p) = Below(root) \cup {Stem(root)}
    BY <2>1 DEF Spellings
  <2>3. ASSUME Parent(p) = directory
        PROVE  p \in Inside(directory)
    BY <1>2, <2>1, <2>2, <2>3 DEF Inside
  <2>4. ASSUME p \in Inside(directory)
        PROVE  Parent(p) = directory
    <3>1. /\ directory \in Below(root) \cup {Stem(root)}
          /\ Denotes(Parent(p)) = Denotes(directory)
      BY <1>2, <2>1, <2>2, <2>4 DEF Inside
    <3> QED
      BY <1>1, <2>1, <3>1, OneSpelling
  <2> HIDE DEF root
  <2> QED
    BY <2>1, <2>3, <2>4, InsideIsNotItself
<1>4. CASE p = root
  <2>1. Spellings(p) = {Front(p)}
    BY <1>4 DEF Spellings
  <2>2. ASSUME Parent(p) = directory, EndsInName(p)
        PROVE  p \in Inside(directory)
    BY <1>2, <2>1, <2>2 DEF Inside
  <2>3. ASSUME Parent(p) = directory, ~ EndsInName(p)
        PROVE  p \in Itself(directory)
    BY <2>3, OtherRowsAreRoots DEF Itself
  <2>4. ASSUME p \in Inside(directory)
        PROVE  Parent(p) = directory
    <3>1. directory = Front(p) /\ Denotes(p) # <<>>
      BY <2>1, <2>4 DEF Inside
    <3>2. p # <<>>
      BY <3>1, DenotesEmpty
    <3> QED
      BY <3>1, <3>2 DEF Parent
  <2> QED
    BY <1>4, <2>2, <2>3, <2>4, InsideIsNotItself
<1> QED
  BY <1>1, <1>3, <1>4

\* What BrowseListsTheDirectory says of the rows of one page.
ListsDirectory(shown, directory, size) ==
    /\ Cardinality(ToSet(shown)) = Len(shown)
    /\ ToSet(shown) \ Itself(directory) \subseteq Inside(directory)
    /\ \A p \in ToSet(shown) \cap Itself(directory) : p = Root(p)
    /\ \A p, q \in ToSet(shown) \ Itself(directory) :
          Denotes(p) = Denotes(q) => p = q
    /\ \A p \in Inside(directory) \ ToSet(shown) :
          /\ Len(shown) = size
          /\ \A q \in ToSet(shown) : ListedBefore(q, p)

LEMMA ListedOnPage ==
  ASSUME RowsOfCrawls, NEW directory, NEW size, size \in Int,
         NEW shown,
         shown = FirstOf(PlacesByTypeAndName(
                             {p \in rows : Parent(p) = directory}), size)
  PROVE  ListsDirectory(shown, directory, size)
<1> DEFINE S == {p \in rows : Parent(p) = directory}
           place == PlacesByTypeAndName(S)
<1>1. \A p \in rows : Spelled(p) /\ p \in Seq(Components) /\ HasType(p)
  BY RowsAreSpelled DEF RowsOfCrawls, HasType, Spelled
<1>2. /\ S \subseteq rows /\ IsFiniteSet(S)
      /\ \A p \in rows : p \in S <=> Parent(p) = directory
  <2>1. S \in SUBSET rows /\ IsFiniteSet(rows)
    BY RowsAreFinite
  <2> QED
    BY <2>1, FS_Subset
<1> HIDE DEF S
<1>3. /\ place \in Bijection(S, 0 .. Cardinality(S) - 1)
      /\ \A p, q \in S : place[p] < place[q] <=> ListedBefore(p, q)
  BY <1>1, <1>2, PlacesByTypeAndNameOrder
<1>4. IsCut(shown, S, place, size)
  <2>1. shown = FirstOf(place, size)
    BY DEF S
  <2> HIDE DEF place
  <2> QED
    BY <1>2, <1>3, <2>1, FirstOfPlaces
<1> HIDE DEF place
<1>5. ASSUME NEW p \in S
      PROVE  /\ \/ p \in Inside(directory) /\ EndsInName(p)
                \/ p \in Itself(directory) /\ p = Root(p)
             /\ p \in Inside(directory) => p \notin Itself(directory)
  BY <1>2, ParentIsDirectory
<1>6. ASSUME NEW p \in S \ Itself(directory)
      PROVE  /\ Last(p) \in Named /\ p = directory \o <<Last(p)>>
             /\ Denotes(directory) \in Seq(Named)
             /\ Denotes(p) = Denotes(directory) \o <<Last(p)>>
  <2>1. EndsInName(p) /\ p \in Seq(Components) /\ Parent(p) = directory
    BY <1>1, <1>2, <1>5
  <2>2. p # <<>> /\ Front(p) = directory /\ p = Front(p) \o <<Last(p)>>
    BY <2>1, FrontAndLast DEF EndsInName, Parent
  <2> QED
    BY <2>1, <2>2, DenotesName
<1>7. ASSUME NEW p \in S \ Itself(directory), NEW q \in S \ Itself(directory),
             Denotes(p) = Denotes(q)
      PROVE  p = q
  <2> DEFINE d == Denotes(directory)
             x == Last(p)
             y == Last(q)
  <2>1. /\ d \in Seq(Named) /\ x \in Named /\ y \in Named
        /\ d \o <<x>> = d \o <<y>>
        /\ p = directory \o <<x>> /\ q = directory \o <<y>>
    BY <1>6, <1>7
  <2> HIDE DEF d, x, y
  <2>2. Last(d \o <<x>>) = x /\ Last(d \o <<y>>) = y
    BY <2>1, FrontOfLonger
  <2> QED
    BY <2>1, <2>2
<1>8. ASSUME NEW p \in Inside(directory), p \notin ToSet(shown)
      PROVE  /\ Len(shown) = size
             /\ \A q \in ToSet(shown) : ListedBefore(q, p)
  <2>1. p \in S
    BY <1>2, ParentIsDirectory DEF Inside
  <2>2. Len(shown) = size
    BY <1>4, <1>8, <2>1 DEF IsCut
  <2>3. ASSUME NEW q \in ToSet(shown) PROVE ListedBefore(q, p)
    <3>1. q \in S /\ place[q] < Len(shown) /\ ~ (place[p] < Len(shown))
      BY <1>4, <1>8, <2>1 DEF IsCut
    <3>2. place[q] \in Int /\ place[p] \in Int /\ Len(shown) \in Int
      <4>1. place \in [S -> 0 .. Cardinality(S) - 1]
        BY <1>3 DEF Bijection, Injection
      <4>2. Len(shown) \in Nat
        BY <1>4 DEF IsCut
      <4> QED
        BY <2>1, <3>1, <4>1, <4>2
    <3>3. place[q] < place[p]
      BY <3>1, <3>2
    <3> QED
      BY <1>3, <2>1, <3>1, <3>3
  <2> QED
    BY <2>2, <2>3
<1>9. /\ ToSet(shown) \subseteq S
      /\ Cardinality(ToSet(shown)) = Len(shown)
  BY <1>4 DEF IsCut
<1> QED
  BY <1>5, <1>7, <1>8, <1>9 DEF ListsDirectory

\* For any spelling of any directory, any rows crawls may have left and any
\* page size, the page lists what crawls that spell the directory this way
\* recorded in it, each entry once, up to the page size and in order, and
\* nothing else but roots that are the directory itself (browseDirectory).
THEOREM BrowseIsComplete == Spec => []BrowseListsTheDirectory
<1>1. ASSUME RowsOfCrawls, PageOfRows PROVE BrowseListsTheDirectory
  <2> SUFFICES ASSUME page.route = "browse"
               PROVE  BrowseListsTheDirectory
    BY DEF BrowseListsTheDirectory
  <2>1. PICK directory :
           \E size \in PageSizes : page = BrowsePage(directory, size)
    <3>1. NoPage.route # "browse"
      BY DEF NoPage
    <3>2. \A phrase, type, size :
             SearchPage(phrase, type, size).route # "browse"
      BY DEF SearchPage
    <3> QED
      BY <1>1, <3>1, <3>2 DEF PageOfRows
  <2>2. PICK size \in PageSizes : page = BrowsePage(directory, size)
    BY <2>1
  <2>3. /\ page.directory = directory /\ page.size = size
        /\ page.shown = FirstOf(PlacesByTypeAndName(
                            {p \in rows : Parent(p) = directory}), size)
    BY <2>2 DEF BrowsePage
  <2>4. ListsDirectory(page.shown, directory, size)
    BY <1>1, <2>3, PagesAssumption, ListedOnPage
  <2> QED
    BY <2>3, <2>4
    DEF BrowseListsTheDirectory, ListsDirectory, Inside, Itself, Shown,
        PageIsFull
<1> QED
  BY <1>1, PagesAreCutFromRows, PTL

=============================================================================
