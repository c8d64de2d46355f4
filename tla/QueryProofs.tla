---------------------------- MODULE QueryProofs -----------------------------
(* Proofs about Query, for any number of outputs, tables, slots and page     *)
(* sizes: what a client receives that walks a list page by page.             *)
EXTENDS Query, FiniteSetTheorems, FunctionTheorems, TLAPS

-----------------------------------------------------------------------------
(* The order of the rows.                                                    *)

\* The keys of rows, of cursors and of no cursor are pairs of integers.
LEMMA KeyFacts ==
  /\ \A k \in Keys : k[1] \in Slots /\ k[2] \in Outputs /\ k = <<k[1], k[2]>>
  /\ \A k \in Keys \cup {NoCursor} : k[1] \in Int /\ k[2] \in Int
  /\ \A k \in Keys : Before(NoCursor, k)
  /\ IsFiniteSet(Keys)
<1>1. Slots \subseteq Nat /\ IsFiniteSet(Slots)
  BY MaxSlotAssumption, FS_Interval DEF Slots
<1>2. IsFiniteSet(Keys)
  BY <1>1, OutputsAssumption, FS_Product DEF Keys
<1>3. \A k \in Keys : k[1] \in Slots /\ k[2] \in Outputs /\ k = <<k[1], k[2]>>
  BY DEF Keys
<1>4. NoCursor[1] = -1 /\ NoCursor[2] = -1
  BY DEF NoCursor, NoSlot
<1>5. \A k \in Keys : k[1] \in Nat /\ k[2] \in Nat
  BY <1>1, <1>3, OutputIDsAssumption
<1>6. \A k \in Keys : Before(NoCursor, k)
  BY <1>4, <1>5 DEF Before
<1> QED
  BY <1>2, <1>3, <1>4, <1>5, <1>6

\* A total order.
LEMMA BeforeOrder ==
  /\ \A k \in Keys \cup {NoCursor} : ~Before(k, k)
  /\ \A k, l, m \in Keys \cup {NoCursor} :
       Before(k, l) /\ Before(l, m) => Before(k, m)
  /\ \A k, l \in Keys : k # l => Before(k, l) \/ Before(l, k)
<1>1. \A k, l \in Keys : k[1] = l[1] /\ k[2] = l[2] => k = l
  BY KeyFacts
<1> QED
  BY <1>1, KeyFacts DEF Before

\* The rows of a state of the tables.
LEMMA RowsAreKeys ==
  ASSUME NEW ix \in [Outputs -> Slots \cup {NoSlot}]
  PROVE  RowsOf(ix) \in SUBSET Keys
BY DEF RowsOf, Keys

-----------------------------------------------------------------------------
(* Ranks, and the sequences made of them.                                    *)

\* A rank is a number below the size of the set, and grows with the key.
LEMMA RankFacts ==
  ASSUME NEW S \in SUBSET Keys
  PROVE  /\ IsFiniteSet(S) /\ Cardinality(S) \in Nat
         /\ \A k \in Keys : Rank(k, S) \in Nat
         /\ \A k \in S : Rank(k, S) < Cardinality(S)
         /\ \A k \in Keys, l \in S : Before(l, k) => Rank(l, S) < Rank(k, S)
<1>1. IsFiniteSet(S) /\ Cardinality(S) \in Nat
  BY KeyFacts, FS_Subset, FS_CardinalityType
<1> DEFINE Below(k) == {l \in S : Before(l, k)}
<1>2. ASSUME NEW k \in Keys
      PROVE  IsFiniteSet(Below(k)) /\ Rank(k, S) = Cardinality(Below(k)) /\ Rank(k, S) \in Nat
  <2>1. Below(k) \in SUBSET S
    OBVIOUS
  <2> QED
    BY <1>1, <2>1, FS_Subset, FS_CardinalityType DEF Rank
<1>3. ASSUME NEW T \in SUBSET S, NEW U \in SUBSET T, NEW l \in T, l \notin U
      PROVE  Cardinality(U) < Cardinality(T)
  <2>1. IsFiniteSet(T) /\ IsFiniteSet(U) /\ Cardinality(T) \in Nat /\ Cardinality(U) \in Nat
    BY <1>1, FS_Subset, FS_CardinalityType
  <2>2. Cardinality(U) <= Cardinality(T) /\ Cardinality(U) # Cardinality(T)
    BY <1>3, <2>1, FS_Subset
  <2> QED
    BY <2>1, <2>2
<1>4. ASSUME NEW k \in S PROVE Rank(k, S) < Cardinality(S)
  <2>1. k \in Keys /\ ~Before(k, k)
    BY BeforeOrder
  <2>2. Below(k) \in SUBSET S /\ k \notin Below(k)
    BY <2>1
  <2> QED
    BY <1>2, <1>3, <2>1, <2>2
<1>5. ASSUME NEW k \in Keys, NEW l \in S, Before(l, k)
      PROVE  Rank(l, S) < Rank(k, S)
  <2>1. l \in Keys /\ ~Before(l, l)
    BY BeforeOrder
  <2>2. Below(l) \in SUBSET Below(k) /\ Below(k) \in SUBSET S
    BY <1>5, <2>1, BeforeOrder
  <2>3. l \in Below(k) /\ l \notin Below(l)
    BY <1>5, <2>1
  <2> QED
    BY <1>2, <1>3, <2>1, <2>2, <2>3
<1> QED
  BY <1>1, <1>2, <1>4, <1>5

\* Every rank is some row's, and no two rows' (the ranks are an injection into
\* a set of the same size).
LEMMA RankOnto ==
  ASSUME NEW S \in SUBSET Keys
  PROVE  /\ \A k, l \in S : Rank(k, S) = Rank(l, S) => k = l
         /\ \A n \in 0..(Cardinality(S) - 1) : \E k \in S : Rank(k, S) = n
<1> DEFINE n == Cardinality(S)
           T == 0..(n - 1)
           f == [k \in S |-> Rank(k, S)]
<1>1. IsFiniteSet(S) /\ n \in Nat
  BY RankFacts
<1>2. \A k, l \in S : Rank(k, S) = Rank(l, S) => k = l
  <2>1. \A k \in S : Rank(k, S) \in Nat
    BY RankFacts
  <2>2. \A k, l \in S : k # l => Rank(k, S) < Rank(l, S) \/ Rank(l, S) < Rank(k, S)
    BY RankFacts, BeforeOrder
  <2> QED
    BY <2>1, <2>2
<1>3. f \in [S -> T]
  BY RankFacts
<1>4. f \in Injection(S, T)
  BY <1>2, <1>3, Fun_IsInj
<1>5. IsFiniteSet(T) /\ Cardinality(T) = n
  BY <1>1, FS_Interval
<1> HIDE DEF T, n
<1>6. f \in Surjection(S, T)
  BY <1>4, <1>5, FS_Injection DEF n
<1>7. \A m \in T : \E k \in S : f[k] = m
  BY <1>6, Fun_SurjectionProperties
<1> QED
  BY <1>2, <1>7 DEF T, n

\* The rows of a set in order: all of them, once, ascending.
LEMMA InOrderFacts ==
  ASSUME NEW S \in SUBSET Keys
  PROVE  /\ InOrder(S) \in Seq(Keys) /\ Len(InOrder(S)) = Cardinality(S)
         /\ \A n \in 1..Cardinality(S) : InOrder(S)[n] \in S
         /\ \A k \in S : \E n \in 1..Cardinality(S) : InOrder(S)[n] = k
         /\ \A m, n \in 1..Cardinality(S) :
              m < n => Before(InOrder(S)[m], InOrder(S)[n])
<1> DEFINE c == Cardinality(S)
           s == InOrder(S)
<1>1. c \in Nat
  BY RankFacts
<1>2. s = [n \in 1..c |-> CHOOSE k \in S : Rank(k, S) = n - 1]
  BY DEF InOrder
<1>3. ASSUME NEW n \in 1..c PROVE s[n] \in S /\ Rank(s[n], S) = n - 1
  <2>1. n - 1 \in 0..(c - 1)
    BY <1>1
  <2>2. \E k \in S : Rank(k, S) = n - 1
    BY <2>1, RankOnto
  <2>3. s[n] = CHOOSE k \in S : Rank(k, S) = n - 1
    BY <1>2
  <2> QED
    BY <2>2, <2>3
<1> HIDE DEF s
<1>4. s \in Seq(Keys) /\ Len(s) = c
  <2>1. s \in [1..c -> Keys]
    BY <1>2, <1>3
  <2> QED
    BY <1>1, <2>1
<1>5. ASSUME NEW k \in S PROVE \E n \in 1..c : s[n] = k
  <2> DEFINE n == Rank(k, S) + 1
  <2>1. Rank(k, S) \in Nat /\ Rank(k, S) < c
    BY RankFacts
  <2>2. n \in 1..c /\ n - 1 = Rank(k, S)
    BY <1>1, <2>1
  <2>3. s[n] = k
    BY <1>3, <2>2, RankOnto
  <2> QED
    BY <2>2, <2>3
<1>6. ASSUME NEW m \in 1..c, NEW n \in 1..c, m < n
      PROVE  Before(s[m], s[n])
  <2>1. /\ s[m] \in S /\ s[n] \in S
        /\ Rank(s[m], S) = m - 1 /\ Rank(s[n], S) = n - 1
    BY <1>3
  <2>2. m \in Nat /\ n \in Nat
    BY <1>1
  <2>3. s[m] # s[n]
    BY <1>6, <2>1, <2>2
  <2>4. CASE Before(s[n], s[m])
    <3>1. Rank(s[n], S) < Rank(s[m], S)
      BY <2>1, <2>4, RankFacts
    <3> QED
      BY <1>6, <2>1, <2>2, <3>1
  <2> QED
    BY <2>1, <2>3, <2>4, BeforeOrder
<1> QED
  BY <1>3, <1>4, <1>5, <1>6 DEF s

\* The first n rows of a set: closed downward, n of them or all.
LEMMA LimitedFacts ==
  ASSUME NEW S \in SUBSET Keys, NEW n \in Nat
  PROVE  /\ Limited(S, n) \in SUBSET S
         /\ \A k \in Limited(S, n), l \in S : Before(l, k) => l \in Limited(S, n)
         /\ IF Cardinality(S) <= n THEN Limited(S, n) = S
            ELSE Cardinality(Limited(S, n)) = n
<1> DEFINE c == Cardinality(S)
           L == Limited(S, n)
<1>1. /\ c \in Nat
      /\ \A k \in S : k \in Keys /\ Rank(k, S) \in Nat /\ Rank(k, S) < c
  BY RankFacts
<1>2. L = {k \in S : Rank(k, S) < n}
  BY DEF Limited
<1>3. L \in SUBSET S
  BY <1>2
<1>4. ASSUME NEW k \in L, NEW l \in S, Before(l, k) PROVE l \in L
  <2>1. k \in S /\ Rank(k, S) < n
    BY <1>2
  <2>2. Rank(l, S) < Rank(k, S) /\ Rank(l, S) \in Nat /\ Rank(k, S) \in Nat
    BY <1>1, <1>4, <2>1, RankFacts
  <2> QED
    BY <1>2, <2>1, <2>2
<1>5. CASE c <= n
  BY <1>1, <1>2, <1>3, <1>4, <1>5
<1>6. CASE ~(c <= n)
  <2> DEFINE T == 0..(n - 1)
             f == [k \in L |-> Rank(k, S)]
  <2>1. f \in [L -> T]
    BY <1>1, <1>2
  <2>2. \A k, l \in L : f[k] = f[l] => k = l
    BY <1>3, RankOnto
  <2>3. \A m \in T : \E k \in L : f[k] = m
    <3>1. SUFFICES ASSUME NEW m \in T PROVE \E k \in L : f[k] = m
      OBVIOUS
    <3>2. m \in 0..(c - 1) /\ m < n
      BY <1>1, <1>6
    <3>3. PICK k \in S : Rank(k, S) = m
      BY <3>2, RankOnto
    <3> QED
      BY <1>2, <3>2, <3>3
  <2> HIDE DEF T, f
  <2>4. f \in Bijection(L, T)
    BY <2>1, <2>2, <2>3, Fun_IsBij
  <2>5. IsFiniteSet(L)
    BY <1>3, RankFacts, FS_Subset
  <2>6. Cardinality(T) = Cardinality(L)
    BY <2>4, <2>5, FS_Bijection DEF ExistsBijection
  <2>7. Cardinality(T) = n
    BY FS_Interval DEF T
  <2> QED
    BY <1>3, <1>4, <1>6, <2>6, <2>7
<1> QED
  BY <1>5, <1>6

\* A limit applied to parts before it is applied to their union changes nothing.
LEMMA LimitedUnion ==
  ASSUME NEW I, NEW M \in SUBSET Keys, NEW n \in Nat,
         NEW P \in [I -> SUBSET M], M = UNION {P[i] : i \in I}
  PROVE  Limited(UNION {Limited(P[i], n) : i \in I}, n) = Limited(M, n)
<1> DEFINE U == UNION {Limited(P[i], n) : i \in I}
<1>1. \A i \in I : P[i] \in SUBSET Keys /\ P[i] \in SUBSET M
  OBVIOUS
<1>2. \A i \in I : Limited(P[i], n) \in SUBSET P[i]
  BY <1>1, LimitedFacts
<1>3. U \in SUBSET M /\ U \in SUBSET Keys
  BY <1>1, <1>2
<1>4. ASSUME NEW A \in SUBSET Keys, NEW B \in SUBSET A, NEW k \in Keys
      PROVE  Rank(k, B) <= Rank(k, A) /\ Rank(k, A) \in Nat /\ Rank(k, B) \in Nat
  <2>1. IsFiniteSet({l \in A : Before(l, k)})
    BY RankFacts, FS_Subset
  <2>2. {l \in B : Before(l, k)} \in SUBSET {l \in A : Before(l, k)}
    OBVIOUS
  <2> QED
    BY <2>1, <2>2, FS_Subset, RankFacts DEF Rank
<1>5. ASSUME NEW k \in Limited(M, n) PROVE k \in Limited(U, n)
  <2>1. k \in M /\ Rank(k, M) < n /\ k \in Keys
    BY <1>5 DEF Limited
  <2>2. PICK i \in I : k \in P[i]
    BY <2>1
  <2>3. Rank(k, P[i]) < n
    <3>1. Rank(k, P[i]) <= Rank(k, M) /\ Rank(k, M) \in Nat /\ Rank(k, P[i]) \in Nat
      BY <1>1, <1>4, <2>1
    <3> QED
      BY <2>1, <3>1
  <2>4. k \in U
    BY <2>2, <2>3 DEF Limited
  <2>5. Rank(k, U) < n
    <3>1. Rank(k, U) <= Rank(k, M) /\ Rank(k, M) \in Nat /\ Rank(k, U) \in Nat
      BY <1>3, <1>4, <2>1
    <3> QED
      BY <2>1, <3>1
  <2> QED
    BY <2>4, <2>5 DEF Limited
<1>6. ASSUME NEW k \in Limited(U, n) PROVE k \in Limited(M, n)
  <2>1. k \in U /\ Rank(k, U) < n /\ k \in M /\ k \in Keys
    BY <1>3, <1>6 DEF Limited
  <2>2. ASSUME NEW l \in M, Before(l, k), l \notin U PROVE FALSE
    <3>1. PICK i \in I : l \in P[i]
      OBVIOUS
    <3>2. l \notin Limited(P[i], n)
      BY <2>2
    <3> DEFINE L == Limited(P[i], n)
    <3>3. Cardinality(L) = n
      BY <1>1, <3>1, <3>2, LimitedFacts
    <3>4. L \in SUBSET {m \in U : Before(m, k)}
      <4>1. SUFFICES ASSUME NEW m \in L PROVE m \in U /\ Before(m, k)
        OBVIOUS
      <4>2. m \in U /\ m \in P[i] /\ m \in Keys /\ l \in Keys /\ m # l
        BY <1>1, <1>2, <3>1, <3>2
      <4>3. ~Before(l, m)
        BY <1>1, <3>1, <3>2, LimitedFacts
      <4> QED
        BY <2>1, <2>2, <4>2, <4>3, BeforeOrder
    <3>5. IsFiniteSet({m \in U : Before(m, k)})
      <4>1. IsFiniteSet(U) /\ {m \in U : Before(m, k)} \in SUBSET U
        BY <1>3, RankFacts
      <4> QED
        BY <4>1, FS_Subset
    <3>6. n <= Rank(k, U)
      BY <3>3, <3>4, <3>5, FS_Subset DEF Rank
    <3>7. Rank(k, U) \in Nat
      BY <1>3, <2>1, RankFacts
    <3> QED
      BY <2>1, <3>6, <3>7
  <2>3. {l \in M : Before(l, k)} = {l \in U : Before(l, k)}
    BY <1>3, <2>2
  <2> QED
    BY <2>1, <2>3 DEF Limited, Rank
<1> QED
  BY <1>5, <1>6

-----------------------------------------------------------------------------
(* The query.                                                                *)

\* The rows the client has not received yet, as its next page will find them.
Matching == {k \in RowsOf(index) : TableOf[k[2]] \in from /\ ~Before(k, cursor)}

\* The rows of the page.
PageSet == IF HasNext(Results) THEN Results \ {LastOf(Results)} ELSE Results

\* Whatever the page size, results are rows.
LEMMA ResultsType ==
  ASSUME TypeOK
  PROVE  Results \in SUBSET Keys
<1>1. RowsOf(index) \in SUBSET Keys
  BY RowsAreKeys DEF TypeOK
<1>2. ASSUME NEW t PROVE FilteredQuery(t) \in SUBSET RowsOf(index)
  BY DEF FilteredQuery, Limited
<1> QED
  BY <1>1, <1>2 DEF Results, Limited

\* One table or all of them, with a page size: the first of the rows that match,
\* one more than the page holds.
LEMMA ResultsAre ==
  ASSUME TypeOK, size > 0, from # {}
  PROVE  Results = Limited(Matching, size + 1)
<1>1. Matching \in SUBSET Keys /\ size + 1 \in Nat /\ size # 0
  BY RowsAreKeys DEF TypeOK, Matching
<1> DEFINE P == [t \in from |-> {k \in Matching : TableOf[k[2]] = t}]
<1>2. ASSUME NEW t \in from PROVE FilteredQuery(t) = Limited(P[t], size + 1)
  <2>1. P[t] = {k \in {l \in RowsOf(index) : TableOf[l[2]] = t} : ~Before(k, cursor)}
    BY DEF Matching
  <2> QED
    BY <1>1, <2>1 DEF FilteredQuery
<1>3. CASE Cardinality(from) = 1
  <2>1. IsFiniteSet(from)
    BY TablesAssumption, FS_Subset DEF TypeOK
  <2>2. PICK t : from = {t}
    BY <1>3, <2>1, FS_Singleton
  <2>3. P[t] = Matching
    BY <2>2 DEF Matching
  <2>4. UNION {FilteredQuery(u) : u \in from} = FilteredQuery(t)
    BY <2>2
  <2> QED
    BY <1>2, <1>3, <2>2, <2>3, <2>4 DEF Results
<1>4. CASE Cardinality(from) # 1
  <2>1. P \in [from -> SUBSET Matching]
    OBVIOUS
  <2>2. Matching = UNION {P[t] : t \in from}
    BY DEF Matching
  <2>3. UNION {FilteredQuery(t) : t \in from} = UNION {Limited(P[t], size + 1) : t \in from}
    BY <1>2
  <2> HIDE DEF P
  <2>4. Limited(UNION {Limited(P[t], size + 1) : t \in from}, size + 1)
          = Limited(Matching, size + 1)
    BY <1>1, <2>1, <2>2, LimitedUnion
  <2> QED
    BY <1>4, <2>3, <2>4 DEF Results
<1> QED
  BY <1>3, <1>4

\* The last row of a result is the one after all others.
LEMMA LastFacts ==
  ASSUME NEW R \in SUBSET Keys, R # {}
  PROVE  LastOf(R) \in R /\ \A k \in R \ {LastOf(R)} : Before(k, LastOf(R))
<1> DEFINE c == Cardinality(R)
<1>1. IsFiniteSet(R) /\ c \in Nat /\ c # 0
  BY RankFacts, FS_EmptySet
<1>2. c - 1 \in 0..(c - 1)
  BY <1>1
<1>3. PICK m \in R : Rank(m, R) = c - 1
  BY <1>2, RankOnto
<1>4. ASSUME NEW l \in R PROVE ~Before(m, l)
  <2>1. SUFFICES ASSUME Before(m, l) PROVE FALSE
    OBVIOUS
  <2>2. Rank(m, R) < Rank(l, R) /\ Rank(l, R) < c /\ Rank(l, R) \in Nat
    BY <2>1, RankFacts
  <2> QED
    BY <1>1, <1>3, <2>2
<1>5. LastOf(R) \in R /\ \A l \in R : ~Before(LastOf(R), l)
  BY <1>4 DEF LastOf
<1> QED
  BY <1>5, BeforeOrder

\* A page is a beginning of the matching rows, no longer than its size; the
\* cursor is the first row after it, and where there is none the page is all.
LEMMA PageFacts ==
  ASSUME TypeOK, size > 0, from # {}
  PROVE  /\ PageSet \in SUBSET Matching /\ Matching \in SUBSET Keys
         /\ Cardinality(PageSet) <= size
         /\ ~HasNext(Results) => PageSet = Matching
         /\ HasNext(Results) =>
              /\ LastOf(Results) \in Matching
              /\ \A k \in PageSet : Before(k, LastOf(Results))
              /\ \A k \in Matching \ PageSet : ~Before(k, LastOf(Results))
         /\ Results = {} => Matching = {}
         /\ Results # {} => PageSet # {}
<1> DEFINE R == Results
           c == Cardinality(Results)
<1>1. /\ Matching \in SUBSET Keys /\ R \in SUBSET Keys /\ R \in SUBSET Matching
      /\ size \in Nat /\ size + 1 \in Nat /\ c \in Nat /\ IsFiniteSet(R)
      /\ \A k \in R, l \in Matching : Before(l, k) => l \in R
      /\ c <= size + 1
      /\ c <= size => R = Matching
  <2>1. Matching \in SUBSET Keys /\ size \in Nat /\ size + 1 \in Nat
    BY RowsAreKeys DEF TypeOK, Matching
  <2>2. R = Limited(Matching, size + 1)
    BY ResultsAre
  <2>3. R \in SUBSET Matching /\ \A k \in R, l \in Matching : Before(l, k) => l \in R
    BY <2>1, <2>2, LimitedFacts
  <2>4. c \in Nat /\ IsFiniteSet(R) /\ Cardinality(Matching) \in Nat
    BY <2>1, <2>3, RankFacts
  <2>5. CASE Cardinality(Matching) <= size + 1
    <3>1. R = Matching
      BY <2>1, <2>2, <2>5, LimitedFacts
    <3> QED
      BY <2>1, <2>3, <2>4, <2>5, <3>1
  <2>6. CASE ~(Cardinality(Matching) <= size + 1)
    <3>1. c = size + 1
      BY <2>1, <2>2, <2>6, LimitedFacts
    <3> QED
      BY <2>1, <2>3, <2>4, <3>1
  <2> QED
    BY <2>5, <2>6
<1>2. CASE HasNext(R)
  <2>1. c > size /\ PageSet = R \ {LastOf(R)} /\ R # {}
    <3>1. c > size /\ c # 0
      BY <1>1, <1>2 DEF HasNext
    <3> QED
      BY <1>1, <1>2, <3>1, FS_EmptySet DEF PageSet
  <2>2. LastOf(R) \in R /\ \A k \in PageSet : Before(k, LastOf(R))
    BY <1>1, <2>1, LastFacts
  <2>3. Cardinality(PageSet) = c - 1
    BY <1>1, <2>1, <2>2, FS_RemoveElement
  <2>4. \A k \in Matching \ PageSet : ~Before(k, LastOf(R))
    BY <1>1, <2>1, <2>2, BeforeOrder
  <2>5. Cardinality(PageSet) <= size /\ Cardinality(PageSet) # 0
    BY <1>1, <2>1, <2>3
  <2>6. PageSet # {}
    BY <2>5, FS_EmptySet
  <2> QED
    BY <1>1, <1>2, <2>1, <2>2, <2>4, <2>5, <2>6
<1>3. CASE ~HasNext(R)
  <2>1. PageSet = R /\ c <= size
    BY <1>1, <1>3 DEF HasNext, PageSet
  <2> QED
    BY <1>1, <1>3, <2>1
<1> QED
  BY <1>2, <1>3

-----------------------------------------------------------------------------
(* Type correctness.                                                         *)

\* A page, and the cursor after it, are made of rows.
LEMMA PageType ==
  ASSUME TypeOK
  PROVE  /\ PageSet \in SUBSET Keys /\ PageOf(Results) = InOrder(PageSet)
         /\ PageOf(Results) \in Seq(Keys)
         /\ Results # {} => CursorOf(Results) \in Keys \cup {NoCursor}
<1>1. Results \in SUBSET Keys
  BY ResultsType
<1>2. PageSet \in SUBSET Keys /\ PageOf(Results) = InOrder(PageSet)
  BY <1>1 DEF PageSet, PageOf
<1>3. PageOf(Results) \in Seq(Keys)
  BY <1>2, InOrderFacts
<1>4. Results # {} => CursorOf(Results) \in Keys \cup {NoCursor}
  BY <1>1, LastFacts DEF CursorOf
<1> QED
  BY <1>2, <1>3, <1>4

\* A page size of a request is between 1 and the limit, one of a cursor is not
\* above it.
LEMMA SizeFacts ==
  ASSUME NEW n \in Nat
  PROVE  /\ PageSize(n) \in 1..MaxResults
         /\ CursorSize(n) \in 0..MaxResults
         /\ n # 0 => CursorSize(n) > 0
BY SizesAssumption DEF PageSize, CursorSize

LEMMA ToldType ==
  ASSUME TypeOK, TellSlot
  PROVE  told' \in Slots /\ due' \in SUBSET Keys
BY DEF TypeOK, TellSlot, Asked

LEMMA WriteType ==
  ASSUME TypeOK, Write
  PROVE  /\ index' \in [Outputs -> Slots \cup {NoSlot}]
         /\ RowsOf(index') \in SUBSET Keys
         /\ steady' \in SUBSET Keys
<1>1. index' \in [Outputs -> Slots \cup {NoSlot}]
  BY DEF Write, TypeOK
<1> QED
  BY <1>1, RowsAreKeys DEF Write, TypeOK

LEMMA NextType ==
  ASSUME TypeOK, [Next]_vars
  PROVE  TypeOK'
<1>1. CASE AcceptWrite
  <2>1. due' \in SUBSET Keys /\ UNCHANGED <<slot, pc, from, size, cursor, page, walk, told>>
    BY <1>1 DEF AcceptWrite, Write, clientVars, TypeOK
  <2> QED
    BY <1>1, <2>1, WriteType DEF AcceptWrite, TypeOK
<1>2. CASE CommitWrite
  <2>1. /\ slot < MaxSlot /\ slot' = slot + 1
        /\ due' = IF told = NoSlot THEN RowsOf(index') ELSE due \cap RowsOf(index')
        /\ UNCHANGED <<pc, from, size, cursor, page, walk, told>>
    BY <1>2 DEF CommitWrite, Write, clientVars
  <2>2. slot' \in Slots
    BY <2>1, MaxSlotAssumption DEF TypeOK, Slots
  <2>3. Write /\ due' \in SUBSET Keys
    BY <1>2, <2>1, WriteType DEF CommitWrite, TypeOK
  <2> QED
    BY <2>1, <2>2, <2>3, WriteType DEF TypeOK
<1>3. ASSUME NEW tables \in SUBSET Tables, NEW n \in PageSizes, Ask(tables, n)
      PROVE  TypeOK'
  <2>1. PageSize(n) \in Nat
    BY SizesAssumption, SizeFacts
  <2>2. Asked(RowsOf(index), tables) \in SUBSET Keys
    BY RowsAreKeys DEF Asked, TypeOK
  <2> QED
    BY <1>3, <2>1, <2>2 DEF Ask, TypeOK
<1>4. CASE Read
  <2>1. /\ Results # {} /\ page' = PageOf(Results) /\ cursor' = CursorOf(Results)
        /\ walk' = walk \o page' /\ pc' \in {"done", "turn"}
        /\ TellSlot /\ UNCHANGED <<index, slot, from, size, steady>>
    BY <1>4 DEF Read, EndRequest
  <2>2. walk' \in Seq(Keys)
    BY <2>1, PageType DEF TypeOK
  <2> QED
    BY <2>1, <2>2, PageType, ToldType DEF TypeOK
<1>5. CASE ReadNothing
  BY <1>5 DEF ReadNothing, TypeOK, ghostVars
<1>6. CASE ReadStatus
  BY <1>6, ToldType DEF ReadStatus, EndRequest, TypeOK
<1>7. CASE StatusFails
  <2>1. 0 \in Slots
    BY MaxSlotAssumption DEF Slots
  <2> QED
    BY <1>7, <2>1 DEF StatusFails, EndRequest, TypeOK
<1>8. CASE ReadFails \/ Terminating \/ UNCHANGED vars
  BY <1>8 DEF ReadFails, Terminating, TypeOK, vars, clientVars, ghostVars
<1>9. ASSUME NEW n \in CursorSizes, Turn(n)
      PROVE  TypeOK'
  <2>1. CursorSize(n) \in Nat
    BY SizesAssumption, SizeFacts
  <2> QED
    BY <1>9, <2>1 DEF Turn, TypeOK, ghostVars
<1> QED
  BY <1>1, <1>2, <1>3, <1>4, <1>5, <1>6, <1>7, <1>8, <1>9 DEF Next, Client

LEMMA InitType ==
  ASSUME Init
  PROVE  TypeOK
<1>1. 0 \in Slots
  BY MaxSlotAssumption DEF Slots
<1>2. RowsOf(index) \in SUBSET Keys
  BY RowsAreKeys DEF Init
<1> QED
  BY <1>1, <1>2 DEF Init, TypeOK

-----------------------------------------------------------------------------
(* The steps of the walk.                                                    *)

\* What a writer does is no more than to take rows away from what is owed.
LEMMA WriteParts ==
  ASSUME TypeOK, WalkParts, AcceptWrite \/ CommitWrite
  PROVE  WalkParts'
<1>1. /\ steady' = steady \cap RowsOf(index')
      /\ due' \subseteq RowsOf(index')
      /\ told # NoSlot => due' \subseteq due
      /\ UNCHANGED <<pc, from, size, cursor, page, walk, told>>
  BY DEF AcceptWrite, CommitWrite, Write, clientVars
<1>2. pc \notin {"idle", "failed"} => Owed(steady)'
  BY <1>1 DEF WalkParts, Owed, Received
<1>3. walk # <<>> /\ pc # "failed" => Owed(due)'
  BY <1>1 DEF WalkParts, Owed, Received
<1>4. WalkAscends'
  BY <1>1 DEF WalkParts, WalkAscends
<1>5. RowsOf(index)' = RowsOf(index')
  BY DEF RowsOf
<1> QED
  BY <1>1, <1>2, <1>3, <1>4, <1>5 DEF WalkParts

\* A walk begins with nothing received and everything still to come.
LEMMA AskParts ==
  ASSUME TypeOK, WalkParts, NEW tables \in SUBSET Tables, tables # {},
         NEW n \in PageSizes, Ask(tables, n)
  PROVE  WalkParts'
<1>1. /\ pc = "idle" /\ pc' = "read" /\ from' = tables /\ size' = PageSize(n)
      /\ cursor' = NoCursor /\ steady' = Asked(RowsOf(index), tables)
      /\ UNCHANGED <<index, slot, page, walk, told, due>>
  BY DEF Ask
<1>2. walk = <<>> /\ told = NoSlot
  BY <1>1 DEF WalkParts
<1>3. size' \in 1..MaxResults /\ MaxResults \in Nat
  BY <1>1, SizesAssumption, SizeFacts
<1>4. RowsOf(index) \in SUBSET Keys /\ RowsOf(index)' = RowsOf(index)
  BY <1>1, RowsAreKeys DEF TypeOK, RowsOf
<1>5. \A k \in steady' : TableOf[k[2]] \in tables /\ ~Before(k, NoCursor) /\ k \in RowsOf(index)
  <2>1. \A k \in Keys : ~Before(k, NoCursor)
    BY KeyFacts, BeforeOrder
  <2> QED
    BY <1>1, <1>4, <2>1 DEF Asked
<1>6. Owed(steady)'
  BY <1>1, <1>5 DEF Owed
<1>7. WalkAscends'
  BY <1>1 DEF WalkParts, WalkAscends
<1> QED
  BY <1>1, <1>2, <1>3, <1>4, <1>5, <1>6, <1>7 DEF WalkParts

\* The next page is asked for from the cursor on, with a size that limits it.
LEMMA TurnParts ==
  ASSUME TypeOK, WalkParts, NEW n \in CursorSizes, n # 0, Turn(n)
  PROVE  WalkParts'
<1>1. /\ pc = "turn" /\ pc' = "read" /\ size' = CursorSize(n)
      /\ UNCHANGED <<index, slot, from, cursor, page, walk, told, steady, due>>
  BY DEF Turn, ghostVars
<1>2. size' \in 1..MaxResults /\ MaxResults \in Nat
  <2>1. n \in Nat /\ MaxResults \in Nat
    BY SizesAssumption
  <2> QED
    BY <1>1, <2>1, SizeFacts
<1>3. Owed(steady)' /\ (walk # <<>> => Owed(due)')
  BY <1>1 DEF WalkParts, Owed, Received
<1>4. WalkAscends'
  BY <1>1 DEF WalkParts, WalkAscends
<1>5. RowsOf(index)' = RowsOf(index)
  BY <1>1 DEF RowsOf
<1> QED
  BY <1>1, <1>2, <1>3, <1>4, <1>5 DEF WalkParts

\* A page is appended to the walk: its rows come after those received before,
\* and what is owed is among them or at the new cursor or beyond it.
LEMMA ReadParts ==
  ASSUME TypeOK, WalkParts, Read
  PROVE  WalkParts'
<1> DEFINE pg == InOrder(PageSet)
           next == LastOf(Results)
<1>1. /\ pc = "read" /\ Results # {} /\ page' = pg /\ walk' = walk \o pg
      /\ cursor' = CursorOf(Results)
      /\ pc' = IF cursor' = NoCursor THEN "done" ELSE "turn"
      /\ told' = IF told = NoSlot THEN slot ELSE told
      /\ due' = IF told = NoSlot THEN Asked(due, from) ELSE due
      /\ UNCHANGED <<index, slot, from, size, steady>>
  BY PageType DEF Read, TellSlot, EndRequest
<1>2. /\ size > 0 /\ from # {} /\ size \in Nat
      /\ \A n \in DOMAIN walk : Before(walk[n], cursor)
      /\ WalkAscends
      /\ steady \subseteq RowsOf(index) /\ due \subseteq RowsOf(index)
      /\ told = NoSlot => walk = <<>> /\ cursor = NoCursor
      /\ told # NoSlot => walk # <<>>
      /\ Owed(steady) /\ (walk # <<>> => Owed(due))
  BY <1>1 DEF WalkParts, TypeOK
<1>3. /\ PageSet \in SUBSET Matching /\ Matching \in SUBSET Keys
      /\ Cardinality(PageSet) <= size
      /\ ~HasNext(Results) => PageSet = Matching
      /\ HasNext(Results) =>
           /\ next \in Matching
           /\ \A k \in PageSet : Before(k, next)
           /\ \A k \in Matching \ PageSet : ~Before(k, next)
      /\ PageSet # {} /\ PageSet \in SUBSET Keys
  BY <1>1, <1>2, PageFacts
<1>4. /\ pg \in Seq(Keys) /\ Len(pg) = Cardinality(PageSet) /\ Len(pg) \in Nat
      /\ \A n \in 1..Len(pg) : pg[n] \in PageSet
      /\ \A k \in PageSet : \E n \in 1..Len(pg) : pg[n] = k
      /\ \A m, n \in 1..Len(pg) : m < n => Before(pg[m], pg[n])
  BY <1>3, InOrderFacts
<1>5. walk \in Seq(Keys) /\ cursor \in Keys \cup {NoCursor} /\ slot # NoSlot
  BY MaxSlotAssumption DEF TypeOK, Slots, NoSlot
<1>6. \A k \in Matching : ~Before(k, cursor) /\ (k = cursor \/ Before(cursor, k))
  BY <1>3, <1>5, KeyFacts, BeforeOrder DEF Matching
<1>7. \A n \in DOMAIN walk, k \in Matching : Before(walk[n], k)
  BY <1>2, <1>3, <1>5, <1>6, BeforeOrder
<1> HIDE DEF pg, next
<1>8. /\ DOMAIN walk' = 1..(Len(walk) + Len(pg)) /\ Len(walk) \in Nat
      /\ DOMAIN walk = 1..Len(walk)
      /\ \A n \in 1..Len(walk) : walk'[n] = walk[n]
      /\ \A n \in 1..Len(pg) : walk'[Len(walk) + n] = pg[n]
      /\ walk' # <<>>
  <2>1. pg # <<>>
    BY <1>3, <1>4
  <2> QED
    BY <1>1, <1>4, <1>5, <2>1
<1>9. ASSUME NEW n \in DOMAIN walk', n \notin DOMAIN walk
      PROVE  /\ n - Len(walk) \in 1..Len(pg) /\ walk'[n] = pg[n - Len(walk)]
             /\ walk'[n] \in PageSet
  <2>1. n - Len(walk) \in 1..Len(pg) /\ n = Len(walk) + (n - Len(walk))
    BY <1>4, <1>8, <1>9
  <2> QED
    BY <1>4, <1>8, <2>1
<1>10. WalkAscends'
  <2>1. SUFFICES ASSUME NEW m \in DOMAIN walk', NEW n \in DOMAIN walk', m < n
                 PROVE  Before(walk'[m], walk'[n])
    BY DEF WalkAscends
  <2>2. CASE n \in DOMAIN walk
    <3>1. m \in DOMAIN walk
      BY <1>4, <1>8, <2>1, <2>2
    <3> QED
      BY <1>2, <1>8, <2>1, <2>2, <3>1 DEF WalkAscends
  <2>3. CASE m \in DOMAIN walk /\ n \notin DOMAIN walk
    BY <1>3, <1>7, <1>8, <1>9, <2>3
  <2>4. CASE m \notin DOMAIN walk /\ n \notin DOMAIN walk
    <3>1. m - Len(walk) < n - Len(walk)
      BY <1>4, <1>8, <2>1
    <3> QED
      BY <1>4, <1>9, <2>4, <3>1
  <2> QED
    BY <2>2, <2>3, <2>4
<1>11. \A k : Received(k)' <=> Received(k) \/ k \in PageSet
  <2>1. ASSUME NEW k, Received(k)' PROVE Received(k) \/ k \in PageSet
    BY <1>8, <1>9, <2>1 DEF Received
  <2>2. ASSUME NEW k, Received(k) PROVE Received(k)'
    <3>1. PICK n \in DOMAIN walk : walk[n] = k
      BY <2>2 DEF Received
    <3>2. n \in DOMAIN walk' /\ walk'[n] = k
      BY <1>4, <1>8, <3>1
    <3> QED
      BY <3>2 DEF Received
  <2>3. ASSUME NEW k \in PageSet PROVE Received(k)'
    <3>1. PICK n \in 1..Len(pg) : pg[n] = k
      BY <1>4
    <3>2. Len(walk) + n \in DOMAIN walk' /\ walk'[Len(walk) + n] = k
      BY <1>4, <1>8, <3>1
    <3> QED
      BY <3>2 DEF Received
  <2> QED
    BY <2>1, <2>2, <2>3
<1>12. /\ HasNext(Results) => cursor' = next /\ pc' = "turn" /\ cursor' # NoCursor
       /\ ~HasNext(Results) => cursor' = NoCursor /\ pc' = "done"
  BY <1>1, <1>3, KeyFacts, BeforeOrder DEF CursorOf, next
<1>13. pc' = "turn" => \A n \in DOMAIN walk' : Before(walk'[n], cursor')
  BY <1>3, <1>7, <1>8, <1>9, <1>12
<1>14. ASSUME NEW k \in Matching
       PROVE  Received(k)' \/ (pc' = "turn" /\ ~Before(k, cursor'))
  BY <1>3, <1>11, <1>12, <1>14
<1>15. Owed(steady)'
  BY <1>1, <1>2, <1>11, <1>14 DEF Owed, Matching
<1>16. Owed(due)'
  <2>1. CASE told = NoSlot
    <3>1. \A k \in due' : k \in Matching /\ TableOf[k[2]] \in from
      <4>1. \A k \in Keys : ~Before(k, NoCursor)
        BY KeyFacts, BeforeOrder
      <4>2. RowsOf(index) \in SUBSET Keys
        BY RowsAreKeys DEF TypeOK
      <4> QED
        BY <1>1, <1>2, <2>1, <4>1, <4>2 DEF Asked, Matching
    <3> QED
      BY <1>1, <1>14, <3>1 DEF Owed
  <2>2. CASE told # NoSlot
    BY <1>1, <1>2, <1>11, <1>14, <2>2 DEF Owed, Matching
  <2> QED
    BY <2>1, <2>2
<1>17. steady' \subseteq RowsOf(index') /\ due' \subseteq RowsOf(index') /\ told' # NoSlot
  BY <1>1, <1>2, <1>5 DEF Asked
<1>18. RowsOf(index)' = RowsOf(index')
  BY DEF RowsOf
<1> QED
  BY <1>1, <1>2, <1>8, <1>10, <1>12, <1>13, <1>15, <1>16, <1>17, <1>18
  DEF WalkParts

\* An empty page: nothing was left to come.
LEMMA ReadNothingParts ==
  ASSUME TypeOK, WalkParts, ReadNothing
  PROVE  WalkParts'
<1>1. /\ pc = "read" /\ Results = {} /\ pc' = "status" /\ page' = <<>> /\ cursor' = NoCursor
      /\ UNCHANGED <<index, slot, from, size, walk, told, steady, due>>
  BY DEF ReadNothing, ghostVars
<1>2. size > 0 /\ from # {}
  BY <1>1 DEF WalkParts
<1>3. Matching = {}
  BY <1>1, <1>2, PageFacts
<1>4. ASSUME NEW S \in SUBSET RowsOf(index), Owed(S)
      PROVE  \A k \in S : TableOf[k[2]] \in from /\ Received(k)
  BY <1>1, <1>3, <1>4 DEF Owed, Matching
<1>5. Owed(steady)' /\ (walk # <<>> => Owed(due)')
  BY <1>1, <1>4 DEF WalkParts, Owed, Received
<1>6. WalkAscends'
  BY <1>1, SizesAssumption DEF WalkParts, WalkAscends
<1>7. RowsOf(index)' = RowsOf(index)
  BY <1>1 DEF RowsOf
<1> QED
  BY <1>1, <1>5, <1>6, <1>7 DEF WalkParts

\* The slot of an empty page, or none: the walk is over.
LEMMA StatusParts ==
  ASSUME TypeOK, WalkParts, ReadStatus \/ StatusFails
  PROVE  WalkParts'
<1>1. /\ pc = "status" /\ pc' = IF cursor = NoCursor THEN "done" ELSE "turn"
      /\ told = NoSlot => told' # NoSlot /\ due' \subseteq due
      /\ told # NoSlot => told' = told /\ due' = due
      /\ UNCHANGED <<index, from, size, cursor, page, walk, steady>>
  <2>1. slot # NoSlot /\ 0 # NoSlot
    BY MaxSlotAssumption DEF TypeOK, Slots, NoSlot
  <2> QED
    BY <2>1 DEF ReadStatus, StatusFails, TellSlot, EndRequest, Asked
<1>2. pc' = "done" /\ told' # NoSlot
  BY <1>1 DEF WalkParts
<1>3. Owed(steady)'
  BY <1>1, <1>2 DEF WalkParts, Owed, Received
<1>4. walk # <<>> => Owed(due)'
  BY <1>1, <1>2 DEF WalkParts, Owed, Received
<1>5. WalkAscends'
  BY <1>1 DEF WalkParts, WalkAscends
<1>6. RowsOf(index)' = RowsOf(index) /\ due' \subseteq RowsOf(index)
  BY <1>1 DEF RowsOf, WalkParts
<1> QED
  BY <1>1, <1>2, <1>3, <1>4, <1>5, <1>6 DEF WalkParts

\* A failing query ends the walk; a walk that is over stays as it is.
LEMMA EndParts ==
  ASSUME TypeOK, WalkParts, ReadFails \/ Terminating \/ UNCHANGED vars
  PROVE  WalkParts'
<1>1. /\ UNCHANGED <<index, from, size, cursor, page, walk, told, steady, due>>
      /\ pc' = pc \/ pc' = "failed"
  BY DEF ReadFails, Terminating, vars, clientVars, ghostVars
<1>2. WalkAscends'
  BY <1>1 DEF WalkParts, WalkAscends
<1>3. RowsOf(index)' = RowsOf(index)
  BY <1>1 DEF RowsOf
<1>4. CASE pc' = "failed"
  BY <1>1, <1>2, <1>3, <1>4 DEF WalkParts
<1>5. CASE pc' = pc
  BY <1>1, <1>2, <1>3, <1>5 DEF WalkParts, Owed, Received
<1> QED
  BY <1>1, <1>4, <1>5

LEMMA InitParts ==
  ASSUME Init
  PROVE  WalkParts
<1>1. walk = <<>> /\ page = <<>> /\ DOMAIN walk = {} /\ Len(page) = 0
  BY DEF Init
<1>2. WalkAscends
  BY <1>1 DEF WalkAscends
<1> QED
  BY <1>1, <1>2, SizesAssumption DEF Init, WalkParts

LEMMA NextParts ==
  ASSUME TypeOK, WalkParts, 0 \notin CursorSizes, [Next]_vars
  PROVE  WalkParts'
<1>1. CASE \E tables \in (SUBSET Tables) \ {{}}, n \in PageSizes : Ask(tables, n)
  <2>1. PICK tables \in (SUBSET Tables) \ {{}}, n \in PageSizes : Ask(tables, n)
    BY <1>1
  <2>2. tables \in SUBSET Tables /\ tables # {}
    BY <2>1
  <2> QED
    BY <2>1, <2>2, AskParts
<1>2. ASSUME NEW n \in CursorSizes, Turn(n) PROVE WalkParts'
  BY <1>2, TurnParts
<1> QED
  BY <1>1, <1>2, WriteParts, ReadParts, ReadNothingParts, StatusParts, EndParts
  DEF Next, Client

-----------------------------------------------------------------------------
(* The theorems.                                                             *)

\* As long as clients return cursors with a page size, what a client has received
\* lies before its cursor, in order, and every row it is owed it has received or
\* will meet at the cursor or beyond it, whatever is written meanwhile.
THEOREM WalkInvariance == Spec => []WalkInv
<1>1. Init => WalkInv
  BY InitType, InitParts DEF WalkInv
<1>2. WalkInv /\ [Next]_vars => WalkInv'
  BY NextType, NextParts DEF WalkInv
<1> QED
  BY <1>1, <1>2, PTL DEF Spec

\* A walk over the pages of one table or of several neither misses nor
\* repeats a row that is there from its first page to its last, although rows
\* come and go between the pages and the page size changes.
THEOREM WalksAreComplete ==
  ASSUME 0 \notin CursorSizes
  PROVE  Spec => []WalkIsComplete
<1>1. ASSUME WalkInv PROVE WalkIsComplete
  <2>1. SUFFICES ASSUME pc = "done", NEW k \in steady
                 PROVE  Cardinality({n \in DOMAIN walk : walk[n] = k}) = 1
    BY DEF WalkIsComplete
  <2>2. /\ walk \in Seq(Keys) /\ WalkAscends /\ Owed(steady)
    BY <1>1, <2>1 DEF WalkInv, WalkParts, TypeOK
  <2>3. PICK n \in DOMAIN walk : walk[n] = k
    BY <2>1, <2>2 DEF Owed, Received
  <2>4. \A m \in DOMAIN walk : m \in Nat /\ walk[m] \in Keys
    BY <2>2
  <2>5. ASSUME NEW m \in DOMAIN walk, walk[m] = k PROVE m = n
    <3>1. ~Before(k, k)
      BY <2>3, <2>4, BeforeOrder
    <3>2. ~(m < n) /\ ~(n < m)
      BY <2>2, <2>3, <2>5, <3>1 DEF WalkAscends
    <3> QED
      BY <2>4, <3>2
  <2>6. {m \in DOMAIN walk : walk[m] = k} = {n}
    BY <2>3, <2>5
  <2> QED
    BY <2>6, FS_Singleton
<1> QED
  BY <1>1, WalkInvariance, PTL

\* The rows of a walk ascend, across its pages.
THEOREM WalksAscend ==
  ASSUME 0 \notin CursorSizes
  PROVE  Spec => []WalkAscends
<1>1. WalkInv => WalkAscends
  BY DEF WalkInv, WalkParts
<1> QED
  BY <1>1, WalkInvariance, PTL

\* A walk whose first page has rows has everything that was there with the commit
\* of the slot that page tells and stays: the rows and the slot are of one
\* statement.
THEOREM PagesCoverTheirSlot ==
  ASSUME 0 \notin CursorSizes
  PROVE  Spec => []PagesCoverSlot
<1>1. WalkInv => PagesCoverSlot
  BY DEF WalkInv, WalkParts, PagesCoverSlot, AnswersCoverSlot, Owed, Received
<1> QED
  BY <1>1, WalkInvariance, PTL
=============================================================================
