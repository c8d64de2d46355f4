------------------------- MODULE MultiAddressProofs -------------------------
(* What holds of the reference counters of Indexer, whatever the number of   *)
(* references: they are exact, and no row is deleted too early, as long as   *)
(* no output holds two different addresses and no update consumes what it    *)
(* creates. (The run two_addresses shows the first condition is needed.)     *)
EXTENDS ViewProofs

-----------------------------------------------------------------------------
(* Sums of references.                                                       *)

\* One more output adds its references.
LEMMA ReferencesGrow ==
  ASSUME NEW S \in SUBSET Outputs, NEW o \in Outputs, o \notin S, NEW a \in Addrs
  PROVE  References(S \cup {o}, a) = References(S, a) + Holds[o][a]
<1> DEFINE its == {o} \X (1..Holds[o][a])
<1>1. Holds[o][a] \in Nat
  BY HoldsAssumption
<1>2. IsFiniteSet(its) /\ Cardinality(its) = Holds[o][a]
  BY <1>1, Numbered
<1>3. IsFiniteSet(Referring(S, a)) /\ References(S, a) \in Nat
  BY ReferencesType
<1>4. Referring(S \cup {o}, a) = Referring(S, a) \cup its
  BY DEF Referring
<1>5. Referring(S, a) \cap its = {}
  <2>1. ASSUME NEW p \in Referring(S, a), p \in its PROVE FALSE
    <3>1. PICK q \in S : p \in {q} \X (1..Holds[q][a])
      BY DEF Referring
    <3>2. p[1] = q /\ p[1] = o
      BY <2>1, <3>1
    <3> QED
      BY <3>2
  <2> QED
    BY <2>1
<1>6. Cardinality(Referring(S, a) \cup its)
        = Cardinality(Referring(S, a)) + Cardinality(its) - Cardinality({})
  BY <1>2, <1>3, <1>5, FS_Union
<1>7. Cardinality({}) = 0
  BY FS_EmptySet
<1>8. /\ References(S, a) = Cardinality(Referring(S, a))
      /\ References(S \cup {o}, a) = Cardinality(Referring(S \cup {o}, a))
  BY DEF References, Referring
<1> HIDE DEF its
<1>9. References(S \cup {o}, a) = Cardinality(Referring(S, a) \cup its)
  BY <1>4, <1>8
<1>10. References(S \cup {o}, a) = References(S, a) + Holds[o][a] - 0
  BY <1>2, <1>6, <1>7, <1>8, <1>9
<1> QED
  BY <1>1, <1>3, <1>10

\* One output less takes its references, which were counted.
LEMMA ReferencesShrink ==
  ASSUME NEW S \in SUBSET Outputs, NEW o \in S, NEW a \in Addrs
  PROVE  /\ References(S \ {o}, a) = References(S, a) - Holds[o][a]
         /\ References(S, a) \in Nat /\ Holds[o][a] \in Nat
         /\ References(S, a) >= Holds[o][a]
<1> DEFINE R == S \ {o}
<1>1. References(R \cup {o}, a) = References(R, a) + Holds[o][a]
  BY ReferencesGrow
<1>2. R \cup {o} = S
  OBVIOUS
<1>3. References(R, a) \in Nat /\ References(S, a) \in Nat /\ Holds[o][a] \in Nat
  BY ReferencesType, HoldsAssumption
<1> HIDE DEF R
<1>4. References(R, a) = References(S, a) - Holds[o][a]
  BY <1>1, <1>2, <1>3
<1> QED
  BY <1>1, <1>2, <1>3, <1>4 DEF R

\* Outputs that do not hold an address have no reference to it.
LEMMA ReferencesNone ==
  ASSUME NEW S \in SUBSET Outputs, NEW a \in Addrs, \A o \in S : a \notin Held(o)
  PROVE  References(S, a) = 0
<1>1. ASSUME NEW o \in S PROVE 1..Holds[o][a] = {}
  <2>1. Holds[o][a] \in Nat /\ ~(Holds[o][a] > 0)
    BY HoldsAssumption DEF Held
  <2> QED
    BY <2>1
<1>2. Referring(S, a) = {}
  BY <1>1 DEF Referring
<1> QED
  BY <1>2, FS_EmptySet DEF References, Referring

\* The references of an output with one address are those on it.
LEMMA OneTotal ==
  ASSUME OneAddress, NEW o \in Outputs, NEW h \in Held(o)
  PROVE  Total(o) = Holds[o][h] /\ h \in Addrs /\ Holds[o][h] \in Nat
<1>1. h \in Addrs /\ \A a \in Addrs : Holds[o][a] \in Nat
  BY HoldsAssumption DEF Held
<1>2. ASSUME NEW a \in Addrs, a # h PROVE 1..Holds[o][a] = {}
  <2>1. ~(Holds[o][a] > 0)
    BY <1>2 DEF OneAddress, Held
  <2> QED
    BY <2>1, <1>1
<1>3. UNION {{a} \X (1..Holds[o][a]) : a \in Addrs} = {h} \X (1..Holds[o][h])
  BY <1>1, <1>2
<1> QED
  BY <1>1, <1>3, Numbered DEF Total

-----------------------------------------------------------------------------
(* The statements, on one counter.                                           *)

\* The loop over an output's one address adds its references once.
LEMMA UpsertOne ==
  ASSUME OneAddress, NEW t \in AddrTables, NEW o \in Outputs, NEW sign \in Int,
         NEW c \in BOOLEAN, NEW u \in UpsertResults(t, o, sign, c), NEW a \in Addrs
  PROVE  u[a] = IF a \notin Held(o) THEN t[a]
                ELSE IF t[a] = NoEntry THEN Fresh(Holds[o][a], c)
                ELSE Bump(t[a], sign * Holds[o][a], c)
<1>1. CASE Held(o) = {}
  BY <1>1 DEF UpsertResults
<1>2. CASE Held(o) # {}
  <2>1. PICK first \in Held(o) : u = Upserted(t, o, first, sign, c)
    BY <1>2 DEF UpsertResults
  <2>2. /\ \A h \in Held(o) : h = first
        /\ Total(o) = Holds[o][first]
        /\ first \in Addrs /\ Holds[o][first] \in Nat
    BY OneTotal DEF OneAddress
  <2> DEFINE rest == sign * (Total(o) - Holds[o][first])
             all  == sign * Total(o)
  <2>3. rest = 0 /\ all = sign * Holds[o][first]
    BY <2>2
  <2>4. u[a] = CASE a \notin Held(o) -> t[a]
                 [] a \in Held(o) /\ t[a] = NoEntry ->
                      Bump(Fresh(Holds[o][a], c), rest, c)
                 [] OTHER -> Bump(t[a], all, c)
    BY <2>1 DEF Upserted
  <2> HIDE DEF rest, all
  <2>5. CASE a \notin Held(o)
    BY <2>4, <2>5
  <2>6. CASE a \in Held(o) /\ t[a] = NoEntry
    <3>1. Fresh(Holds[o][a], c) \in Entry
      BY <2>2, <2>6 DEF Fresh, Bump, Entry
    <3>2. \A e \in Entry : Bump(e, 0, c) = e
      BY DEF Bump, Entry
    <3> QED
      BY <2>3, <2>4, <2>6, <3>1, <3>2
  <2>7. CASE a \in Held(o) /\ t[a] # NoEntry
    <3>1. a = first
      BY <2>2, <2>7
    <3>2. u[a] = Bump(t[a], all, c)
      BY <2>4, <2>7
    <3> QED
      BY <2>3, <2>7, <3>1, <3>2
  <2> QED
    BY <2>5, <2>6, <2>7
<1> QED
  BY <1>1, <1>2

-----------------------------------------------------------------------------
(* The statements, on counters that are right.                               *)

\* The counters of one address.
Right(t, u, a) ==
  IF u[a] = NoEntry THEN \A o \in Stored(t) : a \notin Held(o)
  ELSE /\ u[a].ref = References(Committed(t), a)
       /\ u[a].unc >= 0
       /\ \A o \in Stored(t) \ Committed(t) : a \in Held(o) => u[a].unc > 0

LEMMA CountedIsRight ==
  ASSUME NEW t, NEW u
  PROVE  Counted(t, u) <=> \A a \in Addrs : Right(t, u, a)
BY DEF Counted, Right

\* What an entry is, and how many references an output holds on an address.
LEMMA Counters ==
  ASSUME NEW u \in AddrTables, NEW a \in Addrs, NEW o \in Outputs
  PROVE  /\ u[a] # NoEntry => u[a] \in Entry /\ u[a].ref \in Int /\ u[a].unc \in Int
         /\ Holds[o][a] \in Nat
         /\ a \in Held(o) => Holds[o][a] > 0
         /\ a \notin Held(o) => Holds[o][a] = 0
BY HoldsAssumption DEF AddrTables, Entry, Held

\* The committed outputs are outputs.
LEMMA CommittedOutputs ==
  ASSUME NEW t
  PROVE  /\ Stored(t) \in SUBSET Outputs
         /\ Committed(t) \in SUBSET Outputs
         /\ Committed(t) \subseteq Stored(t)
BY DEF Stored, Committed

\* An address without committed references is held by no committed row.
LEMMA NoReferences ==
  ASSUME NEW t, NEW u, NEW a \in Addrs, Right(t, u, a), u[a] # NoEntry, u[a].ref = 0
  PROVE  \A o \in Committed(t) : a \notin Held(o)
<1>1. SUFFICES ASSUME NEW o \in Committed(t), a \in Held(o)
               PROVE  FALSE
  OBVIOUS
<1>2. Holds[o][a] > 0
  BY <1>1 DEF Held
<1>3. /\ References(Committed(t), a) \in Nat /\ Holds[o][a] \in Nat
      /\ References(Committed(t), a) >= Holds[o][a]
  BY CommittedOutputs, ReferencesShrink
<1>4. References(Committed(t), a) = 0
  BY DEF Right
<1> QED
  BY <1>2, <1>3, <1>4

\* Losing uncommitted rows, or marks, leaves the counters right.
LEMMA CountedLess ==
  ASSUME NEW t, NEW w, NEW u, Counted(t, u),
         Committed(w) = Committed(t), Stored(w) \subseteq Stored(t)
  PROVE  Counted(w, u)
BY DEF Counted

\* The upsert of a committed output, with its committed references.
LEMMA CountedUpsert ==
  ASSUME OneAddress, NEW t \in Tables, NEW u \in AddrTables, Counted(t, u),
         NEW o \in Outputs, o \notin Committed(t), NEW s \in Nat,
         NEW v \in InsertReferences(u, o, TRUE)
  PROVE  Counted(UpsertCommitted(t, o, s), v)
<1> DEFINE w == UpsertCommitted(t, o, s)
<1>1. Committed(w) = Committed(t) \cup {o}
  BY UpsertLemma
<1>2. Stored(w) \subseteq Stored(t) \cup {o}
  BY DEF UpsertCommitted, Stored, Tables
<1> HIDE DEF w
<1>3. ASSUME NEW a \in Addrs
      PROVE  Right(w, v, a)
  <2>1. Right(t, u, a)
    BY CountedIsRight
  <2>2. v[a] = IF a \notin Held(o) THEN u[a]
               ELSE IF u[a] = NoEntry THEN Fresh(Holds[o][a], TRUE)
               ELSE Bump(u[a], 1 * Holds[o][a], TRUE)
    <3> DEFINE plus == 1
    <3>1. v \in UpsertResults(u, o, plus, TRUE)
      BY DEF InsertReferences
    <3>2. plus \in Int
      OBVIOUS
    <3> HIDE DEF plus
    <3>3. v[a] = IF a \notin Held(o) THEN u[a]
                 ELSE IF u[a] = NoEntry THEN Fresh(Holds[o][a], TRUE)
                 ELSE Bump(u[a], plus * Holds[o][a], TRUE)
      BY <3>1, <3>2, UpsertOne
    <3> QED
      BY <3>3 DEF plus
  <2>3. References(Committed(w), a) = References(Committed(t), a) + Holds[o][a]
    BY <1>1, CommittedOutputs, ReferencesGrow
  <2>4. References(Committed(t), a) \in Nat
    BY CommittedOutputs, ReferencesType
  <2>5. /\ Holds[o][a] \in Nat
        /\ a \in Held(o) => Holds[o][a] > 0
        /\ a \notin Held(o) => Holds[o][a] = 0
        /\ u[a] # NoEntry => u[a] \in Entry /\ u[a].ref \in Int /\ u[a].unc \in Int
    BY Counters
  <2>6. CASE a \notin Held(o)
    <3>1. v[a] = u[a] /\ References(Committed(w), a) = References(Committed(t), a)
      BY <2>2, <2>3, <2>4, <2>5, <2>6
    <3> QED
      BY <3>1, <2>1, <2>6, <1>1, <1>2 DEF Right
  <2>7. CASE a \in Held(o) /\ u[a] = NoEntry
    <3>1. v[a] = [ref |-> Holds[o][a], unc |-> 0]
      BY <2>2, <2>5, <2>7 DEF Fresh, Bump
    <3>2. v[a] # NoEntry
      BY <3>1, <2>5, NoEntryAssumption DEF Entry
    <3>3. \A p \in Stored(t) : a \notin Held(p)
      BY <2>1, <2>7 DEF Right
    <3>4. References(Committed(t), a) = 0
      BY <3>3, CommittedOutputs, ReferencesNone
    <3>5. v[a].ref = References(Committed(w), a) /\ v[a].unc = 0
      BY <3>1, <3>4, <2>3, <2>5
    <3>6. \A p \in Stored(w) \ Committed(w) : a \notin Held(p)
      BY <3>3, <1>1, <1>2
    <3> QED
      BY <3>2, <3>5, <3>6 DEF Right
  <2>8. CASE a \in Held(o) /\ u[a] # NoEntry
    <3>1. v[a] = [u[a] EXCEPT !.ref = @ + Holds[o][a]]
      BY <2>2, <2>5, <2>8 DEF Bump
    <3>2. v[a] \in Entry /\ v[a].ref = u[a].ref + Holds[o][a] /\ v[a].unc = u[a].unc
      BY <3>1, <2>5, <2>8 DEF Entry
    <3>3. v[a] # NoEntry
      BY <3>2, NoEntryAssumption
    <3>4. /\ u[a].ref = References(Committed(t), a) /\ u[a].unc >= 0
          /\ \A p \in Stored(t) \ Committed(t) : a \in Held(p) => u[a].unc > 0
      BY <2>1, <2>8 DEF Right
    <3>5. v[a].ref = References(Committed(w), a)
      BY <3>2, <3>4, <2>3
    <3>6. \A p \in Stored(w) \ Committed(w) : a \in Held(p) => v[a].unc > 0
      BY <3>2, <3>4, <1>1, <1>2
    <3> QED
      BY <3>2, <3>3, <3>4, <3>5, <3>6 DEF Right
  <2> QED
    BY <2>6, <2>7, <2>8
<1>4. Counted(w, v)
  BY <1>3, CountedIsRight
<1> QED
  BY <1>4 DEF w

\* The insertion of an accepted output, with its uncommitted references.
LEMMA CountedInsert ==
  ASSUME OneAddress, NEW t \in Tables, NEW u \in AddrTables, Counted(t, u),
         NEW o \in Outputs, t[o] = NoRow, NEW s \in Nat,
         NEW v \in InsertReferences(u, o, FALSE)
  PROVE  Counted(InsertRow(t, o, s), v)
<1> DEFINE w == InsertRow(t, o, s)
<1>1. Committed(w) = Committed(t)
  BY InsertRowLemma
<1>2. Stored(w) \subseteq Stored(t) \cup {o}
  BY DEF InsertRow, Stored, Tables
<1> HIDE DEF w
<1>3. ASSUME NEW a \in Addrs
      PROVE  Right(w, v, a)
  <2>1. Right(t, u, a)
    BY CountedIsRight
  <2>2. v[a] = IF a \notin Held(o) THEN u[a]
               ELSE IF u[a] = NoEntry THEN Fresh(Holds[o][a], FALSE)
               ELSE Bump(u[a], 1 * Holds[o][a], FALSE)
    <3> DEFINE plus == 1
    <3>1. v \in UpsertResults(u, o, plus, FALSE)
      BY DEF InsertReferences
    <3>2. plus \in Int
      OBVIOUS
    <3> HIDE DEF plus
    <3>3. v[a] = IF a \notin Held(o) THEN u[a]
                 ELSE IF u[a] = NoEntry THEN Fresh(Holds[o][a], FALSE)
                 ELSE Bump(u[a], plus * Holds[o][a], FALSE)
      BY <3>1, <3>2, UpsertOne
    <3> QED
      BY <3>3 DEF plus
  <2>3. /\ Holds[o][a] \in Nat
        /\ a \in Held(o) => Holds[o][a] > 0
        /\ u[a] # NoEntry => u[a] \in Entry /\ u[a].ref \in Int /\ u[a].unc \in Int
    BY Counters
  <2>4. CASE a \notin Held(o)
    BY <2>1, <2>2, <2>4, <1>1, <1>2 DEF Right
  <2>5. CASE a \in Held(o) /\ u[a] = NoEntry
    <3>1. v[a] = [ref |-> 0, unc |-> 0 + Holds[o][a]]
      BY <2>2, <2>5 DEF Fresh, Bump
    <3>2. v[a] # NoEntry /\ v[a].ref = 0 /\ v[a].unc > 0
      BY <3>1, <2>3, <2>5, NoEntryAssumption DEF Entry
    <3>3. \A p \in Stored(t) : a \notin Held(p)
      BY <2>1, <2>5 DEF Right
    <3>4. References(Committed(w), a) = 0
      BY <3>3, <1>1, CommittedOutputs, ReferencesNone
    <3>5. v[a].unc \in Int /\ v[a].unc >= 0
      BY <3>1, <2>3
    <3> QED
      BY <3>2, <3>4, <3>5 DEF Right
  <2>6. CASE a \in Held(o) /\ u[a] # NoEntry
    <3>1. v[a] = [u[a] EXCEPT !.unc = @ + Holds[o][a]]
      BY <2>2, <2>3, <2>6 DEF Bump
    <3>2. v[a] \in Entry /\ v[a].ref = u[a].ref /\ v[a].unc = u[a].unc + Holds[o][a]
      BY <3>1, <2>3, <2>6 DEF Entry
    <3>3. v[a] # NoEntry
      BY <3>2, NoEntryAssumption
    <3>4. u[a].ref = References(Committed(t), a) /\ u[a].unc >= 0
      BY <2>1, <2>6 DEF Right
    <3>5. v[a].unc > 0 /\ v[a].unc >= 0
      BY <3>2, <3>4, <2>3, <2>6
    <3> QED
      BY <3>2, <3>3, <3>4, <3>5, <1>1 DEF Right
  <2> QED
    BY <2>4, <2>5, <2>6
<1>4. Counted(w, v)
  BY <1>3, CountedIsRight
<1> QED
  BY <1>4 DEF w

\* The deletion of a committed output, with its committed references: the rows
\* dropped at zero are of addresses no other row holds.
LEMMA CountedDelete ==
  ASSUME OneAddress, NEW t \in Tables, NEW u \in AddrTables, Counted(t, u),
         NEW o \in Committed(t), NEW v \in DeleteReferences(u, o)
  PROVE  Counted(DeleteRow(t, o), v)
<1> DEFINE w == DeleteRow(t, o)
<1>o. o \in Outputs /\ o \in Stored(t)
  BY CommittedOutputs
<1>1. Committed(w) = Committed(t) \ {o}
  BY <1>o, DeleteRowLemma
<1>2. Stored(w) = Stored(t) \ {o}
  BY DEF DeleteRow, Stored, Tables
<1> HIDE DEF w
<1>3. PICK x \in UpsertResults(u, o, -1, TRUE) :
        v = DropWhere(x, LAMBDA e : e.ref = 0 /\ e.unc = 0)
  BY DEF DeleteReferences
<1>4. ASSUME NEW a \in Addrs
      PROVE  Right(w, x, a)
  <2>1. Right(t, u, a)
    BY CountedIsRight
  <2>2. x[a] = IF a \notin Held(o) THEN u[a]
               ELSE IF u[a] = NoEntry THEN Fresh(Holds[o][a], TRUE)
               ELSE Bump(u[a], (-1) * Holds[o][a], TRUE)
    <3> DEFINE minus == -1
    <3>1. x \in UpsertResults(u, o, minus, TRUE)
      OBVIOUS
    <3>2. minus \in Int
      OBVIOUS
    <3> HIDE DEF minus
    <3>3. x[a] = IF a \notin Held(o) THEN u[a]
                 ELSE IF u[a] = NoEntry THEN Fresh(Holds[o][a], TRUE)
                 ELSE Bump(u[a], minus * Holds[o][a], TRUE)
      BY <1>o, <3>1, <3>2, UpsertOne
    <3> QED
      BY <3>3 DEF minus
  <2>3. /\ References(Committed(w), a) = References(Committed(t), a) - Holds[o][a]
        /\ References(Committed(t), a) \in Nat
    BY <1>1, CommittedOutputs, ReferencesShrink
  <2>4. /\ Holds[o][a] \in Nat
        /\ a \notin Held(o) => Holds[o][a] = 0
        /\ u[a] # NoEntry => u[a] \in Entry /\ u[a].ref \in Int /\ u[a].unc \in Int
    BY <1>o, Counters
  <2>5. CASE a \notin Held(o)
    <3>1. x[a] = u[a] /\ References(Committed(w), a) = References(Committed(t), a)
      BY <2>2, <2>3, <2>4, <2>5
    <3> QED
      BY <3>1, <2>1, <1>1, <1>2 DEF Right
  <2>6. CASE a \in Held(o)
    <3>1. u[a] # NoEntry
      BY <2>1, <2>6, <1>o DEF Right
    <3>2. x[a] = [u[a] EXCEPT !.ref = @ + (-1) * Holds[o][a]]
      BY <2>2, <2>6, <3>1 DEF Bump
    <3>3. x[a] \in Entry /\ x[a].ref = u[a].ref - Holds[o][a] /\ x[a].unc = u[a].unc
      BY <3>1, <3>2, <2>4 DEF Entry
    <3>4. x[a] # NoEntry
      BY <3>3, NoEntryAssumption
    <3>5. /\ u[a].ref = References(Committed(t), a) /\ u[a].unc >= 0
          /\ \A p \in Stored(t) \ Committed(t) : a \in Held(p) => u[a].unc > 0
      BY <2>1, <3>1 DEF Right
    <3>6. x[a].ref = References(Committed(w), a)
      BY <3>3, <3>5, <2>3
    <3>7. \A p \in Stored(w) \ Committed(w) : a \in Held(p) => x[a].unc > 0
      BY <3>3, <3>5, <1>1, <1>2
    <3> QED
      BY <3>3, <3>4, <3>5, <3>6, <3>7 DEF Right
  <2> QED
    BY <2>5, <2>6
<1>5. ASSUME NEW a \in Addrs
      PROVE  Right(w, v, a)
  <2>1. v[a] = IF x[a] # NoEntry /\ x[a].ref = 0 /\ x[a].unc = 0 THEN NoEntry ELSE x[a]
    BY <1>3 DEF DropWhere
  <2>2. Right(w, x, a)
    BY <1>4
  <2>3. CASE x[a] # NoEntry /\ x[a].ref = 0 /\ x[a].unc = 0
    <3>1. \A p \in Committed(w) : a \notin Held(p)
      BY <2>2, <2>3, NoReferences
    <3>2. \A p \in Stored(w) \ Committed(w) : a \notin Held(p)
      BY <2>2, <2>3 DEF Right
    <3> QED
      BY <2>1, <2>3, <3>1, <3>2 DEF Right
  <2>4. CASE ~(x[a] # NoEntry /\ x[a].ref = 0 /\ x[a].unc = 0)
    BY <2>1, <2>2, <2>4 DEF Right
  <2> QED
    BY <2>3, <2>4
<1>6. Counted(w, v)
  BY <1>5, CountedIsRight
<1> QED
  BY <1>6 DEF w

\* Among committed rows only, the rows with uncommitted references alone are of
\* addresses no row holds.
LEMMA CountedResume ==
  ASSUME NEW t, NEW u \in AddrTables, Counted(t, u), Stored(t) = Committed(t)
  PROVE  Counted(t, DeleteOnlyUncommitted(u))
<1> DEFINE v == DeleteOnlyUncommitted(u)
<1>1. ASSUME NEW a \in Addrs
      PROVE  Right(t, v, a)
  <2>1. v[a] = IF u[a] # NoEntry /\ u[a].ref = 0 /\ u[a].unc > 0 THEN NoEntry ELSE u[a]
    BY DEF DeleteOnlyUncommitted, DropWhere
  <2> HIDE DEF v
  <2>2. Right(t, u, a)
    BY CountedIsRight
  <2>3. CASE u[a] # NoEntry /\ u[a].ref = 0 /\ u[a].unc > 0
    <3>1. \A p \in Committed(t) : a \notin Held(p)
      BY <2>2, <2>3, NoReferences
    <3> QED
      BY <2>1, <2>3, <3>1 DEF Right
  <2>4. CASE ~(u[a] # NoEntry /\ u[a].ref = 0 /\ u[a].unc > 0)
    BY <2>1, <2>2, <2>4 DEF Right
  <2> QED
    BY <2>3, <2>4
<1> HIDE DEF v
<1>2. Counted(t, v)
  BY <1>1, CountedIsRight
<1> QED
  BY <1>2 DEF v

\* What an import counts is right of the rows it writes.
LEMMA CountedImport ==
  ASSUME NEW t, NEW S \in SUBSET Outputs, Stored(t) = S, Committed(t) = S
  PROVE  Counted(t, ImportedAddrs(S))
<1> DEFINE v == ImportedAddrs(S)
<1>1. ASSUME NEW a \in Addrs
      PROVE  Right(t, v, a)
  <2>1. v[a] = IF \E o \in S : a \in Held(o)
               THEN [ref |-> References(S, a), unc |-> 0] ELSE NoEntry
    BY DEF ImportedAddrs
  <2> HIDE DEF v
  <2>2. References(S, a) \in Nat
    BY ReferencesType
  <2>3. [ref |-> References(S, a), unc |-> 0] # NoEntry
    BY <2>2, NoEntryAssumption DEF Entry
  <2> QED
    BY <2>1, <2>3 DEF Right
<1> HIDE DEF v
<1>2. Counted(t, v)
  BY <1>1, CountedIsRight
<1> QED
  BY <1>2 DEF v

-----------------------------------------------------------------------------
(* The invariant.                                                            *)

\* Where no update consumes what it creates, consumption is later than creation.
LEMMA SpentStep ==
  ASSUME IInv, Next, ~SameSlotSpends, \A o \in settled : booked[o] < spent[o]
  PROVE  \A o \in settled' : booked'[o] < spent'[o]
<1>t. NodeTypeOK /\ NodeInv
  BY DEF IInv, TypeOK
<1>1. CASE UNCHANGED <<settled, booked, spent>>
  BY <1>1
<1>2. CASE NodeAccepts
  <2>1. PICK r \in Slots, new \in SUBSET Outputs, old \in SUBSET Outputs :
          NodeAccept(r, new, old)
    BY <1>2 DEF NodeAccepts
  <2>2. settled' = settled
    BY <2>1 DEF NodeAccept
  <2>3. ASSUME NEW o \in settled
        PROVE  booked'[o] = booked[o] /\ spent'[o] = spent[o]
    <3>1. o \in confirmed /\ o \in Outputs /\ booked[o] \in 0..nodeSlot
          /\ spent[o] \in 0..nodeSlot
      BY <1>t DEF NodeInv, NodeTypeOK
    <3>2. booked[o] # NoSlot /\ spent[o] # NoSlot
      BY <3>1, <1>t DEF NodeTypeOK, Slots, NoSlot
    <3>3. o \notin new /\ o \notin old
      BY <2>1, <3>1, <3>2 DEF NodeAccept, Bookable, Alive
    <3> QED
      BY <2>1, <3>1, <3>3 DEF NodeAccept
  <2> QED
    BY <2>2, <2>3
<1>3. CASE NodeCommits
  <2>1. PICK new \in SUBSET Outputs, old \in SUBSET Outputs : NodeCommit(new, old)
    BY <1>3 DEF NodeCommits
  <2>2. settled' = settled \cup old
    BY <2>1 DEF NodeCommit
  <2>3. ASSUME NEW o \in settled
        PROVE  booked'[o] = booked[o] /\ spent'[o] = spent[o]
    <3>1. o \in confirmed /\ o \in Outputs
      BY <1>t DEF NodeInv, NodeTypeOK
    <3>2. o \notin new /\ o \notin old
      BY <2>1, <3>1 DEF NodeCommit
    <3> QED
      BY <2>1, <3>1, <3>2 DEF NodeCommit
  <2>4. ASSUME NEW o \in old
        PROVE  booked'[o] < spent'[o]
    <3>1. o \in confirmed /\ o \notin new
      BY <2>1 DEF NodeCommit
    <3>2. booked[o] \in 0..nodeSlot /\ nodeSlot \in Nat
      BY <3>1, <1>t DEF NodeInv, NodeTypeOK, Slots
    <3>3. booked'[o] = booked[o] /\ spent'[o] = nodeSlot + 1
      BY <2>1, <3>1 DEF NodeCommit
    <3> QED
      BY <3>2, <3>3
  <2> QED
    BY <2>2, <2>3, <2>4
<1>4. CASE ~NodeAccepts /\ ~NodeCommits
  <2>1. nodeVars' = nodeVars
    BY <1>4, NodeOrQuiet
  <2> QED
    BY <2>1, <1>1 DEF nodeVars
<1> QED
  BY <1>2, <1>3, <1>4

\* Every step keeps the counters of the tables and of the working copy right.
LEMMA CountedStep ==
  ASSUME ViewInv, CountParts, OneAddress, ~SameSlotSpends, Next
  PROVE  Counted(rows', addrs') /\ Counted(txRows', txAddrs')
<1>t. /\ rows \in Tables /\ txRows \in Tables
      /\ addrs \in AddrTables /\ txAddrs \in AddrTables
      /\ commitSlot \in Slots /\ acceptSlot \in Slots
      /\ commitSlot \in Nat /\ acceptSlot \in Nat
      /\ NodeTypeOK /\ NodeInv
  BY DEF ViewInv, IInv, TypeOK, Slots
<1>c. Counted(rows, addrs) /\ Counted(txRows, txAddrs)
  BY DEF CountParts
<1>1. CASE CommitBegin
  <2>1. /\ rows' = rows /\ addrs' = addrs /\ txAddrs' = txAddrs /\ txBy = "none"
        /\ txRows' = RemoveUncommittedChangesUpUntilSlot(rows, commitSlot)
    BY <1>1 DEF CommitBegin, BeginTx, dbVars
  <2>2. /\ Committed(txRows') = Committed(rows)
        /\ Stored(txRows') \subseteq Stored(rows)
    BY <2>1, <1>t, CleanupLemma DEF RemoveUncommittedChangesUpUntilSlot, Stored
  <2>3. txAddrs = addrs
    BY <2>1 DEF CountParts
  <2> QED
    BY <2>1, <2>2, <2>3, <1>c, CountedLess
<1>2. ASSUME NEW o \in Outputs, CommitSpend(o)
      PROVE  Counted(rows', addrs') /\ Counted(txRows', txAddrs')
  <2>1. /\ rows' = rows /\ addrs' = addrs
        /\ txRows' = DeleteRow(txRows, o) /\ txAddrs' \in DeleteReferences(txAddrs, o)
        /\ commitPc = "tx" /\ o \in todoSpend
    BY <1>2 DEF CommitSpend, InTx, dbVars
  <2>2. CommitProgress
    BY <2>1 DEF ViewInv, IInv, TxOwner, TxInv
  <2>3. status = commitSlot - 1
    BY <2>1 DEF ViewInv, IInv, SlotInv
  <2>4. o \in settled /\ spent[o] = commitSlot /\ o \in confirmed
    BY <2>1, <2>2, <1>t DEF CommitProgress, Consumed, NodeInv
  <2>5. booked[o] < commitSlot /\ booked[o] \in Int
    BY <2>4, <1>t DEF CountParts, NodeInv, NodeTypeOK
  <2>6. o \in LedgerAt(status)
    BY <2>3, <2>4, <2>5, <1>t DEF LedgerAt
  <2>7. o \in Committed(txRows)
    BY <2>1, <2>2, <2>6 DEF CommitProgress
  <2> QED
    BY <2>1, <2>7, <1>t, <1>c, CountedDelete
<1>3. ASSUME NEW o \in Outputs, CommitCreate(o)
      PROVE  Counted(rows', addrs') /\ Counted(txRows', txAddrs')
  <2>1. /\ rows' = rows /\ addrs' = addrs
        /\ txRows' = UpsertCommitted(txRows, o, commitSlot)
        /\ txAddrs' \in InsertReferences(txAddrs, o, TRUE)
        /\ commitPc = "tx" /\ o \in todoCreate
    BY <1>3 DEF CommitCreate, InTx, dbVars
  <2>2. CommitProgress
    BY <2>1 DEF ViewInv, IInv, TxOwner, TxInv
  <2>3. status = commitSlot - 1
    BY <2>1 DEF ViewInv, IInv, SlotInv
  <2>4. booked[o] = commitSlot
    BY <2>1, <2>2 DEF CommitProgress, Created
  <2>5. o \notin LedgerAt(status)
    BY <2>3, <2>4, <1>t DEF LedgerAt
  <2>6. o \notin Committed(txRows)
    BY <2>1, <2>2, <2>5 DEF CommitProgress
  <2> QED
    BY <2>1, <2>6, <1>t, <1>c, CountedUpsert
<1>4. ASSUME NEW o \in Outputs, AcceptSpend(o)
      PROVE  Counted(rows', addrs') /\ Counted(txRows', txAddrs')
  <2>1. /\ rows' = rows /\ addrs' = addrs /\ txAddrs' = txAddrs
        /\ txRows' = MarkDeleted(txRows, o, acceptSlot)
    BY <1>4 DEF AcceptSpend, InTx, dbVars
  <2>2. Committed(txRows') = Committed(txRows)
    BY <2>1, <1>t, MarkDeletedLemma
  <2>3. Stored(txRows') \subseteq Stored(txRows)
    BY <2>1, <1>t DEF MarkDeleted, Stored, Tables
  <2> QED
    BY <2>1, <2>2, <2>3, <1>c, CountedLess
<1>5. ASSUME NEW o \in Outputs, AcceptCreate(o)
      PROVE  Counted(rows', addrs') /\ Counted(txRows', txAddrs')
  <2>1. /\ rows' = rows /\ addrs' = addrs /\ txRows[o] = NoRow
        /\ txRows' = InsertRow(txRows, o, acceptSlot)
        /\ txAddrs' \in InsertReferences(txAddrs, o, FALSE)
    BY <1>5 DEF AcceptCreate, InTx, dbVars
  <2> QED
    BY <2>1, <1>t, <1>c, CountedInsert
<1>6. CASE Fill \/ Reset
  <2> DEFINE S == LedgerAt(nodeSlot)
             t == [o \in Outputs |-> IF o \in S THEN NewRow(booked[o], TRUE) ELSE NoRow]
  <2>1. rows' = t /\ addrs' = ImportedAddrs(S) /\ txRows' = rows' /\ txAddrs' = addrs'
    BY <1>6 DEF Fill, Reset, Filled, Up
  <2>2. S \in SUBSET Outputs /\ \A o \in S : booked[o] \in Nat
    BY <1>t DEF LedgerAt, NodeTypeOK, NodeInv, Slots
  <2>3. \A o \in S : t[o] # NoRow /\ t[o].committed
    BY <2>2, NewRowLemma
  <2>4. \A o \in Outputs \ S : t[o] = NoRow
    OBVIOUS
  <2> HIDE DEF t, S
  <2>5. Stored(t) = S /\ Committed(t) = S
    BY <2>2, <2>3, <2>4 DEF Stored, Committed
  <2>6. Counted(t, ImportedAddrs(S))
    BY <2>2, <2>5, CountedImport
  <2> QED
    BY <2>1, <2>6
<1>7. CASE Refuse
  <2>1. /\ rows' = EmptyTable /\ addrs' = NoAddrs
        /\ txRows' = rows' /\ txAddrs' = addrs'
    BY <1>7 DEF Refuse
  <2>2. Counted(EmptyTable, NoAddrs)
    BY DEF Counted, EmptyTable, NoAddrs, Stored
  <2> QED
    BY <2>1, <2>2
<1>8. CASE Resume
  <2> DEFINE t == RemoveUncommittedChangesUpUntilSlot(rows, MaxSlot)
  <2>1. /\ rows' = t /\ addrs' = DeleteOnlyUncommitted(addrs)
        /\ txRows' = rows' /\ txAddrs' = addrs'
    BY <1>8 DEF Resume, Up
  <2>2. t \in Tables /\ Committed(t) = Committed(rows)
    BY <1>t, CleanupLemma, MaxSlotAssumption
  <2>3. Stored(t) \subseteq Stored(rows)
    BY DEF RemoveUncommittedChangesUpUntilSlot, Stored
  <2>4. ASSUME NEW o \in Stored(rows), ~rows[o].committed
        PROVE  t[o] = NoRow
    <3>1. rows[o].created \in Slots /\ rows[o].deleted \in Slots /\ o \in Outputs
      BY DEF ViewInv, RowsOfBookings, Stored
    <3>2. RolledBack(rows[o], MaxSlot)
      BY <3>1, <2>4 DEF RolledBack, Slots
    <3> QED
      BY <3>1, <3>2 DEF RemoveUncommittedChangesUpUntilSlot
  <2> HIDE DEF t
  <2>5. Stored(t) = Committed(t)
    <3>1. ASSUME NEW o \in Stored(t) PROVE o \in Committed(rows)
      BY <2>3, <2>4 DEF Stored, Committed
    <3> QED
      BY <3>1, <2>2, CommittedOutputs
  <2>6. Counted(t, addrs)
    BY <2>2, <2>3, <1>c, CountedLess
  <2>7. Counted(t, DeleteOnlyUncommitted(addrs))
    BY <2>5, <2>6, <1>t, CountedResume
  <2> QED
    BY <2>1, <2>7
<1>9. CASE \/ NodeAccepts \/ NodeCommits \/ ListenAccepted \/ ReadStatus \/ Terminating
           \/ ReceiveLedgerUpdate \/ DropPending \/ NothingToDrop \/ Publish
           \/ TickTake \/ TickMisses \/ AcceptSkip \/ AcceptCheck \/ AcceptBegin
           \/ AcceptOnClosedDatabase
           \/ \E s \in Slots : ChooseDrop(s) \/ TickChoose(s)
  <2>1. rows' = rows /\ txRows' = txRows /\ addrs' = addrs /\ txAddrs' = txAddrs
    BY <1>9
    DEF NodeAccepts, NodeCommits, ListenAccepted, ReadStatus, Terminating,
        ReceiveLedgerUpdate, DropPending, NothingToDrop, Publish, TickTake, TickMisses,
        AcceptSkip, AcceptCheck, AcceptBegin, AcceptOnClosedDatabase, ChooseDrop,
        TickChoose, vars, dbVars, txVars
  <2> QED
    BY <2>1, <1>c
<1>10. CASE \/ CommitEnd \/ AcceptEnd \/ CommitFails \/ AcceptFails \/ Crash \/ Stop
            \/ \E o \in Outputs : AcceptConflict(o)
  <2>1. \/ rows' = rows /\ addrs' = addrs /\ txRows' = rows /\ txAddrs' = addrs
        \/ rows' = txRows /\ addrs' = txAddrs /\ txRows' = txRows /\ txAddrs' = txAddrs
    BY <1>10
    DEF CommitEnd, AcceptEnd, CommitFails, AcceptFails, Crash, Stop, AcceptConflict,
        InstallTx, RollbackTx, Down, dbVars
  <2> QED
    BY <2>1, <1>c
<1> QED
  BY <1>1, <1>2, <1>3, <1>4, <1>5, <1>6, <1>7, <1>8, <1>9, <1>10
  DEF Next, Start, CommitWorker, AcceptWorker

\* Outside of transactions the working copy of the table is the table.
LEMMA NoWorkingCopy ==
  ASSUME ViewInv, CountParts, Next, txBy' = "none"
  PROVE  txAddrs' = addrs'
<1>t. /\ txBy = "commit" <=> commitPc = "tx"
      /\ txBy = "accept" <=> acceptPc = "tx"
      /\ txBy = "none" => txAddrs = addrs
  BY DEF ViewInv, IInv, TxOwner, CountParts
<1>1. CASE \/ NodeAccepts \/ NodeCommits \/ ListenAccepted \/ ReadStatus \/ Terminating
           \/ ReceiveLedgerUpdate \/ DropPending \/ NothingToDrop \/ Publish
           \/ TickTake \/ TickMisses \/ AcceptSkip \/ AcceptCheck
           \/ AcceptOnClosedDatabase
           \/ \E s \in Slots : ChooseDrop(s) \/ TickChoose(s)
  <2>1. UNCHANGED <<txBy, addrs, txAddrs>>
    BY <1>1
    DEF NodeAccepts, NodeCommits, ListenAccepted, ReadStatus, Terminating,
        ReceiveLedgerUpdate, DropPending, NothingToDrop, Publish, TickTake, TickMisses,
        AcceptSkip, AcceptCheck, AcceptOnClosedDatabase, ChooseDrop, TickChoose, vars,
        dbVars, txVars
  <2> QED
    BY <2>1, <1>t
<1>2. CASE \/ CommitBegin \/ AcceptBegin
           \/ \E o \in Outputs : \/ CommitSpend(o) \/ CommitCreate(o)
                                 \/ AcceptSpend(o) \/ AcceptCreate(o)
  <2>1. txBy' # "none"
    BY <1>2, <1>t
    DEF CommitBegin, AcceptBegin, BeginTx, CommitSpend, CommitCreate, AcceptSpend,
        AcceptCreate, InTx
  <2> QED
    BY <2>1
<1>3. CASE \/ CommitEnd \/ AcceptEnd \/ CommitFails \/ AcceptFails \/ Crash \/ Stop
           \/ \E o \in Outputs : AcceptConflict(o)
           \/ Fill \/ Reset \/ Refuse \/ Resume
  BY <1>3
  DEF CommitEnd, AcceptEnd, CommitFails, AcceptFails, Crash, Stop, AcceptConflict,
      InstallTx, RollbackTx, Down, dbVars, Fill, Reset, Refuse, Resume, Up
<1> QED
  BY <1>1, <1>2, <1>3 DEF Next, Start, CommitWorker, AcceptWorker

\* The start, with empty tables.
LEMMA InitCountInv ==
  ASSUME Init
  PROVE  CountInv
<1>1. Counted(EmptyTable, NoAddrs)
  BY DEF Counted, EmptyTable, NoAddrs, Stored
<1>2. settled = {}
  BY DEF Init, NodeInit
<1> QED
  BY <1>1, <1>2 DEF Init, CountInv, CountParts

\* Every step keeps CountInv, given ViewInv.
LEMMA NextCountInv ==
  ASSUME ViewInv, CountInv, [Next]_vars
  PROVE  CountInv'
<1>1. SUFFICES ASSUME OneAddress, ~SameSlotSpends
               PROVE  CountParts'
  BY DEF CountInv, OneAddress
<1>2. CountParts
  BY <1>1 DEF CountInv
<1>3. CASE Next
  <2>1. \A o \in settled' : booked'[o] < spent'[o]
    BY <1>1, <1>2, <1>3, SpentStep DEF CountParts, ViewInv
  <2>2. Counted(rows', addrs') /\ Counted(txRows', txAddrs')
    BY <1>1, <1>2, <1>3, CountedStep
  <2>3. txBy' = "none" => txAddrs' = addrs'
    BY <1>2, <1>3, NoWorkingCopy
  <2> QED
    BY <2>1, <2>2, <2>3 DEF CountParts
<1>4. CASE UNCHANGED vars
  <2>1. UNCHANGED <<settled, booked, spent, rows, addrs, txRows, txAddrs, txBy>>
    BY <1>4 DEF vars, nodeVars, dbVars, txVars
  <2> QED
    BY <2>1, <1>2 DEF CountParts
<1> QED
  BY <1>3, <1>4

\* The counters are exact, in the tables and in the working copy.
THEOREM CountInvariance == Spec => []CountInv
BY InitViewInv, InitCountInv, NextViewInv, NextCountInv, PTL DEF Spec

\* Where no output holds two addresses and no update consumes what it creates,
\* ref_count is the number of references the committed rows hold
\* (insertMultiAddressesFromAddresses, deleteMultiAddressesFromAddresses).
THEOREM ReferencesCounted ==
  ASSUME OneAddress, ~SameSlotSpends
  PROVE  Spec => []RefCountsExact
<1>1. CountInv => RefCountsExact
  <2>1. SUFFICES ASSUME Counted(rows, addrs), NEW a \in Addrs
                 PROVE  LET count == References(Committed(rows), a) IN
                        IF addrs[a] = NoEntry THEN count = 0 ELSE addrs[a].ref = count
    BY DEF CountInv, CountParts, RefCountsExact
  <2>2. CASE addrs[a] = NoEntry
    <3>1. \A o \in Committed(rows) : a \notin Held(o)
      BY <2>1, <2>2, CommittedOutputs DEF Counted
    <3>2. References(Committed(rows), a) = 0
      BY <3>1, CommittedOutputs, ReferencesNone
    <3> QED
      BY <2>2, <3>2
  <2>3. CASE addrs[a] # NoEntry
    BY <2>1, <2>3 DEF Counted
  <2> QED
    BY <2>2, <2>3
<1> QED
  BY CountInvariance, <1>1, PTL

\* Under the same conditions every address of a row can be resolved by its
\* reference (MultiAddressForReference).
THEOREM AddressesResolvable ==
  ASSUME OneAddress, ~SameSlotSpends
  PROVE  Spec => []MultiAddressesResolvable
<1>1. CountInv => MultiAddressesResolvable
  <2>1. SUFFICES ASSUME Counted(rows, addrs),
                        NEW o \in Stored(rows), NEW a \in Addrs, a \in Held(o)
                 PROVE  MultiAddressForReference(addrs, a) = a
    BY DEF CountInv, CountParts, MultiAddressesResolvable
  <2>2. addrs[a] # NoEntry
    BY <2>1 DEF Counted
  <2> QED
    BY <2>2 DEF MultiAddressForReference
<1> QED
  BY CountInvariance, <1>1, PTL
=============================================================================
