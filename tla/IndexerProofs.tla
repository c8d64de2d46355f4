--------------------------- MODULE IndexerProofs ----------------------------
(* What holds of Indexer for every set of outputs, addresses and references, *)
(* every number of slots and every number of faults.                         *)
EXTENDS IndexerProperties, FiniteSetTheorems, TLAPS

-----------------------------------------------------------------------------
(* The statements on the output tables.                                      *)

\* The sentinel is no row, and a row is no sentinel.
LEMMA RowOrNone ==
  ASSUME NEW t \in Tables, NEW o \in Outputs
  PROVE  /\ t[o] \in Row <=> t[o] # NoRow
         /\ t[o] # NoRow => /\ t[o].created \in Nat
                            /\ t[o].deleted \in Nat
                            /\ t[o].committed \in BOOLEAN
BY NoRowAssumption DEF Tables, Row

\* DELETE takes exactly its output out of the committed rows.
LEMMA DeleteRowLemma ==
  ASSUME NEW t \in Tables, NEW o \in Outputs
  PROVE  /\ DeleteRow(t, o) \in Tables
         /\ Committed(DeleteRow(t, o)) = Committed(t) \ {o}
         /\ \A s \in Int : Settled(t, s) => Settled(DeleteRow(t, o), s)
BY DEF DeleteRow, Tables, Committed, Stored, Settled

\* Marking an output as deleted leaves the committed rows committed.
LEMMA MarkDeletedLemma ==
  ASSUME NEW t \in Tables, NEW o \in Outputs, NEW s \in Nat
  PROVE  /\ MarkDeleted(t, o, s) \in Tables
         /\ Committed(MarkDeleted(t, o, s)) = Committed(t)
<1>1. CASE t[o] = NoRow
  BY <1>1 DEF MarkDeleted
<1>2. CASE t[o] # NoRow
  <2>1. t[o] \in Row
    BY <1>2, RowOrNone
  <2>2. MarkDeleted(t, o, s) = [t EXCEPT ![o] = [t[o] EXCEPT !.deleted = s]]
    BY <1>2 DEF MarkDeleted
  <2>3. /\ [t[o] EXCEPT !.deleted = s] \in Row
        /\ [t[o] EXCEPT !.deleted = s].committed = t[o].committed
    BY <2>1 DEF Row
  <2>4. [t[o] EXCEPT !.deleted = s] # NoRow
    BY <2>3, NoRowAssumption
  <2> QED
    BY <1>2, <2>2, <2>3, <2>4 DEF Tables, Committed, Stored
<1> QED
  BY <1>1, <1>2

\* A new row is a row.
LEMMA NewRowLemma ==
  ASSUME NEW s \in Nat, NEW c \in BOOLEAN
  PROVE  /\ NewRow(s, c) \in Row
         /\ NewRow(s, c) # NoRow
         /\ NewRow(s, c).created = s
         /\ NewRow(s, c).deleted = 0
         /\ NewRow(s, c).committed = c
BY NoRowAssumption DEF NewRow, Row

\* An accepted output adds no committed row.
LEMMA InsertRowLemma ==
  ASSUME NEW t \in Tables, NEW o \in Outputs, NEW s \in Nat, t[o] = NoRow
  PROVE  /\ InsertRow(t, o, s) \in Tables
         /\ Committed(InsertRow(t, o, s)) = Committed(t)
BY NewRowLemma DEF InsertRow, Tables, Committed, Stored

\* A committed output adds itself, whether or not it had a row.
LEMMA UpsertLemma ==
  ASSUME NEW t \in Tables, NEW o \in Outputs, NEW s \in Nat
  PROVE  /\ UpsertCommitted(t, o, s) \in Tables
         /\ Committed(UpsertCommitted(t, o, s)) = Committed(t) \cup {o}
         /\ Settled(t, s) => Settled(UpsertCommitted(t, o, s), s)
<1>1. CASE t[o] = NoRow
  BY <1>1, NewRowLemma DEF UpsertCommitted, Tables, Committed, Stored, Settled
<1>2. CASE t[o] # NoRow
  <2>1. t[o] \in Row
    BY <1>2, RowOrNone
  <2> DEFINE r == [t[o] EXCEPT !.committed = TRUE]
  <2>2. /\ r \in Row
        /\ r.committed
        /\ r.deleted = t[o].deleted
    BY <2>1 DEF Row
  <2>3. r # NoRow
    BY <2>2, NoRowAssumption
  <2>4. UpsertCommitted(t, o, s) = [t EXCEPT ![o] = r]
    BY <1>2 DEF UpsertCommitted
  <2> HIDE DEF r
  <2> QED
    BY <1>2, <2>2, <2>3, <2>4 DEF Tables, Committed, Stored, Settled
<1> QED
  BY <1>1, <1>2

\* The cleanup spares every committed row and leaves nothing uncommitted
\* behind.
LEMMA CleanupLemma ==
  ASSUME NEW t \in Tables, NEW s \in Nat
  PROVE  LET u == RemoveUncommittedChangesUpUntilSlot(t, s) IN
         /\ u \in Tables
         /\ Committed(u) = Committed(t)
         /\ Settled(u, s)
<1> DEFINE u == RemoveUncommittedChangesUpUntilSlot(t, s)
<1>1. ASSUME NEW r \in Row
      PROVE  /\ Restored(r, s) \in Row
             /\ Restored(r, s).committed = r.committed
             /\ Restored(r, s).created = r.created
             /\ Restored(r, s).deleted = IF r.deleted <= s THEN 0 ELSE r.deleted
  BY DEF Restored, Row
<1>2. ASSUME NEW o \in Outputs
      PROVE  /\ u[o] \in Row \cup {NoRow}
             /\ (u[o] # NoRow /\ u[o].committed) <=> (t[o] # NoRow /\ t[o].committed)
             /\ u[o] # NoRow => /\ u[o].deleted # 0 => u[o].deleted > s
                                /\ ~u[o].committed => \/ u[o].created > s
                                                      \/ u[o].deleted > s
  <2>1. CASE t[o] = NoRow
    BY <2>1 DEF RemoveUncommittedChangesUpUntilSlot
  <2>2. CASE t[o] # NoRow /\ RolledBack(t[o], s)
    BY <2>2 DEF RemoveUncommittedChangesUpUntilSlot, RolledBack
  <2>3. CASE t[o] # NoRow /\ ~RolledBack(t[o], s)
    <3>1. u[o] = Restored(t[o], s)
      BY <2>3 DEF RemoveUncommittedChangesUpUntilSlot
    <3>2. t[o] \in Row
      BY <2>3, RowOrNone
    <3>3. u[o] \in Row /\ u[o] # NoRow
      BY <3>1, <3>2, <1>1, NoRowAssumption
    <3>4. u[o].committed = t[o].committed
      BY <3>1, <3>2, <1>1
    <3>5. /\ u[o].created = t[o].created
          /\ u[o].deleted = IF t[o].deleted <= s THEN 0 ELSE t[o].deleted
      BY <3>1, <3>2, <1>1
    <3>6. t[o].created \in Nat /\ t[o].deleted \in Nat
      BY <3>2, RowOrNone, <2>3
    <3>7. u[o].deleted # 0 => u[o].deleted > s
      BY <3>5, <3>6
    <3>8. t[o].committed \/ t[o].created > s \/ t[o].deleted > s
      BY <2>3, <3>6 DEF RolledBack
    <3>9. ~u[o].committed => u[o].created > s \/ u[o].deleted > s
      BY <3>4, <3>5, <3>6, <3>8
    <3> QED
      BY <2>3, <3>3, <3>4, <3>7, <3>9
  <2> QED
    BY <2>1, <2>2, <2>3
<1>3. u \in Tables
  BY <1>2 DEF Tables, RemoveUncommittedChangesUpUntilSlot
<1> HIDE DEF u
<1> QED
  BY <1>2, <1>3 DEF Committed, Stored, Settled, u

-----------------------------------------------------------------------------
(* Counting references.                                                      *)

\* n numbered references to one thing are n references.
LEMMA Numbered ==
  ASSUME NEW x, NEW n \in Nat
  PROVE  IsFiniteSet({x} \X (1..n)) /\ Cardinality({x} \X (1..n)) = n
<1>1. IsFiniteSet({x}) /\ Cardinality({x}) = 1
  BY FS_Singleton
<1>2. IsFiniteSet(1..n) /\ Cardinality(1..n) = n
  BY FS_Interval
<1>3. /\ IsFiniteSet({x} \X (1..n))
      /\ Cardinality({x} \X (1..n)) = Cardinality({x}) * Cardinality(1..n)
  BY <1>1, <1>2, FS_Product
<1> QED
  BY <1>1, <1>2, <1>3

\* The references that the outputs of S hold on a, one by one.
Referring(S, a) == UNION {{o} \X (1..Holds[o][a]) : o \in S}

\* There are finitely many.
LEMMA ReferencesType ==
  ASSUME NEW S \in SUBSET Outputs, NEW a \in Addrs
  PROVE  IsFiniteSet(Referring(S, a)) /\ References(S, a) \in Nat
<1> DEFINE parts == {{o} \X (1..Holds[o][a]) : o \in S}
           each  == [o \in S |-> {o} \X (1..Holds[o][a])]
<1>1. IsFiniteSet(S)
  BY OutputsAssumption, FS_Subset
<1>2. each \in Surjection(S, parts)
  BY DEF Surjection
<1>3. IsFiniteSet(parts)
  BY <1>1, <1>2, FS_Surjection
<1>4. ASSUME NEW T \in parts PROVE IsFiniteSet(T)
  <2>1. PICK o \in S : T = {o} \X (1..Holds[o][a])
    OBVIOUS
  <2>2. Holds[o][a] \in Nat
    BY HoldsAssumption
  <2> QED
    BY <2>1, <2>2, Numbered
<1>5. IsFiniteSet(UNION parts)
  BY <1>3, <1>4, FS_UNION
<1> QED
  BY <1>5, FS_CardinalityType DEF Referring, References

\* Nor does an output hold infinitely many.
LEMMA TotalType ==
  ASSUME NEW o \in Outputs
  PROVE  Total(o) \in Nat
<1> DEFINE parts == {{a} \X (1..Holds[o][a]) : a \in Addrs}
           each  == [a \in Addrs |-> {a} \X (1..Holds[o][a])]
<1>2. each \in Surjection(Addrs, parts)
  BY DEF Surjection
<1>3. IsFiniteSet(parts)
  BY AddrsAssumption, <1>2, FS_Surjection
<1>4. ASSUME NEW T \in parts PROVE IsFiniteSet(T)
  <2>1. PICK a \in Addrs : T = {a} \X (1..Holds[o][a])
    OBVIOUS
  <2>2. Holds[o][a] \in Nat
    BY HoldsAssumption
  <2> QED
    BY <2>1, <2>2, Numbered
<1>5. IsFiniteSet(UNION parts)
  BY <1>3, <1>4, FS_UNION
<1> QED
  BY <1>5, FS_CardinalityType DEF Total

-----------------------------------------------------------------------------
(* The statements on the multi addresses: they keep the table a table.       *)

\* Adding to a counter of an entry gives an entry.
LEMMA BumpType ==
  ASSUME NEW e \in Entry, NEW n \in Int, NEW c \in BOOLEAN
  PROVE  Bump(e, n, c) \in Entry /\ Fresh(n, c) \in Entry
BY DEF Bump, Fresh, Entry

\* Whatever item the loop of insertMultiAddressesFromAddresses meets first, the
\* result is a table.
LEMMA UpsertResultsType ==
  ASSUME NEW t \in AddrTables, NEW o \in Outputs, NEW sign \in Int,
         NEW c \in BOOLEAN, NEW u \in UpsertResults(t, o, sign, c)
  PROVE  u \in AddrTables
<1>1. CASE Held(o) = {}
  BY <1>1 DEF UpsertResults
<1>2. CASE Held(o) # {}
  <2>1. PICK first \in Held(o) : u = Upserted(t, o, first, sign, c)
    BY <1>2 DEF UpsertResults
  <2>2. /\ \A a \in Addrs : Holds[o][a] \in Int
        /\ Total(o) \in Int
        /\ first \in Addrs
    BY HoldsAssumption, TotalType DEF Held
  <2> DEFINE all  == sign * Total(o)
             rest == sign * (Total(o) - Holds[o][first])
  <2>3. all \in Int /\ rest \in Int
    <3>1. Holds[o][first] \in Int
      BY <2>2
    <3>2. Total(o) - Holds[o][first] \in Int
      BY <2>2, <3>1
    <3> QED
      BY <2>2, <3>2
  <2> HIDE DEF all, rest
  <2>4. u = [a \in Addrs |->
               CASE a \notin Held(o) -> t[a]
                 [] a \in Held(o) /\ t[a] = NoEntry ->
                      Bump(Fresh(Holds[o][a], c), rest, c)
                 [] OTHER -> Bump(t[a], all, c)]
    BY <2>1 DEF Upserted, all, rest
  <2>5. ASSUME NEW a \in Addrs
        PROVE  u[a] \in Entry \cup {NoEntry}
    <3>1. CASE a \notin Held(o)
      BY <3>1, <2>4 DEF AddrTables
    <3>2. CASE a \in Held(o) /\ t[a] = NoEntry
      <4>1. Fresh(Holds[o][a], c) \in Entry
        BY <2>2, BumpType DEF Fresh, Bump, Entry
      <4>2. Bump(Fresh(Holds[o][a], c), rest, c) \in Entry
        BY <4>1, <2>3, BumpType
      <4> QED
        BY <3>2, <4>2, <2>4
    <3>3. CASE a \in Held(o) /\ t[a] # NoEntry
      <4>1. t[a] \in Entry
        BY <3>3 DEF AddrTables
      <4>2. Bump(t[a], all, c) \in Entry
        BY <4>1, <2>3, BumpType
      <4> QED
        BY <3>3, <4>2, <2>4
    <3> QED
      BY <3>1, <3>2, <3>3
  <2> QED
    BY <2>4, <2>5 DEF AddrTables
<1> QED
  BY <1>1, <1>2

\* Counting references gives a table (insertMultiAddressesFromAddresses).
LEMMA InsertReferencesType ==
  ASSUME NEW t \in AddrTables, NEW o \in Outputs, NEW c \in BOOLEAN,
         NEW u \in InsertReferences(t, o, c)
  PROVE  u \in AddrTables
BY UpsertResultsType DEF InsertReferences

\* Uncounting them and dropping the rows at zero gives a table
\* (deleteMultiAddressesFromAddresses).
LEMMA DeleteReferencesType ==
  ASSUME NEW t \in AddrTables, NEW o \in Outputs,
         NEW u \in DeleteReferences(t, o)
  PROVE  u \in AddrTables
<1>1. PICK v \in UpsertResults(t, o, -1, TRUE) :
        u = DropWhere(v, LAMBDA e : e.ref = 0 /\ e.unc = 0)
  BY DEF DeleteReferences
<1>2. v \in AddrTables
  <2> DEFINE minus == -1
  <2>1. minus \in Int
    OBVIOUS
  <2>2. v \in UpsertResults(t, o, minus, TRUE)
    OBVIOUS
  <2> HIDE DEF minus
  <2> QED
    BY <2>1, <2>2, UpsertResultsType
<1> QED
  BY <1>1, <1>2 DEF DropWhere, AddrTables

\* Dropping the rows of uncommitted references gives a table
\* (deleteMultiAddressesWithOnlyUncommittedReferences).
LEMMA DeleteOnlyUncommittedType ==
  ASSUME NEW t \in AddrTables
  PROVE  DeleteOnlyUncommitted(t) \in AddrTables
BY DEF DeleteOnlyUncommitted, DropWhere, AddrTables

\* What an import counts is a table (importer.AddOutput).
LEMMA ImportedAddrsType ==
  ASSUME NEW S \in SUBSET Outputs
  PROVE  ImportedAddrs(S) \in AddrTables
BY ReferencesType DEF ImportedAddrs, AddrTables, Entry

-----------------------------------------------------------------------------
(* The node.                                                                 *)

\* The ledger of a slot is the one before it, less what the slot's update
\* consumed, plus what it created and did not consume.
LEMMA LedgerStep ==
  ASSUME NodeTypeOK, NodeInv, NEW s \in Slots, s - 1 \in Slots
  PROVE  LedgerAt(s) =
           (LedgerAt(s - 1) \ Consumed(s)) \cup (Created(s) \ Consumed(s))
<1>1. ASSUME NEW o \in confirmed
      PROVE  o \in LedgerAt(s) <=>
               \/ o \in LedgerAt(s - 1) /\ o \notin Consumed(s)
               \/ o \in Created(s) /\ o \notin Consumed(s)
  <2>1. booked[o] \in Int /\ spent[o] \in Int /\ s \in Int
    BY DEF NodeTypeOK, Slots, NoSlot
  <2>2. o \in settled => booked[o] <= spent[o]
    BY DEF NodeInv
  <2> QED
    BY <2>1, <2>2 DEF LedgerAt, Created, Consumed
<1>2. /\ LedgerAt(s) \subseteq confirmed
      /\ LedgerAt(s - 1) \subseteq confirmed
      /\ Created(s) \subseteq confirmed
  BY DEF LedgerAt, Created
<1> QED
  BY <1>1, <1>2

\* What the node serves for a committed slot never changes.
LEMMA NodeKeepsHistory ==
  ASSUME NodeTypeOK, NodeInv, NEW s \in Slots, s <= nodeSlot,
         \/ \E r \in Slots, new, old \in SUBSET Outputs : NodeAccept(r, new, old)
         \/ \E new, old \in SUBSET Outputs : NodeCommit(new, old)
  PROVE  /\ NodeTypeOK'
         /\ NodeInv'
         /\ nodeSlot <= nodeSlot'
         /\ LedgerAt(s)' = LedgerAt(s)
         /\ Created(s)'  = Created(s)
         /\ Consumed(s)' = Consumed(s)
<1> USE MaxSlotAssumption
<1>1. ASSUME NEW r \in Slots, NEW new \in SUBSET Outputs,
             NEW old \in SUBSET Outputs, NodeAccept(r, new, old)
      PROVE  /\ NodeTypeOK'
             /\ nodeSlot' = nodeSlot /\ confirmed' = confirmed /\ settled' = settled
             /\ \A o \in confirmed : booked'[o] = booked[o]
             /\ \A o \in settled : spent'[o] = spent[o]
  BY <1>1 DEF NodeAccept, Bookable, Alive, NodeTypeOK, NodeInv, Slots, NoSlot
<1>2. ASSUME NEW new \in SUBSET Outputs, NEW old \in SUBSET Outputs,
             NodeCommit(new, old)
      PROVE  /\ NodeTypeOK'
             /\ nodeSlot' = nodeSlot + 1
             /\ confirmed' = confirmed \cup new
             /\ settled' = settled \cup old
             /\ new \cap confirmed = {} /\ old \cap settled = {}
             /\ old \subseteq confirmed \cup new
             /\ \A o \in confirmed : booked'[o] = booked[o]
             /\ \A o \in settled : spent'[o] = spent[o]
             /\ \A o \in new : booked'[o] = nodeSlot + 1
             /\ \A o \in old : spent'[o] = nodeSlot + 1
  BY <1>2 DEF NodeCommit, Bookable, Alive, NodeTypeOK, NodeInv, Slots, NoSlot
<1>3. CASE \E r \in Slots, new, old \in SUBSET Outputs : NodeAccept(r, new, old)
  <2>1. PICK r \in Slots, new \in SUBSET Outputs, old \in SUBSET Outputs :
          NodeAccept(r, new, old)
    BY <1>3
  <2> QED
    BY <2>1, <1>1 DEF NodeInv, NodeTypeOK, LedgerAt, Created, Consumed, Slots
<1>4. CASE \E new, old \in SUBSET Outputs : NodeCommit(new, old)
  <2>1. PICK new \in SUBSET Outputs, old \in SUBSET Outputs : NodeCommit(new, old)
    BY <1>4
  <2>2. nodeSlot \in Int /\ s \in Int /\ s < nodeSlot + 1 /\ 0 <= nodeSlot
    BY DEF NodeTypeOK, Slots
  <2>3. /\ NodeTypeOK'
        /\ nodeSlot' = nodeSlot + 1
        /\ confirmed' = confirmed \cup new
        /\ settled' = settled \cup old
        /\ new \cap confirmed = {} /\ old \cap settled = {}
        /\ old \subseteq confirmed \cup new
    BY <2>1, <1>2
  <2>4. /\ \A o \in confirmed : booked'[o] = booked[o]
        /\ \A o \in settled : spent'[o] = spent[o]
        /\ \A o \in new : booked'[o] = nodeSlot + 1
        /\ \A o \in old : spent'[o] = nodeSlot + 1
    BY <2>1, <1>2
  <2>5. /\ \A o \in confirmed : booked[o] \in 0..nodeSlot
        /\ settled \subseteq confirmed
        /\ \A o \in settled : spent[o] \in 0..nodeSlot /\ booked[o] <= spent[o]
    BY DEF NodeInv
  <2>6. NodeInv'
    <3>1. \A o \in confirmed' : booked'[o] \in 0..nodeSlot'
      BY <2>2, <2>3, <2>4, <2>5
    <3>2. settled' \subseteq confirmed'
      BY <2>3, <2>5
    <3>3. \A o \in settled' : spent'[o] \in 0..nodeSlot' /\ booked'[o] <= spent'[o]
      BY <2>2, <2>3, <2>4, <2>5
    <3> QED
      BY <3>1, <3>2, <3>3 DEF NodeInv
  <2>7. LedgerAt(s)' = LedgerAt(s)
    <3>1. ASSUME NEW o \in new
          PROVE  ~(booked'[o] <= s)
      BY <2>2, <2>4
    <3>2. ASSUME NEW o \in old
          PROVE  ~(spent'[o] <= s)
      BY <2>2, <2>4
    <3> QED
      BY <2>3, <2>4, <2>5, <3>1, <3>2 DEF LedgerAt
  <2>8. Created(s)' = Created(s) /\ Consumed(s)' = Consumed(s)
    <3>1. ASSUME NEW o \in new
          PROVE  booked'[o] # s
      BY <2>2, <2>4
    <3>2. ASSUME NEW o \in old
          PROVE  spent'[o] # s
      BY <2>2, <2>4
    <3> QED
      BY <2>3, <2>4, <3>1, <3>2 DEF Created, Consumed
  <2> QED
    BY <2>2, <2>3, <2>6, <2>7, <2>8
<1> QED
  BY <1>3, <1>4

-----------------------------------------------------------------------------
(* Type correctness, one step per action.                                    *)

\* Every step of the node and of the indexer keeps the type invariant.
LEMMA TypeStep ==
  ASSUME IInv, Next
  PROVE  TypeOK'
<1> USE MaxSlotAssumption, MaxFaultsAssumption DEF Slots, NoSlot
<1>t. TypeOK /\ SlotInv /\ NodeTypeOK
  BY DEF IInv, TypeOK
<1> DEFINE NodeSame == nodeVars' = nodeVars
<1>n. NodeSame => NodeTypeOK'
  BY <1>t DEF nodeVars, NodeTypeOK
<1>b. /\ NoBatch \in Batch
      /\ NoPending \in [Slots -> Batch]
  BY DEF NoBatch, Batch, NoPending
<1>l. \A s \in Slots : LedgerAt(s) \in SUBSET Outputs
  BY <1>t DEF LedgerAt, NodeTypeOK
<1>1. ASSUME Down, UNCHANGED <<nodeVars, dbVars>>, faults' \in 0..MaxFaults
      PROVE  TypeOK'
  <2>1. stream' \in Seq(Message)
    BY <1>1 DEF Down
  <2>2. NodeTypeOK'
    BY <1>1, <1>n
  <2>3. /\ rows' \in Tables /\ txRows' \in Tables
        /\ addrs' \in AddrTables /\ txAddrs' \in AddrTables
        /\ status' \in Slots \cup {NoSlot}
    BY <1>1, <1>t DEF Down, TypeOK, dbVars
  <2>4. up' \in BOOLEAN
    BY <1>1 DEF Down
  <2>5. /\ lastCommitted' \in Slots /\ acceptSlot' \in Slots
        /\ commitSlot' \in Slots /\ dropSlot' \in Slots
    BY <1>1 DEF Down
  <2>6. /\ txBy' \in {"none", "commit", "accept"}
        /\ todoSpend' \in SUBSET Outputs /\ todoCreate' \in SUBSET Outputs
        /\ commitPc' \in {"idle", "drop", "dropping", "ready", "tx", "publish", "stopped"}
        /\ acceptPc' \in {"idle", "chosen", "popped", "passed", "tx"}
        /\ shutdown' \in {"none", "conflict", "fault"}
    BY <1>1 DEF Down
  <2>7. pending' \in [Slots -> Batch] /\ acceptBatch' \in Batch
    BY <1>1, <1>b DEF Down
  <2> QED
    BY <1>1, <2>1, <2>2, <2>3, <2>4, <2>5, <2>6, <2>7 DEF TypeOK
<1>2. CASE Crash
  <2>1. faults' \in 0..MaxFaults
    BY <1>2, <1>t DEF Crash, TypeOK
  <2> QED
    BY <1>2, <1>1, <2>1 DEF Crash
<1>3. CASE Stop
  BY <1>3, <1>1, <1>t DEF Stop, TypeOK
<1>4. ASSUME Filled, Up(nodeSlot)
      PROVE  TypeOK'
  <2>1. NodeTypeOK'
    BY <1>4, <1>n DEF Up
  <2>2. rows' \in Tables
    <3>1. \A o \in Outputs : o \in LedgerAt(nodeSlot) => booked[o] \in Nat
      BY <1>t DEF IInv, NodeInv, LedgerAt, NodeTypeOK
    <3>2. \A o \in LedgerAt(nodeSlot) : NewRow(booked[o], TRUE) \in Row
      BY <3>1, NewRowLemma, <1>l, <1>t DEF NodeTypeOK
    <3> QED
      BY <1>4, <3>2 DEF Filled, Tables
  <2>3. addrs' \in AddrTables
    BY <1>4, <1>l, <1>t, ImportedAddrsType DEF Filled, NodeTypeOK
  <2>4. status' \in Slots
    BY <1>4, <1>t DEF Filled, NodeTypeOK
  <2> QED
    BY <1>4, <1>t, <2>1, <2>2, <2>3, <2>4
    DEF Up, TypeOK, NodeTypeOK, acceptVars, batchVars
<1>5. CASE Fill
  BY <1>5, <1>4 DEF Fill
<1>6. CASE Reset
  BY <1>6, <1>4 DEF Reset
<1>17. CASE Refuse
  <2>1. NodeTypeOK' /\ EmptyTable \in Tables /\ NoAddrs \in AddrTables
    BY <1>17, <1>n DEF Refuse, EmptyTable, Tables, NoAddrs, AddrTables
  <2> QED
    BY <1>17, <2>1, <1>t
    DEF Refuse, TypeOK, commitVars, acceptVars, batchVars, procVars
<1>7. CASE Resume
  <2>1. NodeTypeOK'
    BY <1>7, <1>n DEF Resume, Up
  <2>2. rows' \in Tables /\ addrs' \in AddrTables
    BY <1>7, <1>t, CleanupLemma, DeleteOnlyUncommittedType DEF Resume, TypeOK
  <2> QED
    BY <1>7, <1>t, <2>1, <2>2 DEF Resume, Up, TypeOK, acceptVars, batchVars
<1>8. CASE NodeAccepts
  <2>1. PICK s \in Slots, new \in SUBSET Outputs, old \in SUBSET Outputs :
          /\ NodeAccept(s, new, old)
          /\ stream' = IF up THEN Append(stream, [slot |-> s, new |-> new, old |-> old])
                             ELSE stream
          /\ UNCHANGED <<dbVars, txVars, commitVars, acceptVars, pending, procVars>>
    BY <1>8 DEF NodeAccepts
  <2>2. NodeTypeOK'
    BY <2>1, <1>t, NodeKeepsHistory DEF IInv, NodeTypeOK
  <2>3. [slot |-> s, new |-> new, old |-> old] \in Message
    BY DEF Message
  <2>4. stream' \in Seq(Message)
    BY <2>1, <2>3, <1>t DEF TypeOK
  <2> QED
    BY <2>1, <2>2, <2>4, <1>t
    DEF TypeOK, dbVars, txVars, commitVars, acceptVars, procVars
<1>9. CASE NodeCommits
  <2>1. NodeTypeOK'
    BY <1>9, <1>t, NodeKeepsHistory DEF NodeCommits, IInv, NodeTypeOK
  <2> QED
    BY <1>9, <2>1, <1>t
    DEF NodeCommits, TypeOK, dbVars, txVars, commitVars, acceptVars, batchVars, procVars
<1>10. CASE ReadStatus
  BY <1>10, <1>n, <1>t
  DEF ReadStatus, TypeOK, dbVars, txVars, commitVars, acceptVars, batchVars, procVars
<1>11. CASE Terminating
  BY <1>11, <1>n, <1>t
  DEF Terminating, vars, TypeOK, dbVars, txVars, commitVars, acceptVars, batchVars, procVars
<1>12. CASE CommitWorker
  <2>1. CASE ReceiveLedgerUpdate
    BY <2>1, <1>n, <1>t
    DEF ReceiveLedgerUpdate, TypeOK, NodeTypeOK, dbVars, txVars, acceptVars, batchVars, procVars
  <2>2. CASE DropPending
    BY <2>2, <1>n, <1>t, <1>b
    DEF DropPending, TypeOK, dbVars, txVars, acceptVars, procVars
  <2>8. CASE NothingToDrop \/ \E s \in Slots : ChooseDrop(s)
    BY <2>8, <1>n, <1>t
    DEF ChooseDrop, NothingToDrop, TypeOK, dbVars, txVars, acceptVars, batchVars, procVars
  <2>3. CASE CommitBegin
    <3>1. txRows' \in Tables
      BY <2>3, <1>t, CleanupLemma DEF CommitBegin, TypeOK
    <3>2. todoSpend' \in SUBSET Outputs /\ todoCreate' \in SUBSET Outputs
      BY <2>3, <1>t DEF CommitBegin, BeginTx, Consumed, Created, NodeTypeOK
    <3> QED
      BY <2>3, <3>1, <3>2, <1>n, <1>t
      DEF CommitBegin, BeginTx, TypeOK, dbVars, acceptVars, batchVars, procVars
  <2>4. ASSUME NEW o \in Outputs, CommitSpend(o)
        PROVE  TypeOK'
    <3>1. txRows' \in Tables /\ txAddrs' \in AddrTables
      BY <2>4, <1>t, DeleteRowLemma, DeleteReferencesType DEF CommitSpend, TypeOK
    <3> QED
      BY <2>4, <3>1, <1>n, <1>t
      DEF CommitSpend, InTx, TypeOK, dbVars, commitVars, acceptVars, batchVars, procVars
  <2>5. ASSUME NEW o \in Outputs, CommitCreate(o)
        PROVE  TypeOK'
    <3>1. txRows' \in Tables
      BY <2>5, <1>t, UpsertLemma DEF CommitCreate, TypeOK
    <3>2. txAddrs' \in InsertReferences(txAddrs, o, TRUE) /\ txAddrs \in AddrTables
      BY <2>5, <1>t DEF CommitCreate, TypeOK
    <3>3. txAddrs' \in AddrTables
      BY <3>2, InsertReferencesType, Zenon
    <3> QED
      BY <2>5, <3>1, <3>3, <1>n, <1>t
      DEF CommitCreate, InTx, TypeOK, dbVars, commitVars, acceptVars, batchVars, procVars
  <2>6. CASE CommitEnd
    BY <2>6, <1>n, <1>t
    DEF CommitEnd, InstallTx, TypeOK, acceptVars, batchVars, procVars
  <2>7. CASE Publish
    BY <2>7, <1>n, <1>t
    DEF Publish, TypeOK, dbVars, txVars, acceptVars, batchVars
  <2> QED
    BY <1>12, <2>1, <2>2, <2>3, <2>4, <2>5, <2>6, <2>7, <2>8 DEF CommitWorker
<1>13. CASE CommitFails
  BY <1>13, <1>n, <1>t DEF CommitFails, RollbackTx, TypeOK, acceptVars, batchVars
<1>14. CASE ListenAccepted
  <2>1. Head(stream) \in Message /\ Tail(stream) \in Seq(Message)
    BY <1>14, <1>t DEF ListenAccepted, TypeOK
  <2>2. ASSUME NEW b \in Batch, NEW m \in Message
        PROVE  /\ [new |-> b.new \cup m.new, old |-> b.old \cup m.old] \in Batch
               /\ m.slot \in Slots
    BY DEF Batch, Message
  <2>3. pending' \in [Slots -> Batch]
    BY <1>14, <2>1, <2>2, <1>t DEF ListenAccepted, TypeOK
  <2> QED
    BY <1>14, <2>1, <2>3, <1>n, <1>t
    DEF ListenAccepted, TypeOK, dbVars, txVars, commitVars, acceptVars, procVars
<1>15. CASE AcceptFails
  BY <1>15, <1>n, <1>t, <1>b
  DEF AcceptFails, RollbackTx, TickEnd, TypeOK, commitVars, batchVars
<1>16. CASE AcceptWorker
  <2>1. ASSUME NEW s \in Slots, TickChoose(s)
        PROVE  TypeOK'
    BY <2>1, <1>n, <1>t
    DEF TickChoose, TypeOK, dbVars, txVars, commitVars, batchVars, procVars
  <2>9. CASE TickTake
    BY <2>9, <1>n, <1>t, <1>b
    DEF TickTake, TypeOK, dbVars, txVars, commitVars, procVars
  <2>2. CASE TickMisses \/ AcceptSkip \/ AcceptOnClosedDatabase
    BY <2>2, <1>n, <1>t, <1>b
    DEF TickMisses, AcceptSkip, AcceptOnClosedDatabase, TickEnd, TypeOK, dbVars, txVars,
        commitVars, batchVars, procVars
  <2>3. CASE AcceptCheck
    BY <2>3, <1>n, <1>t
    DEF AcceptCheck, TypeOK, dbVars, txVars, commitVars, batchVars, procVars
  <2>4. CASE AcceptBegin
    <3>1. acceptBatch.old \in SUBSET Outputs /\ acceptBatch.new \in SUBSET Outputs
      BY <1>t DEF TypeOK, Batch
    <3> QED
      BY <2>4, <3>1, <1>n, <1>t
      DEF AcceptBegin, BeginTx, TypeOK, dbVars, commitVars, batchVars, procVars
  <2>5. ASSUME NEW o \in Outputs, AcceptSpend(o)
        PROVE  TypeOK'
    <3>1. txRows' \in Tables
      BY <2>5, <1>t, MarkDeletedLemma DEF AcceptSpend, TypeOK
    <3> QED
      BY <2>5, <3>1, <1>n, <1>t
      DEF AcceptSpend, InTx, TypeOK, dbVars, commitVars, acceptVars, batchVars, procVars
  <2>6. ASSUME NEW o \in Outputs, AcceptCreate(o)
        PROVE  TypeOK'
    <3>1. txRows' \in Tables
      BY <2>6, <1>t, InsertRowLemma DEF AcceptCreate, TypeOK
    <3>2. txAddrs' \in InsertReferences(txAddrs, o, FALSE) /\ txAddrs \in AddrTables
      BY <2>6, <1>t DEF AcceptCreate, TypeOK
    <3>3. txAddrs' \in AddrTables
      BY <3>2, InsertReferencesType, Zenon
    <3> QED
      BY <2>6, <3>1, <3>3, <1>n, <1>t
      DEF AcceptCreate, InTx, TypeOK, dbVars, commitVars, acceptVars, batchVars, procVars
  <2>7. ASSUME NEW o \in Outputs, AcceptConflict(o)
        PROVE  TypeOK'
    BY <2>7, <1>n, <1>t, <1>b
    DEF AcceptConflict, RollbackTx, TickEnd, TypeOK, commitVars, batchVars
  <2>8. CASE AcceptEnd
    BY <2>8, <1>n, <1>t, <1>b
    DEF AcceptEnd, InstallTx, TickEnd, TypeOK, commitVars, batchVars, procVars
  <2> QED
    BY <1>16, <2>1, <2>2, <2>3, <2>4, <2>5, <2>6, <2>7, <2>8, <2>9 DEF AcceptWorker
<1> QED
  BY <1>2, <1>3, <1>5, <1>6, <1>7, <1>8, <1>9, <1>10, <1>11, <1>12, <1>13,
     <1>14, <1>15, <1>16, <1>17
  DEF Next, Start

-----------------------------------------------------------------------------
(* The rest of the invariant.                                                *)

Rest == NodeInv /\ SlotInv /\ TxOwner /\ TxInv /\ CommittedRowsAreLedger

\* An action that moves neither the node, nor the database, nor a transaction,
\* nor the commit worker out of its drop loop disturbs nothing.
LEMMA QuietStep ==
  ASSUME IInv,
         UNCHANGED <<nodeVars, dbVars, txVars, commitSlot, up>>,
         \/ commitPc' = commitPc
         \/ {commitPc, commitPc'} \subseteq {"drop", "dropping", "ready"},
         acceptPc' = "tx" <=> acceptPc = "tx",
         ~up => acceptPc' = "idle",
         up => lastCommitted' <= status
  PROVE  Rest'
<1>1. UNCHANGED <<nodeSlot, booked, spent, confirmed, settled, rows, status,
                  txBy, txRows, todoSpend, todoCreate, commitSlot, up>>
  BY DEF nodeVars, dbVars, txVars
<1>2. NodeInv'
  BY <1>1 DEF IInv, NodeInv
<1>3. SlotInv'
  <2>1. CASE commitPc' = commitPc
    BY <1>1, <2>1 DEF IInv, SlotInv
  <2>2. CASE {commitPc, commitPc'} \subseteq {"drop", "dropping", "ready"}
    BY <1>1, <2>2 DEF IInv, SlotInv
  <2> QED
    BY <2>1, <2>2
<1>4. TxOwner'
  <2>1. commitPc' = "tx" <=> commitPc = "tx"
    OBVIOUS
  <2> QED
    BY <1>1, <2>1 DEF IInv, TxOwner
<1>5. CommittedRowsAreLedger'
  BY <1>1 DEF IInv, CommittedRowsAreLedger, Committed, Stored, LedgerAt
<1>6. TxInv'
  BY <1>1 DEF IInv, TxInv, CommitProgress, Settled, Committed, Stored, LedgerAt,
              Created, Consumed
<1> QED
  BY <1>2, <1>3, <1>4, <1>5, <1>6 DEF Rest

\* Neither does a process that stops, whatever it was doing.
LEMMA DownStep ==
  ASSUME IInv, Down, UNCHANGED <<nodeVars, dbVars>>
  PROVE  Rest'
<1>1. UNCHANGED <<nodeSlot, booked, spent, confirmed, settled, rows, status>>
  BY DEF nodeVars, dbVars
<1>2. NodeInv'
  BY <1>1 DEF IInv, NodeInv
<1>3. SlotInv'
  BY <1>1 DEF IInv, SlotInv, Down, TypeOK, NodeTypeOK, Slots
<1>4. TxOwner' /\ TxInv'
  BY <1>1 DEF Down, TxOwner, TxInv
<1>5. CommittedRowsAreLedger'
  BY <1>1 DEF IInv, CommittedRowsAreLedger, Committed, Stored, LedgerAt
<1> QED
  BY <1>2, <1>3, <1>4, <1>5 DEF Rest

\* A start with the database at a status that the ledger of the node backs.
LEMMA UpStep ==
  ASSUME IInv, NEW s \in Slots, Up(s), status' = s, s <= nodeSlot,
         Committed(rows') = LedgerAt(s)
  PROVE  Rest'
<1>1. UNCHANGED <<nodeSlot, booked, spent, confirmed, settled, txBy, commitPc,
                  acceptPc>>
  BY DEF Up, nodeVars, acceptVars
<1>2. /\ commitPc = "idle" /\ acceptPc = "idle"
      /\ txBy = "none"
  BY DEF Up, IInv, SlotInv, TxOwner, TypeOK
<1>3. NodeInv'
  BY <1>1 DEF IInv, NodeInv
<1>4. SlotInv'
  BY <1>1, <1>2 DEF IInv, SlotInv, Up, Slots
<1>5. TxOwner' /\ TxInv'
  BY <1>1, <1>2 DEF Up, TxOwner, TxInv
<1>6. CommittedRowsAreLedger'
  BY <1>1 DEF CommittedRowsAreLedger, Committed, Stored, LedgerAt
<1> QED
  BY <1>3, <1>4, <1>5, <1>6 DEF Rest

\* What is imported is the ledger.
LEMMA FillStep ==
  ASSUME IInv, Filled, Up(nodeSlot)
  PROVE  Rest'
<1>1. nodeSlot \in Slots /\ status' = nodeSlot
  BY DEF IInv, TypeOK, NodeTypeOK, Filled
<1>2. \A o \in LedgerAt(nodeSlot) :
        /\ NewRow(booked[o], TRUE) # NoRow
        /\ NewRow(booked[o], TRUE).committed = TRUE
  <2>1. ASSUME NEW o \in LedgerAt(nodeSlot)
        PROVE  booked[o] \in Nat
    BY DEF IInv, TypeOK, NodeTypeOK, NodeInv, LedgerAt
  <2> QED
    BY <2>1, NewRowLemma
<1>3. LedgerAt(nodeSlot) \subseteq Outputs
  BY DEF LedgerAt, IInv, TypeOK, NodeTypeOK
<1>4. Committed(rows') = LedgerAt(nodeSlot)
  BY <1>2, <1>3 DEF Filled, Committed, Stored
<1>5. nodeSlot <= nodeSlot
  BY <1>1 DEF Slots
<1> QED
  BY <1>1, <1>4, <1>5, UpStep

\* A refused import leaves no status for the rows to live up to.
LEMMA RefuseStep ==
  ASSUME IInv, Refuse
  PROVE  Rest'
<1>1. /\ UNCHANGED <<nodeSlot, booked, spent, confirmed, settled, txBy, commitPc,
                     commitSlot, acceptPc, up>>
      /\ ~up /\ status' = NoSlot /\ txRows' = rows'
  BY DEF Refuse, nodeVars, commitVars, acceptVars, procVars
<1>2. /\ commitPc = "idle" /\ acceptPc = "idle"
      /\ txBy = "none"
  BY <1>1 DEF IInv, SlotInv, TxOwner, TypeOK
<1>3. NodeInv'
  BY <1>1 DEF IInv, NodeInv
<1>4. SlotInv'
  BY <1>1, <1>2 DEF IInv, SlotInv, TypeOK, NodeTypeOK, Slots, NoSlot
<1>5. TxOwner' /\ TxInv'
  BY <1>1, <1>2 DEF TxOwner, TxInv
<1>6. CommittedRowsAreLedger'
  BY <1>1 DEF CommittedRowsAreLedger
<1> QED
  BY <1>3, <1>4, <1>5, <1>6 DEF Rest

\* A restart drops no committed row.
LEMMA ResumeStep ==
  ASSUME IInv, Resume
  PROVE  Rest'
<1>1. status \in Slots /\ status' = status /\ status <= nodeSlot
  BY DEF Resume, IInv, TypeOK, SlotInv
<1>2. Committed(rows') = Committed(rows)
  BY CleanupLemma, MaxSlotAssumption DEF Resume, IInv, TypeOK
<1>3. Committed(rows') = LedgerAt(status)
  BY <1>2 DEF Resume, IInv, CommittedRowsAreLedger
<1> QED
  BY <1>1, <1>3, UpStep DEF Resume

\* The node's own steps leave the slots alone that the index has seen.
LEMMA NodeStep ==
  ASSUME IInv, NodeAccepts \/ NodeCommits
  PROVE  Rest'
<1> DEFINE Moves == \/ \E r \in Slots, new, old \in SUBSET Outputs : NodeAccept(r, new, old)
                    \/ \E new, old \in SUBSET Outputs : NodeCommit(new, old)
<1>1. Moves
  BY DEF NodeAccepts, NodeCommits
<1>2. UNCHANGED <<rows, status, txBy, txRows, todoSpend, todoCreate, commitPc,
                  commitSlot, acceptPc, up, lastCommitted>>
  BY DEF NodeAccepts, NodeCommits, dbVars, txVars, commitVars, acceptVars, procVars
<1>3. ASSUME NEW s \in Slots, s <= nodeSlot
      PROVE  /\ NodeInv' /\ nodeSlot <= nodeSlot'
             /\ LedgerAt(s)' = LedgerAt(s)
             /\ Created(s)'  = Created(s)
             /\ Consumed(s)' = Consumed(s)
  BY <1>1, <1>3, NodeKeepsHistory DEF IInv, TypeOK
<1>4. NodeInv' /\ nodeSlot <= nodeSlot' /\ nodeSlot \in Int /\ nodeSlot' \in Int
  <2>1. nodeSlot \in Slots /\ nodeSlot <= nodeSlot
    BY DEF IInv, TypeOK, NodeTypeOK, Slots
  <2>2. NodeTypeOK'
    BY <1>1, <2>1, NodeKeepsHistory DEF IInv, TypeOK
  <2> QED
    BY <1>3, <2>1, <2>2 DEF NodeTypeOK, Slots
<1>5. SlotInv'
  BY <1>2, <1>4 DEF IInv, SlotInv, TypeOK, Slots, NoSlot
<1>6. TxOwner'
  BY <1>2 DEF IInv, TxOwner
<1>7. CommittedRowsAreLedger'
  <2>1. CASE status = NoSlot
    BY <1>2, <2>1 DEF CommittedRowsAreLedger
  <2>2. CASE status # NoSlot
    <3>1. status \in Slots /\ status <= nodeSlot
      BY <2>2 DEF IInv, TypeOK, SlotInv
    <3>2. LedgerAt(status)' = LedgerAt(status)
      BY <3>1, <1>2, <1>3 DEF LedgerAt
    <3> QED
      BY <1>2, <3>2, <2>2 DEF IInv, CommittedRowsAreLedger, Committed, Stored
  <2> QED
    BY <2>1, <2>2
<1>8. TxInv'
  <2>1. commitSlot \in Slots /\ commitSlot <= nodeSlot
    BY DEF IInv, TypeOK, SlotInv
  <2>2. CASE txBy = "commit"
    <3>1. status \in Slots /\ status <= nodeSlot
      BY <2>2 DEF IInv, TypeOK, SlotInv, TxOwner, Slots, NoSlot
    <3>2. LedgerAt(status)' = LedgerAt(status)
      BY <3>1, <1>2, <1>3 DEF LedgerAt
    <3>3. /\ Created(commitSlot)' = Created(commitSlot)
          /\ Consumed(commitSlot)' = Consumed(commitSlot)
      BY <2>1, <1>2, <1>3 DEF Created, Consumed
    <3>4. Committed(txRows)' = Committed(txRows)
      BY <1>2 DEF Committed, Stored
    <3>5. CommitProgress /\ Settled(txRows, commitSlot)
      BY <2>2 DEF IInv, TxInv
    <3>6. CommitProgress'
      BY <1>2, <3>2, <3>3, <3>4, <3>5 DEF CommitProgress
    <3>7. Settled(txRows, commitSlot)'
      BY <1>2, <3>5 DEF Settled, Stored
    <3> QED
      BY <1>2, <2>2, <3>6, <3>7 DEF TxInv
  <2>3. CASE txBy # "commit"
    BY <1>2, <2>3 DEF IInv, TxInv, Committed, Stored
  <2> QED
    BY <2>2, <2>3
<1> QED
  BY <1>4, <1>5, <1>6, <1>7, <1>8 DEF Rest

\* The steps of the ledger update worker.
LEMMA CommitStep ==
  ASSUME IInv, CommitWorker \/ CommitFails
  PROVE  Rest'
<1> USE DEF Slots, NoSlot
<1>1. /\ commitSlot \in Slots /\ nodeSlot \in Slots /\ status \in Slots \cup {NoSlot}
      /\ rows \in Tables /\ txRows \in Tables
      /\ NodeTypeOK
  BY DEF IInv, TypeOK, NodeTypeOK
<1>2. nodeVars' = nodeVars
  BY DEF CommitWorker, CommitFails, ReceiveLedgerUpdate, ChooseDrop, DropPending,
         NothingToDrop, CommitBegin,
         CommitSpend, CommitCreate, CommitEnd, Publish, InTx
<1>3. UNCHANGED <<nodeSlot, booked, spent, confirmed, settled>>
  BY <1>2 DEF nodeVars
<1>4. NodeInv'
  BY <1>3 DEF IInv, NodeInv
<1>5. ASSUME UNCHANGED <<rows, status>>
      PROVE  CommittedRowsAreLedger'
  BY <1>3, <1>5 DEF IInv, CommittedRowsAreLedger, Committed, Stored, LedgerAt
<1>6. commitPc # "idle" => up /\ status \in Slots
  BY <1>1 DEF IInv, SlotInv
<1>7. CASE ReceiveLedgerUpdate
  <2>1. UNCHANGED <<rows, status, txBy, txRows, up, lastCommitted, acceptPc>>
    BY <1>7 DEF ReceiveLedgerUpdate, dbVars, txVars, procVars, acceptVars
  <2>2. SlotInv'
    BY <1>7, <2>1, <1>1, <1>3 DEF ReceiveLedgerUpdate, IInv, SlotInv
  <2>3. TxOwner'
    BY <1>7, <2>1 DEF ReceiveLedgerUpdate, IInv, TxOwner
  <2>4. TxInv'
    BY <1>7, <2>1 DEF ReceiveLedgerUpdate, IInv, TxOwner, TxInv, Committed, Stored
  <2> QED
    BY <2>1, <2>2, <2>3, <2>4, <1>4, <1>5 DEF Rest
<1>8. CASE DropPending \/ NothingToDrop \/ \E s \in Slots : ChooseDrop(s)
  BY <1>8, QuietStep
  DEF ChooseDrop, DropPending, NothingToDrop, acceptVars, procVars, IInv, SlotInv
<1>9. CASE CommitBegin
  <2>1. UNCHANGED <<rows, status, up, lastCommitted, acceptPc, commitSlot>>
    BY <1>9 DEF CommitBegin, dbVars, procVars, acceptVars
  <2>2. /\ commitPc = "ready" /\ commitPc' = "tx" /\ txBy' = "commit" /\ txBy = "none"
        /\ todoSpend' = Consumed(commitSlot)
        /\ todoCreate' = Created(commitSlot) \ Consumed(commitSlot)
        /\ txRows' = RemoveUncommittedChangesUpUntilSlot(rows, commitSlot)
    BY <1>9 DEF CommitBegin, BeginTx
  <2>3. SlotInv'
    BY <2>1, <2>2, <1>3 DEF IInv, SlotInv
  <2>4. TxOwner'
    BY <2>1, <2>2 DEF IInv, TxOwner
  <2>5. Committed(txRows') = LedgerAt(status) /\ Settled(txRows', commitSlot)
    <3>1. Committed(txRows') = Committed(rows) /\ Settled(txRows', commitSlot)
      BY <2>2, <1>1, CleanupLemma
    <3> QED
      BY <3>1, <2>2, <1>6 DEF IInv, CommittedRowsAreLedger
  <2>6. CommitProgress'
    BY <2>1, <2>2, <2>5, <1>3
    DEF CommitProgress, Consumed, Created, LedgerAt, Committed, Stored
  <2>7. TxInv'
    BY <2>1, <2>2, <2>5, <2>6 DEF TxInv, Settled, Stored
  <2> QED
    BY <2>1, <2>3, <2>4, <2>7, <1>4, <1>5 DEF Rest
<1>10. ASSUME NEW o \in Outputs, CommitSpend(o) \/ CommitCreate(o)
       PROVE  Rest'
  <2>1. UNCHANGED <<rows, status, up, lastCommitted, acceptPc, commitPc,
                    commitSlot, txBy>>
    BY <1>10 DEF CommitSpend, CommitCreate, InTx, dbVars, commitVars, acceptVars, procVars
  <2>2. commitPc = "tx" /\ txBy = "commit"
    BY <1>10 DEF CommitSpend, CommitCreate, IInv, TxOwner
  <2>3. SlotInv' /\ TxOwner'
    BY <2>1, <2>2, <1>3 DEF IInv, SlotInv, TxOwner
  <2> DEFINE spend  == Consumed(commitSlot)
             create == Created(commitSlot) \ Consumed(commitSlot)
             ledger == LedgerAt(status)
  <2>4. /\ todoSpend \subseteq spend /\ todoCreate \subseteq create
        /\ Committed(txRows) =
             (ledger \ (spend \ todoSpend)) \cup (create \ todoCreate)
        /\ Settled(txRows, commitSlot)
    BY <2>2 DEF IInv, TxInv, CommitProgress
  <2>5. /\ todoSpend' \subseteq spend /\ todoCreate' \subseteq create
        /\ Committed(txRows') =
             (ledger \ (spend \ todoSpend')) \cup (create \ todoCreate')
        /\ Settled(txRows', commitSlot)
    <3>1. CASE CommitSpend(o)
      <4>1. /\ o \in todoSpend /\ todoSpend' = todoSpend \ {o}
            /\ todoCreate' = todoCreate
            /\ txRows' = DeleteRow(txRows, o)
        BY <3>1 DEF CommitSpend
      <4>2. Committed(txRows') = Committed(txRows) \ {o} /\ Settled(txRows', commitSlot)
        BY <4>1, <1>1, <2>4, DeleteRowLemma
      <4>3. o \in spend /\ o \notin create
        BY <4>1, <2>4
      <4> HIDE DEF spend, create, ledger
      <4> QED
        BY <4>1, <4>2, <4>3, <2>4
    <3>2. CASE CommitCreate(o)
      <4>1. /\ o \in todoCreate /\ todoCreate' = todoCreate \ {o}
            /\ todoSpend' = todoSpend
            /\ txRows' = UpsertCommitted(txRows, o, commitSlot)
        BY <3>2 DEF CommitCreate
      <4>2. Committed(txRows') = Committed(txRows) \cup {o} /\ Settled(txRows', commitSlot)
        BY <4>1, <1>1, <2>4, UpsertLemma
      <4> HIDE DEF spend, create, ledger
      <4> QED
        BY <4>1, <4>2, <2>4
    <3> QED
      BY <1>10, <3>1, <3>2
  <2>6. spend' = spend /\ create' = create /\ ledger' = ledger
    BY <2>1, <1>3 DEF Consumed, Created, LedgerAt
  <2>7. CommitProgress'
    BY <2>5, <2>6 DEF CommitProgress, Committed, Stored
  <2>8. TxInv'
    BY <2>1, <2>2, <2>5, <2>7 DEF TxInv, Settled, Stored
  <2> QED
    BY <2>1, <2>3, <2>8, <1>4, <1>5 DEF Rest
<1>11. CASE CommitEnd
  <2>1. /\ commitPc = "tx" /\ commitPc' = "publish" /\ txBy' = "none"
        /\ todoSpend = {} /\ todoCreate = {}
        /\ rows' = txRows /\ txRows' = txRows /\ status' = commitSlot
        /\ UNCHANGED <<up, lastCommitted, acceptPc, commitSlot>>
    BY <1>11 DEF CommitEnd, InstallTx, procVars, acceptVars
  <2>2. txBy = "commit" /\ status = commitSlot - 1 /\ up
    BY <2>1, <1>6 DEF IInv, TxOwner, SlotInv
  <2>3. commitSlot - 1 \in Slots
    BY <2>1, <2>2, <1>6
  <2>4. Committed(txRows) =
          (LedgerAt(commitSlot - 1) \ Consumed(commitSlot))
            \cup (Created(commitSlot) \ Consumed(commitSlot))
    BY <2>1, <2>2 DEF IInv, TxInv, CommitProgress
  <2>5. Committed(txRows) = LedgerAt(commitSlot)
    BY <2>3, <2>4, <1>1, LedgerStep DEF IInv
  <2>6. CommittedRowsAreLedger'
    BY <2>1, <2>5, <1>3 DEF CommittedRowsAreLedger, LedgerAt, Committed, Stored
  <2>7. SlotInv'
    BY <2>1, <2>2, <1>1, <1>3 DEF IInv, SlotInv, TypeOK
  <2>8. TxOwner' /\ TxInv'
    BY <2>1, <2>2 DEF IInv, TxOwner, TxInv
  <2> QED
    BY <2>6, <2>7, <2>8, <1>4 DEF Rest
<1>12. CASE Publish
  <2>1. /\ commitPc = "publish" /\ commitPc' = "idle"
        /\ lastCommitted' = IF lastCommitted < commitSlot THEN commitSlot
                                                          ELSE lastCommitted
        /\ UNCHANGED <<rows, status, txBy, txRows, up, acceptPc, commitSlot>>
    BY <1>12 DEF Publish, dbVars, txVars, acceptVars
  <2>2. SlotInv'
    BY <2>1, <1>3, <1>6 DEF IInv, SlotInv
  <2>3. TxOwner' /\ TxInv'
    BY <2>1 DEF IInv, TxOwner, TxInv, Committed, Stored
  <2> QED
    BY <2>1, <2>2, <2>3, <1>4, <1>5 DEF Rest
<1>13. CASE CommitFails
  <2>1. /\ commitPc = "tx" /\ commitPc' = "stopped" /\ txBy' = "none"
        /\ txRows' = rows
        /\ UNCHANGED <<rows, status, up, lastCommitted, acceptPc, commitSlot>>
    BY <1>13 DEF CommitFails, RollbackTx, acceptVars
  <2>2. SlotInv'
    BY <2>1, <1>3, <1>6 DEF IInv, SlotInv
  <2>3. TxOwner' /\ TxInv'
    BY <2>1 DEF IInv, TxOwner, TxInv
  <2> QED
    BY <2>1, <2>2, <2>3, <1>4, <1>5 DEF Rest
<1> QED
  BY <1>7, <1>8, <1>9, <1>10, <1>11, <1>12, <1>13 DEF CommitWorker

\* The steps of the accepted transactions worker.
LEMMA AcceptStep ==
  ASSUME IInv, AcceptWorker \/ AcceptFails \/ ListenAccepted
  PROVE  Rest'
<1>1. up => lastCommitted <= status
  BY DEF IInv, SlotInv
<1>2. CASE TickTake \/ \E s \in Slots : TickChoose(s)
  BY <1>1, <1>2, QuietStep DEF TickChoose, TickTake, procVars, commitVars, IInv, SlotInv
<1>3. CASE TickMisses \/ AcceptSkip \/ AcceptOnClosedDatabase
  BY <1>1, <1>3, QuietStep
  DEF TickMisses, AcceptSkip, AcceptOnClosedDatabase, TickEnd, procVars, commitVars
<1>4. CASE AcceptCheck
  BY <1>1, <1>4, QuietStep DEF AcceptCheck, procVars, commitVars, IInv, SlotInv
<1>5. CASE ListenAccepted
  BY <1>1, <1>5, QuietStep
  DEF ListenAccepted, procVars, acceptVars, commitVars, IInv, SlotInv
<1>6. ASSUME nodeVars' = nodeVars,
             UNCHANGED <<status, commitPc, commitSlot, up, lastCommitted>>,
             up, Committed(rows') = Committed(rows), TxOwner', TxInv'
      PROVE  Rest'
  <2>1. UNCHANGED <<nodeSlot, booked, spent, confirmed, settled>>
    BY <1>6 DEF nodeVars
  <2>2. NodeInv'
    BY <2>1 DEF IInv, NodeInv
  <2>3. SlotInv'
    BY <2>1, <1>6 DEF IInv, SlotInv
  <2>4. CommittedRowsAreLedger'
    BY <2>1, <1>6 DEF IInv, CommittedRowsAreLedger, LedgerAt, Committed, Stored
  <2> QED
    BY <2>2, <2>3, <2>4, <1>6 DEF Rest
<1>7. acceptPc # "idle" => up
  BY DEF IInv, SlotInv
<1>8. CASE AcceptBegin
  <2>1. /\ acceptPc = "passed" /\ acceptPc' = "tx"
        /\ txBy = "none" /\ txBy' = "accept"
        /\ UNCHANGED <<rows, status, txRows, commitPc, commitSlot, up, lastCommitted>>
        /\ nodeVars' = nodeVars
    BY <1>8 DEF AcceptBegin, BeginTx, dbVars, commitVars, procVars
  <2>2. txRows = rows
    BY <2>1 DEF IInv, TxOwner
  <2>3. TxOwner' /\ TxInv' /\ Committed(rows') = Committed(rows)
    BY <2>1, <2>2 DEF IInv, TxOwner, TxInv
  <2> QED
    BY <2>1, <2>3, <1>6, <1>7
<1>9. ASSUME NEW o \in Outputs, AcceptSpend(o) \/ AcceptCreate(o)
      PROVE  Rest'
  <2>1. /\ acceptPc = "tx"
        /\ UNCHANGED <<rows, status, txBy, acceptPc, commitPc, commitSlot, up,
                       lastCommitted>>
        /\ nodeVars' = nodeVars
    BY <1>9 DEF AcceptSpend, AcceptCreate, InTx, dbVars, commitVars, acceptVars, procVars
  <2>2. txBy = "accept" /\ txRows \in Tables /\ acceptSlot \in Nat
    BY <2>1 DEF IInv, TxOwner, TypeOK, Slots
  <2>3. Committed(txRows') = Committed(txRows)
    <3>1. CASE AcceptSpend(o)
      <4>1. txRows' = MarkDeleted(txRows, o, acceptSlot)
        BY <3>1 DEF AcceptSpend
      <4> QED
        BY <4>1, <2>2, MarkDeletedLemma
    <3>2. CASE AcceptCreate(o)
      <4>1. txRows' = InsertRow(txRows, o, acceptSlot) /\ txRows[o] = NoRow
        BY <3>2 DEF AcceptCreate
      <4> QED
        BY <4>1, <2>2, InsertRowLemma
    <3> QED
      BY <3>1, <3>2, <1>9
  <2>4. TxOwner' /\ TxInv'
    BY <2>1, <2>2, <2>3 DEF IInv, TxOwner, TxInv, Committed, Stored
  <2> QED
    BY <2>1, <2>4, <1>6, <1>7
<1>10. CASE AcceptEnd
  <2>1. /\ acceptPc = "tx" /\ acceptPc' = "idle" /\ txBy' = "none"
        /\ rows' = txRows /\ txRows' = txRows
        /\ UNCHANGED <<status, commitPc, commitSlot, up, lastCommitted>>
        /\ nodeVars' = nodeVars
    BY <1>10 DEF AcceptEnd, InstallTx, TickEnd, commitVars, procVars
  <2>2. /\ txBy = "accept"
        /\ Committed(rows') = Committed(rows)
    BY <2>1 DEF IInv, TxOwner, TxInv
  <2>3. TxOwner' /\ TxInv'
    BY <2>1, <2>2 DEF IInv, TxOwner, TxInv
  <2> QED
    BY <2>1, <2>2, <2>3, <1>6, <1>7
<1>11. ASSUME \/ AcceptFails
              \/ \E o \in Outputs : AcceptConflict(o)
       PROVE  Rest'
  <2>1. /\ acceptPc = "tx" /\ acceptPc' = "idle" /\ txBy' = "none"
        /\ rows' = rows /\ txRows' = rows
        /\ UNCHANGED <<status, commitPc, commitSlot, up, lastCommitted>>
        /\ nodeVars' = nodeVars
    BY <1>11 DEF AcceptFails, AcceptConflict, RollbackTx, TickEnd, commitVars
  <2>2. TxOwner' /\ TxInv' /\ Committed(rows') = Committed(rows)
    BY <2>1 DEF IInv, TxOwner, TxInv
  <2> QED
    BY <2>1, <2>2, <1>6, <1>7
<1> QED
  BY <1>2, <1>3, <1>4, <1>5, <1>8, <1>9, <1>10, <1>11 DEF AcceptWorker

-----------------------------------------------------------------------------
(* The theorems.                                                             *)

\* An empty database and a process that is not running satisfy IInv.
LEMMA InitInv ==
  ASSUME Init
  PROVE  IInv
<1> USE MaxSlotAssumption, MaxFaultsAssumption DEF Slots, NoSlot
<1>1. NodeTypeOK /\ NodeInv
  <2>1. /\ nodeSlot = 0 /\ settled = {} /\ confirmed \in SUBSET Outputs
        /\ booked = [o \in Outputs |-> IF o \in confirmed THEN 0 ELSE NoSlot]
        /\ spent = [o \in Outputs |-> NoSlot]
    BY DEF Init, NodeInit
  <2>2. NodeTypeOK
    BY <2>1 DEF NodeTypeOK
  <2>3. ASSUME NEW o \in confirmed
        PROVE  booked[o] \in 0..nodeSlot
    <3>1. booked[o] = 0 /\ nodeSlot = 0
      BY <2>1
    <3> QED
      BY <3>1
  <2>4. NodeInv
    BY <2>1, <2>3 DEF NodeInv
  <2> QED
    BY <2>2, <2>4
<1>2. rows \in Tables /\ txRows \in Tables /\ txRows = rows
  BY DEF Init, EmptyTable, Tables
<1>3. addrs \in AddrTables /\ txAddrs \in AddrTables
  BY DEF Init, NoAddrs, AddrTables
<1>4. /\ NoBatch \in Batch
      /\ pending \in [Slots -> Batch]
      /\ stream \in Seq(Message)
  BY DEF Init, NoPending, NoBatch, Batch
<1>5. TypeOK
  <2>1. acceptBatch \in Batch /\ up \in BOOLEAN /\ faults \in 0..MaxFaults
    BY <1>4 DEF Init
  <2> QED
    BY <1>1, <1>2, <1>3, <1>4, <2>1 DEF Init, TypeOK
<1>6. SlotInv
  BY <1>1 DEF Init, SlotInv, NodeTypeOK
<1>7. TxOwner /\ TxInv /\ CommittedRowsAreLedger
  BY <1>2 DEF Init, TxOwner, TxInv, CommittedRowsAreLedger
<1> QED
  BY <1>1, <1>5, <1>6, <1>7 DEF IInv

\* Every step keeps IInv.
LEMMA NextInv ==
  ASSUME IInv, [Next]_vars
  PROVE  IInv'
<1>1. CASE Next
  <2>1. TypeOK'
    BY <1>1, TypeStep
  <2>2. CASE Crash \/ Stop
    <3>1. Down /\ UNCHANGED <<nodeVars, dbVars>>
      BY <2>2 DEF Crash, Stop
    <3>2. Rest'
      BY <3>1, DownStep
    <3> QED
      BY <2>1, <3>2 DEF IInv, Rest
  <2>3. CASE Fill \/ Reset
    <3>1. Rest'
      BY <2>3, FillStep DEF Fill, Reset
    <3> QED
      BY <2>1, <3>1 DEF IInv, Rest
  <2>9. CASE Refuse
    BY <2>1, <2>9, RefuseStep DEF IInv, Rest
  <2>4. CASE ReadStatus \/ Terminating
    <3>1. /\ UNCHANGED <<nodeVars, dbVars, txVars, commitPc, commitSlot, acceptVars, up>>
          /\ up
          /\ lastCommitted' = status \/ lastCommitted' = lastCommitted
      BY <2>4 DEF ReadStatus, Terminating, vars, procVars, commitVars
    <3>2. status \in Int /\ (up => lastCommitted <= status)
      BY DEF IInv, TypeOK, SlotInv, Slots, NoSlot
    <3>3. Rest'
      BY <3>1, <3>2, QuietStep DEF acceptVars
    <3> QED
      BY <2>1, <3>3 DEF IInv, Rest
  <2>5. CASE Resume
    BY <2>1, <2>5, ResumeStep DEF IInv, Rest
  <2>6. CASE NodeAccepts \/ NodeCommits
    BY <2>1, <2>6, NodeStep DEF IInv, Rest
  <2>7. CASE CommitWorker \/ CommitFails
    BY <2>1, <2>7, CommitStep DEF IInv, Rest
  <2>8. CASE AcceptWorker \/ AcceptFails \/ ListenAccepted
    BY <2>1, <2>8, AcceptStep DEF IInv, Rest
  <2> QED
    BY <1>1, <2>2, <2>3, <2>4, <2>5, <2>6, <2>7, <2>8, <2>9 DEF Next, Start
<1>2. CASE UNCHANGED vars
  <2>1. UNCHANGED <<nodeVars, dbVars, txVars, commitVars, acceptVars, batchVars,
                    procVars>>
    BY <1>2 DEF vars
  <2>2. UNCHANGED <<nodeSlot, booked, spent, confirmed, settled, rows, addrs, status,
                    txBy, txRows, txAddrs, todoSpend, todoCreate, commitPc,
                    commitSlot, dropSlot, acceptPc, acceptSlot, acceptBatch, stream,
                    pending, up, lastCommitted, shutdown, faults>>
    BY <2>1 DEF nodeVars, dbVars, txVars, commitVars, acceptVars, batchVars, procVars
  <2>3. TypeOK'
    BY <2>2 DEF IInv, TypeOK, NodeTypeOK
  <2>4. Rest'
    BY <2>1, <2>2, QuietStep DEF IInv, SlotInv
  <2> QED
    BY <2>3, <2>4 DEF IInv, Rest
<1> QED
  BY <1>1, <1>2

\* IInv holds in every state of every behaviour.
THEOREM Invariance == Spec => []IInv
BY InitInv, NextInv, PTL DEF Spec

\* Every variable stays in its type, whatever the workers, the node and the
\* faults do.
THEOREM TypeCorrectness == Spec => []TypeOK
<1>1. IInv => TypeOK
  BY DEF IInv
<1> QED
  BY Invariance, <1>1, PTL

\* The committed rows are the node's ledger at the status, for every
\* interleaving of the two workers, rollback, conflict, crash and restart
\* (CommitLedgerUpdate, AcceptLedgerUpdate, RemoveUncommittedChanges).
THEOREM CommittedCorrectness == Spec => []CommittedRowsAreLedger
<1>1. IInv => CommittedRowsAreLedger
  BY DEF IInv
<1> QED
  BY Invariance, <1>1, PTL

\* The in-memory slot that AcceptLedgerUpdate compares with never runs ahead
\* of the database.
THEOREM NoEarlySkip == Spec => []LastCommittedIsCommitted
<1>1. IInv => LastCommittedIsCommitted
  BY DEF IInv, SlotInv, LastCommittedIsCommitted
<1> QED
  BY Invariance, <1>1, PTL

\* A commit leaves no uncommitted change of its slot or an earlier one, even
\* one a late accepted batch had put there.
THEOREM CommitCleansUp == Spec => CommitSettles
<1>1. ASSUME IInv, [Next]_vars
      PROVE  [CommitEnd => Settled(rows', commitSlot)]_vars
  <2>1. ASSUME CommitEnd
        PROVE  Settled(rows', commitSlot)
    <3>1. rows' = txRows /\ txBy = "commit"
      BY <2>1, <1>1 DEF CommitEnd, InstallTx, IInv, TxOwner
    <3> QED
      BY <3>1, <1>1 DEF IInv, TxInv
  <2> QED
    BY <2>1
<1> QED
  BY Invariance, <1>1, PTL DEF Spec, CommitSettles
=============================================================================
