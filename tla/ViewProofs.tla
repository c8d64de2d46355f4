----------------------------- MODULE ViewProofs -----------------------------
(* What LedgerView takes from every behaviour of the two workers, for every  *)
(* set of outputs, every number of slots and of faults: ViewInv is inductive, *)
(* and the steps of Indexer that change the tables change the view so.       *)
EXTENDS IndexerProofs

-----------------------------------------------------------------------------
(* Bookings.                                                                 *)

\* The slots of the node only grow: an output is booked again for a later slot
\* than before, and consumed no earlier than it was booked.
LEMMA BookingsGrow ==
  ASSUME NodeTypeOK, NodeInv,
         \/ \E r \in Slots, new, old \in SUBSET Outputs : NodeAccept(r, new, old)
         \/ \E new, old \in SUBSET Outputs : NodeCommit(new, old)
  PROVE  \A o \in Outputs : booked[o] <= booked'[o]
<1> USE MaxSlotAssumption DEF Slots, NoSlot, NodeTypeOK, Bookable, Alive
<1>1. ASSUME NEW r \in Slots, NEW new \in SUBSET Outputs,
             NEW old \in SUBSET Outputs, NodeAccept(r, new, old)
      PROVE  \A o \in Outputs : booked[o] <= booked'[o]
  BY <1>1 DEF NodeAccept
<1>2. ASSUME NEW new \in SUBSET Outputs, NEW old \in SUBSET Outputs,
             NodeCommit(new, old)
      PROVE  \A o \in Outputs : booked[o] <= booked'[o]
  BY <1>2 DEF NodeCommit
<1> QED
  BY <1>1, <1>2

\* Nobody but the node changes what the node keeps.
LEMMA NodeOrQuiet ==
  ASSUME Next
  PROVE  NodeAccepts \/ NodeCommits \/ nodeVars' = nodeVars
BY DEF Next, Start, CommitWorker, AcceptWorker, ListenAccepted, ReadStatus, Terminating,
       ReceiveLedgerUpdate, ChooseDrop, DropPending, NothingToDrop, CommitBegin,
       CommitEnd, Publish, CommitFails, CommitSpend, CommitCreate, AcceptSpend,
       AcceptCreate, AcceptSkip, AcceptCheck, AcceptBegin, AcceptEnd, AcceptFails,
       AcceptConflict, AcceptOnClosedDatabase, TickChoose, TickTake, TickMisses, Crash,
       Stop, Fill, Reset, Resume, Refuse, Up, InTx, vars

LEMMA BookedGrows ==
  ASSUME ViewInv, Next
  PROVE  \A o \in Outputs : /\ booked[o] \in Int /\ booked'[o] \in Int
                            /\ booked[o] <= booked'[o]
<1>1. NodeTypeOK /\ NodeTypeOK' /\ NodeInv
  BY TypeStep DEF ViewInv, IInv, TypeOK
<1>2. \A o \in Outputs : booked[o] \in Int /\ booked'[o] \in Int
  BY <1>1 DEF NodeTypeOK, Slots, NoSlot
<1>3. CASE NodeAccepts \/ NodeCommits
  BY <1>1, <1>2, <1>3, BookingsGrow DEF NodeAccepts, NodeCommits
<1>4. CASE nodeVars' = nodeVars
  BY <1>2, <1>4 DEF nodeVars
<1> QED
  BY <1>3, <1>4, NodeOrQuiet

-----------------------------------------------------------------------------
(* Batches on their way.                                                     *)

\* What is announced is an output of the model.
LEMMA BatchTypes ==
  ASSUME TypeOK
  PROVE  /\ \A n \in DOMAIN stream : /\ stream[n] \in Message
                                     /\ stream[n].slot \in Slots
                                     /\ stream[n].new \subseteq Outputs
                                     /\ stream[n].old \subseteq Outputs
         /\ \A s \in Slots : /\ pending[s] \in Batch
                             /\ pending[s].new \subseteq Outputs
                             /\ pending[s].old \subseteq Outputs
         /\ acceptBatch.new \subseteq Outputs /\ acceptBatch.old \subseteq Outputs
         /\ acceptSlot \in Slots
         /\ \A s \in Slots : s \in Int
<1>1. /\ stream \in Seq(Message) /\ pending \in [Slots -> Batch]
      /\ acceptBatch \in Batch /\ acceptSlot \in Slots
  BY DEF TypeOK
<1>2. \A n \in DOMAIN stream : stream[n] \in Message
  BY <1>1
<1>3. \A m \in Message : m.slot \in Slots /\ m.new \subseteq Outputs /\ m.old \subseteq Outputs
  BY DEF Message
<1>4. \A b \in Batch : b.new \subseteq Outputs /\ b.old \subseteq Outputs
  BY DEF Batch
<1> QED
  BY <1>1, <1>2, <1>3, <1>4 DEF Slots

\* How a batch travels: the node's message goes behind the others, the listener
\* moves the first of them to its pending batch, the ticker takes a pending batch
\* as it is, and all that is dropped is gone.
Travels ==
  /\ \A n \in DOMAIN stream' :
       \/ \E m \in DOMAIN stream : stream'[n] = stream[m]
       \/ \E s \in Slots, new, old \in SUBSET Outputs :
            NodeAccept(s, new, old) /\ stream'[n] = [slot |-> s, new |-> new, old |-> old]
  /\ \A s \in Slots :
       \/ pending'[s] = pending[s] \/ pending'[s] = NoBatch
       \/ \E m \in DOMAIN stream :
            /\ stream[m].slot = s
            /\ pending'[s].new = pending[s].new \cup stream[m].new
            /\ pending'[s].old = pending[s].old \cup stream[m].old
  /\ \/ acceptBatch' = NoBatch
     \/ UNCHANGED <<acceptSlot, acceptBatch>>
     \/ acceptSlot' = acceptSlot /\ acceptBatch' = pending[acceptSlot]

LEMMA BatchesTravel ==
  ASSUME ViewInv, Next
  PROVE  Travels
<1>t. /\ TypeOK /\ acceptSlot \in Slots /\ stream \in Seq(Message)
      /\ pending \in [Slots -> Batch]
      /\ acceptPc \in {"idle", "chosen"} => acceptBatch = NoBatch
  BY DEF ViewInv, IInv, TypeOK
<1>1. CASE /\ UNCHANGED <<stream, pending>>
           /\ UNCHANGED <<acceptSlot, acceptBatch>> \/ acceptBatch' = NoBatch
  BY <1>1 DEF Travels
<1>2. CASE NodeAccepts
  <2>1. PICK s \in Slots, new \in SUBSET Outputs, old \in SUBSET Outputs :
          /\ NodeAccept(s, new, old)
          /\ stream' = IF up THEN Append(stream, [slot |-> s, new |-> new, old |-> old])
                             ELSE stream
          /\ UNCHANGED <<dbVars, txVars, commitVars, acceptVars, pending, procVars>>
    BY <1>2 DEF NodeAccepts
  <2>2. UNCHANGED <<pending, acceptSlot, acceptBatch>>
    BY <2>1 DEF acceptVars
  <2>3. CASE up
    <3> DEFINE k == Len(stream) + 1
    <3>1. /\ DOMAIN stream' = DOMAIN stream \cup {k}
          /\ \A n \in DOMAIN stream : stream'[n] = stream[n]
          /\ stream'[k] = [slot |-> s, new |-> new, old |-> old]
      BY <2>1, <2>3, <1>t
    <3> HIDE DEF k
    <3> QED
      BY <3>1, <2>1, <2>2 DEF Travels
  <2>4. CASE ~up
    BY <2>1, <2>2, <2>4, <1>1
  <2> QED
    BY <2>3, <2>4
<1>3. CASE ListenAccepted
  <2> DEFINE tx == Head(stream)
  <2>1. /\ stream # <<>> /\ stream' = Tail(stream)
        /\ pending' = [pending EXCEPT ![tx.slot] =
                         [new |-> @.new \cup tx.new, old |-> @.old \cup tx.old]]
        /\ UNCHANGED <<acceptSlot, acceptBatch>>
    BY <1>3 DEF ListenAccepted, acceptVars
  <2>2. /\ 1 \in DOMAIN stream /\ tx = stream[1]
        /\ \A n \in DOMAIN stream' : n + 1 \in DOMAIN stream /\ stream'[n] = stream[n + 1]
    BY <2>1, <1>t
  <2>3. tx.slot \in Slots
    BY <2>2, <1>t, BatchTypes
  <2> HIDE DEF tx
  <2>4. /\ pending'[tx.slot].new = pending[tx.slot].new \cup tx.new
        /\ pending'[tx.slot].old = pending[tx.slot].old \cup tx.old
        /\ \A s \in Slots : s # tx.slot => pending'[s] = pending[s]
    BY <2>1, <2>3, <1>t
  <2> QED
    BY <2>1, <2>2, <2>4 DEF Travels
<1>4. CASE Crash \/ Stop
  <2>1. stream' = <<>> /\ DOMAIN stream' = {} /\ acceptBatch' = NoBatch
    BY <1>4 DEF Crash, Stop, Down
  <2>2. \A s \in Slots : pending'[s] = NoBatch
    BY <1>4 DEF Crash, Stop, Down, NoPending
  <2> QED
    BY <2>1, <2>2 DEF Travels
<1>5. CASE TickTake
  <2>1. /\ acceptBatch' = pending[acceptSlot]
        /\ pending' = [pending EXCEPT ![acceptSlot] = NoBatch]
        /\ UNCHANGED <<stream, acceptSlot>>
    BY <1>5 DEF TickTake
  <2>2. \A s \in Slots : pending'[s] = pending[s] \/ pending'[s] = NoBatch
    BY <2>1, <1>t
  <2> QED
    BY <2>1, <2>2 DEF Travels
<1>6. CASE DropPending
  <2>1. /\ pending' = [pending EXCEPT ![dropSlot] = NoBatch]
        /\ UNCHANGED <<stream, acceptSlot, acceptBatch>>
    BY <1>6 DEF DropPending, acceptVars
  <2>2. \A s \in Slots : pending'[s] = pending[s] \/ pending'[s] = NoBatch
    BY <2>1, <1>t
  <2> QED
    BY <2>1, <2>2 DEF Travels
<1>7. CASE \E s \in Slots : TickChoose(s)
  <2>1. acceptPc = "idle" /\ UNCHANGED <<stream, pending, acceptBatch>>
    BY <1>7 DEF TickChoose, batchVars
  <2> QED
    BY <2>1, <1>t, <1>1
<1>8. CASE \/ TickMisses \/ AcceptSkip \/ AcceptOnClosedDatabase \/ AcceptEnd \/ AcceptFails
           \/ \E o \in Outputs : AcceptConflict(o)
  BY <1>8, <1>1
  DEF TickMisses, AcceptSkip, AcceptOnClosedDatabase, AcceptEnd, AcceptFails,
      AcceptConflict, TickEnd, batchVars
<1>9. CASE \/ NodeCommits \/ Start \/ Reset \/ Refuse \/ ReadStatus \/ Terminating
           \/ ReceiveLedgerUpdate \/ NothingToDrop \/ CommitBegin \/ CommitEnd \/ Publish
           \/ CommitFails \/ AcceptCheck \/ AcceptBegin
           \/ \E s \in Slots : ChooseDrop(s)
           \/ \E o \in Outputs : \/ CommitSpend(o) \/ CommitCreate(o)
                                 \/ AcceptSpend(o) \/ AcceptCreate(o)
  <2>1. UNCHANGED <<stream, pending, acceptSlot, acceptBatch>>
    BY <1>9
    DEF NodeCommits, Start, Fill, Resume, Reset, Refuse, ReadStatus, Terminating, Up,
        ReceiveLedgerUpdate, NothingToDrop, CommitBegin, CommitEnd, Publish, CommitFails,
        AcceptCheck, AcceptBegin, ChooseDrop, CommitSpend, CommitCreate, AcceptSpend,
        AcceptCreate, InTx, vars, batchVars, acceptVars
  <2> QED
    BY <2>1, <1>1
<1> QED
  BY <1>2, <1>3, <1>4, <1>5, <1>6, <1>7, <1>8, <1>9 DEF Next, CommitWorker, AcceptWorker

LEMMA BatchesStep ==
  ASSUME ViewInv, Next
  PROVE  BatchesOfBookings'
<1>t. /\ TypeOK /\ BatchesOfBookings /\ acceptSlot \in Slots
      /\ NoBatch.new = {}
  BY DEF ViewInv, IInv, TypeOK, NoBatch
<1>g. /\ \A n \in DOMAIN stream : \A o \in stream[n].new : stream[n].slot <= booked'[o]
      /\ \A s \in Slots : \A o \in pending[s].new : s <= booked'[o]
      /\ \A o \in acceptBatch.new : acceptSlot <= booked'[o]
  <2>1. ASSUME NEW o \in Outputs, NEW s \in Slots, s <= booked[o]
        PROVE  s <= booked'[o]
    BY <2>1, <1>t, BookedGrows, BatchTypes
  <2> QED
    BY <2>1, <1>t, BatchTypes DEF BatchesOfBookings
<1>1. ASSUME NEW n \in DOMAIN stream', NEW o \in stream'[n].new
      PROVE  stream'[n].slot <= booked'[o]
  <2>1. CASE \E m \in DOMAIN stream : stream'[n] = stream[m]
    BY <2>1, <1>1, <1>g
  <2>2. CASE \E s \in Slots, new, old \in SUBSET Outputs :
               /\ NodeAccept(s, new, old)
               /\ stream'[n] = [slot |-> s, new |-> new, old |-> old]
    BY <2>2, <1>1 DEF NodeAccept, Slots
  <2> QED
    BY <2>1, <2>2, BatchesTravel DEF Travels
<1>2. ASSUME NEW s \in Slots, NEW o \in pending'[s].new
      PROVE  s <= booked'[o]
  BY <1>2, <1>g, <1>t, BatchesTravel DEF Travels
<1>3. ASSUME NEW o \in acceptBatch'.new
      PROVE  acceptSlot' <= booked'[o]
  BY <1>3, <1>g, <1>t, BatchesTravel DEF Travels
<1> QED
  BY <1>1, <1>2, <1>3 DEF BatchesOfBookings

-----------------------------------------------------------------------------
(* The rows of the tables and of the working copy.                           *)

\* A table of bookings is one after the step that writes it.
LEMMA TableKept ==
  ASSUME ViewInv, Next, NEW u \in Tables, RowsOfBookings(u), NEW o \in Stored(u)
  PROVE  u[o].created \in Slots /\ u[o].deleted \in Slots /\ u[o].created <= booked'[o]
<1>1. /\ o \in Outputs /\ u[o].created \in Slots /\ u[o].deleted \in Slots
      /\ u[o].created <= booked[o]
  BY DEF RowsOfBookings, Stored
<1>2. u[o].created \in Int
  BY <1>1 DEF Slots
<1> QED
  BY <1>1, <1>2, BookedGrows

\* The cleanup moves no row to another slot.
LEMMA CleanupBookings ==
  ASSUME NEW t \in Tables, NEW s \in Nat, RowsOfBookings(t)
  PROVE  RowsOfBookings(RemoveUncommittedChangesUpUntilSlot(t, s))
<1> DEFINE u == RemoveUncommittedChangesUpUntilSlot(t, s)
<1>1. ASSUME NEW o \in Outputs, u[o] # NoRow
      PROVE  u[o].created \in Slots /\ u[o].deleted \in Slots /\ u[o].created <= booked[o]
  <2>1. t[o] # NoRow /\ u[o] = Restored(t[o], s)
    BY <1>1 DEF RemoveUncommittedChangesUpUntilSlot
  <2>2. /\ t[o] \in Row /\ t[o].created \in Slots /\ t[o].deleted \in Slots
        /\ t[o].created <= booked[o]
    BY <2>1, RowOrNone DEF RowsOfBookings, Stored
  <2>3. /\ Restored(t[o], s).created = t[o].created
        /\ Restored(t[o], s).deleted = t[o].deleted \/ Restored(t[o], s).deleted = 0
    BY <2>2 DEF Restored, Row
  <2>4. 0 \in Slots
    BY MaxSlotAssumption DEF Slots
  <2> QED
    BY <2>1, <2>2, <2>3, <2>4
<1> QED
  BY <1>1 DEF RowsOfBookings, Stored

\* A row the two workers write is of a booking of its output.
LEMMA WriteBookings ==
  ASSUME NEW t \in Tables, NEW o \in Outputs, NEW s \in Slots, RowsOfBookings(t)
  PROVE  /\ RowsOfBookings(DeleteRow(t, o))
         /\ RowsOfBookings(MarkDeleted(t, o, s))
         /\ s <= booked[o] => /\ RowsOfBookings(UpsertCommitted(t, o, s))
                              /\ RowsOfBookings(InsertRow(t, o, s))
<1>s. s \in Nat /\ 0 \in Slots
  BY MaxSlotAssumption DEF Slots
<1>t. t[o] # NoRow => /\ t[o] \in Row /\ t[o].created \in Slots /\ t[o].deleted \in Slots
                      /\ t[o].created <= booked[o]
  BY RowOrNone DEF RowsOfBookings, Stored
<1>k. ASSUME NEW r, r.created \in Slots, r.deleted \in Slots, r.created <= booked[o]
      PROVE  RowsOfBookings([t EXCEPT ![o] = r])
  BY <1>k DEF RowsOfBookings, Stored, Tables
<1>1. RowsOfBookings(DeleteRow(t, o))
  BY DEF DeleteRow, RowsOfBookings, Stored, Tables
<1>2. RowsOfBookings(MarkDeleted(t, o, s))
  <2>1. CASE t[o] = NoRow
    BY <2>1 DEF MarkDeleted
  <2>2. CASE t[o] # NoRow
    <3>1. /\ [t[o] EXCEPT !.deleted = s].created = t[o].created
          /\ [t[o] EXCEPT !.deleted = s].deleted = s
      BY <1>t, <2>2 DEF Row
    <3>2. MarkDeleted(t, o, s) = [t EXCEPT ![o] = [t[o] EXCEPT !.deleted = s]]
      BY <2>2 DEF MarkDeleted
    <3> QED
      BY <3>1, <3>2, <1>t, <1>k, <2>2
  <2> QED
    BY <2>1, <2>2
<1>n. ASSUME s <= booked[o], NEW b \in BOOLEAN
      PROVE  RowsOfBookings([t EXCEPT ![o] = NewRow(s, b)])
  <2>1. NewRow(s, b).created = s /\ NewRow(s, b).deleted = 0
    BY DEF NewRow
  <2> QED
    BY <2>1, <1>n, <1>s, <1>k
<1>3. ASSUME s <= booked[o]
      PROVE  RowsOfBookings(UpsertCommitted(t, o, s))
  <2>1. CASE t[o] = NoRow
    BY <2>1, <1>3, <1>n DEF UpsertCommitted
  <2>2. CASE t[o] # NoRow
    <3>1. /\ [t[o] EXCEPT !.committed = TRUE].created = t[o].created
          /\ [t[o] EXCEPT !.committed = TRUE].deleted = t[o].deleted
      BY <1>t, <2>2 DEF Row
    <3>2. UpsertCommitted(t, o, s) = [t EXCEPT ![o] = [t[o] EXCEPT !.committed = TRUE]]
      BY <2>2 DEF UpsertCommitted
    <3> QED
      BY <3>1, <3>2, <1>t, <1>k, <2>2
  <2> QED
    BY <2>1, <2>2
<1>4. ASSUME s <= booked[o]
      PROVE  RowsOfBookings(InsertRow(t, o, s))
  BY <1>4, <1>n DEF InsertRow
<1> QED
  BY <1>1, <1>2, <1>3, <1>4

LEMMA RowsStep ==
  ASSUME ViewInv, Next
  PROVE  RowsOfBookings(rows)' /\ RowsOfBookings(txRows)'
<1>t. /\ TypeOK /\ RowsOfBookings(rows) /\ RowsOfBookings(txRows)
      /\ rows \in Tables /\ txRows \in Tables
      /\ commitSlot \in Slots /\ acceptSlot \in Slots
      /\ commitSlot \in Nat /\ acceptSlot \in Nat
  BY DEF ViewInv, IInv, TypeOK, Slots
<1>k. ASSUME NEW u \in Tables, RowsOfBookings(u)
      PROVE  /\ txRows' = u => RowsOfBookings(txRows)'
             /\ rows' = u => RowsOfBookings(rows)'
  BY <1>k, TableKept DEF RowsOfBookings, Stored
<1>1. ASSUME NEW u \in Tables, RowsOfBookings(u), txRows' = u, rows' = u \/ rows' = rows
      PROVE  RowsOfBookings(rows)' /\ RowsOfBookings(txRows)'
  BY <1>1, <1>k, <1>t
<1>2. CASE /\ rows' = rows \/ rows' = txRows
           /\ txRows' = rows \/ txRows' = txRows
  BY <1>2, <1>k, <1>t
<1>3. CASE CommitBegin
  <2>1. /\ txRows' = RemoveUncommittedChangesUpUntilSlot(rows, commitSlot)
        /\ rows' = rows
    BY <1>3 DEF CommitBegin, dbVars
  <2>2. /\ RowsOfBookings(RemoveUncommittedChangesUpUntilSlot(rows, commitSlot))
        /\ RemoveUncommittedChangesUpUntilSlot(rows, commitSlot) \in Tables
    BY <1>t, CleanupBookings, CleanupLemma
  <2> QED
    BY <2>1, <2>2, <1>1
<1>4. ASSUME NEW o \in Outputs, CommitSpend(o)
      PROVE  RowsOfBookings(rows)' /\ RowsOfBookings(txRows)'
  <2>1. txRows' = DeleteRow(txRows, o) /\ rows' = rows
    BY <1>4 DEF CommitSpend, InTx, dbVars
  <2>2. RowsOfBookings(DeleteRow(txRows, o)) /\ DeleteRow(txRows, o) \in Tables
    BY <1>t, WriteBookings, DeleteRowLemma
  <2> QED
    BY <2>1, <2>2, <1>1
<1>5. ASSUME NEW o \in Outputs, CommitCreate(o)
      PROVE  RowsOfBookings(rows)' /\ RowsOfBookings(txRows)'
  <2>1. txRows' = UpsertCommitted(txRows, o, commitSlot) /\ rows' = rows
    BY <1>5 DEF CommitCreate, InTx, dbVars
  <2>2. o \in todoCreate /\ commitPc = "tx"
    BY <1>5 DEF CommitCreate
  <2>3. o \in Created(commitSlot)
    BY <2>2 DEF ViewInv, IInv, TxOwner, TxInv, CommitProgress
  <2>4. commitSlot <= booked[o]
    BY <2>3, <1>t DEF Created
  <2>5. /\ RowsOfBookings(UpsertCommitted(txRows, o, commitSlot))
        /\ UpsertCommitted(txRows, o, commitSlot) \in Tables
    BY <1>t, <2>4, WriteBookings, UpsertLemma
  <2> QED
    BY <2>1, <2>5, <1>1
<1>6. ASSUME NEW o \in Outputs, AcceptSpend(o)
      PROVE  RowsOfBookings(rows)' /\ RowsOfBookings(txRows)'
  <2>1. txRows' = MarkDeleted(txRows, o, acceptSlot) /\ rows' = rows
    BY <1>6 DEF AcceptSpend, InTx, dbVars
  <2>2. /\ RowsOfBookings(MarkDeleted(txRows, o, acceptSlot))
        /\ MarkDeleted(txRows, o, acceptSlot) \in Tables
    BY <1>t, WriteBookings, MarkDeletedLemma
  <2> QED
    BY <2>1, <2>2, <1>1
<1>7. ASSUME NEW o \in Outputs, AcceptCreate(o)
      PROVE  RowsOfBookings(rows)' /\ RowsOfBookings(txRows)'
  <2>1. txRows' = InsertRow(txRows, o, acceptSlot) /\ rows' = rows /\ txRows[o] = NoRow
    BY <1>7 DEF AcceptCreate, InTx, dbVars
  <2>2. o \in acceptBatch.new
    BY <1>7 DEF AcceptCreate, ViewInv, IInv, TxOwner, AcceptExact
  <2>3. acceptSlot <= booked[o]
    BY <2>2 DEF ViewInv, BatchesOfBookings
  <2>4. /\ RowsOfBookings(InsertRow(txRows, o, acceptSlot))
        /\ InsertRow(txRows, o, acceptSlot) \in Tables
    BY <1>t, <2>1, <2>3, WriteBookings, InsertRowLemma
  <2> QED
    BY <2>1, <2>4, <1>1
<1>8. CASE Fill \/ Reset
  <2> DEFINE u == [o \in Outputs |-> IF o \in LedgerAt(nodeSlot)
                                     THEN NewRow(booked[o], TRUE) ELSE NoRow]
  <2>1. rows' = u /\ txRows' = u
    BY <1>8 DEF Fill, Reset, Filled, Up
  <2>2. ASSUME NEW o \in LedgerAt(nodeSlot)
        PROVE  /\ NewRow(booked[o], TRUE) \in Row
               /\ NewRow(booked[o], TRUE).created \in Slots
               /\ NewRow(booked[o], TRUE).deleted \in Slots
               /\ NewRow(booked[o], TRUE).created <= booked[o]
    <3>1. booked[o] \in 0..nodeSlot /\ nodeSlot \in Slots
      BY DEF ViewInv, IInv, TypeOK, NodeTypeOK, NodeInv, LedgerAt
    <3>2. booked[o] \in Nat /\ booked[o] \in Slots /\ 0 \in Slots
      BY <3>1, MaxSlotAssumption DEF Slots
    <3> QED
      BY <3>2 DEF NewRow, Row
  <2>3. RowsOfBookings(u) /\ u \in Tables
    BY <2>2 DEF RowsOfBookings, Stored, Tables
  <2> HIDE DEF u
  <2> QED
    BY <2>1, <2>3, <1>1
<1>9. CASE Refuse
  <2>1. rows' = EmptyTable /\ txRows' = EmptyTable
    BY <1>9 DEF Refuse
  <2>2. RowsOfBookings(EmptyTable) /\ EmptyTable \in Tables
    BY DEF RowsOfBookings, Stored, EmptyTable, Tables
  <2> QED
    BY <2>1, <2>2, <1>1
<1>10. CASE Resume
  <2>1. /\ rows' = RemoveUncommittedChangesUpUntilSlot(rows, MaxSlot)
        /\ txRows' = rows'
    BY <1>10 DEF Resume, Up
  <2>2. /\ RowsOfBookings(RemoveUncommittedChangesUpUntilSlot(rows, MaxSlot))
        /\ RemoveUncommittedChangesUpUntilSlot(rows, MaxSlot) \in Tables
    BY <1>t, CleanupBookings, CleanupLemma, MaxSlotAssumption
  <2> QED
    BY <2>1, <2>2, <1>1
<1>11. CASE \/ NodeAccepts \/ NodeCommits \/ ListenAccepted \/ ReadStatus \/ Terminating
            \/ ReceiveLedgerUpdate \/ DropPending \/ NothingToDrop \/ Publish
            \/ TickTake \/ TickMisses \/ AcceptSkip \/ AcceptCheck \/ AcceptBegin
            \/ AcceptOnClosedDatabase
            \/ \E s \in Slots : ChooseDrop(s) \/ TickChoose(s)
  <2>1. rows' = rows /\ txRows' = txRows
    BY <1>11
    DEF NodeAccepts, NodeCommits, ListenAccepted, ReadStatus, Terminating,
        ReceiveLedgerUpdate, DropPending, NothingToDrop, Publish, TickTake, TickMisses,
        AcceptSkip, AcceptCheck, AcceptBegin, AcceptOnClosedDatabase, ChooseDrop,
        TickChoose, vars, dbVars, txVars
  <2> QED
    BY <2>1, <1>2
<1>12. CASE \/ CommitEnd \/ AcceptEnd \/ CommitFails \/ AcceptFails \/ Crash \/ Stop
            \/ \E o \in Outputs : AcceptConflict(o)
  <2>1. \/ rows' = rows /\ txRows' = rows
        \/ rows' = txRows /\ txRows' = txRows
    BY <1>12
    DEF CommitEnd, AcceptEnd, CommitFails, AcceptFails, Crash, Stop, AcceptConflict,
        InstallTx, RollbackTx, Down, dbVars
  <2> QED
    BY <2>1, <1>2
<1> QED
  BY <1>3, <1>4, <1>5, <1>6, <1>7, <1>8, <1>9, <1>10, <1>11, <1>12
  DEF Next, Start, CommitWorker, AcceptWorker

-----------------------------------------------------------------------------
(* The working copies, row by row.                                           *)

\* Which steps end a transaction or cannot be taken inside of one.
LEMMA NoTx ==
  ASSUME ViewInv,
         \/ CommitEnd \/ AcceptEnd \/ CommitFails \/ AcceptFails \/ Crash \/ Stop
         \/ \E o \in Outputs : AcceptConflict(o)
         \/ Fill \/ Reset \/ Refuse \/ Resume
  PROVE  txBy' = "none"
<1>1. CASE \/ CommitEnd \/ AcceptEnd \/ CommitFails \/ AcceptFails \/ Crash \/ Stop
           \/ \E o \in Outputs : AcceptConflict(o)
  BY <1>1
  DEF CommitEnd, AcceptEnd, CommitFails, AcceptFails, Crash, Stop, AcceptConflict,
      InstallTx, RollbackTx, Down
<1>2. CASE Fill \/ Reset \/ Refuse \/ Resume
  <2>1. ~up /\ txBy' = txBy
    BY <1>2 DEF Fill, Reset, Refuse, Resume, Up
  <2> QED
    BY <2>1 DEF ViewInv, IInv, TypeOK, TxOwner, SlotInv
<1> QED
  BY <1>1, <1>2

LEMMA CommitExactStep ==
  ASSUME ViewInv, Next, txBy' = "commit"
  PROVE  CommitExact'
<1>t. /\ txBy = "commit" <=> commitPc = "tx"
      /\ txBy = "accept" <=> acceptPc = "tx"
      /\ txBy = "commit" => CommitExact
      /\ rows \in Tables /\ txRows \in Tables
      /\ NodeTypeOK /\ NodeInv
      /\ commitSlot \in Slots /\ commitSlot <= nodeSlot
  BY DEF ViewInv, IInv, TypeOK, TxOwner, SlotInv
<1>1. ASSUME txBy = "commit",
             UNCHANGED <<rows, txVars, commitSlot>>,
             Created(commitSlot)' = Created(commitSlot),
             Consumed(commitSlot)' = Consumed(commitSlot)
      PROVE  CommitExact'
  BY <1>1, <1>t
  DEF CommitExact, txVars, RemoveUncommittedChangesUpUntilSlot, UpsertCommitted
<1>2. CASE NodeAccepts \/ NodeCommits
  <2>1. UNCHANGED <<rows, txVars, commitSlot>> /\ txBy' = txBy
    BY <1>2 DEF NodeAccepts, NodeCommits, dbVars, commitVars, txVars
  <2>2. /\ Created(commitSlot)' = Created(commitSlot)
        /\ Consumed(commitSlot)' = Consumed(commitSlot)
    <3>1. ASSUME NEW s \in Slots, s <= nodeSlot
          PROVE  Created(s)' = Created(s) /\ Consumed(s)' = Consumed(s)
      BY <1>2, <1>t, <3>1, NodeKeepsHistory DEF NodeAccepts, NodeCommits
    <3> QED
      BY <2>1, <1>t, <3>1 DEF Created, Consumed
  <2> QED
    BY <2>1, <2>2, <1>1
<1>3. CASE \/ ListenAccepted \/ ReadStatus \/ Terminating \/ Publish
           \/ DropPending \/ NothingToDrop \/ TickTake \/ TickMisses
           \/ AcceptSkip \/ AcceptCheck \/ AcceptOnClosedDatabase
           \/ \E s \in Slots : ChooseDrop(s) \/ TickChoose(s)
  <2>1. UNCHANGED <<rows, txVars, commitSlot, nodeVars>>
    BY <1>3
    DEF ListenAccepted, ReadStatus, Terminating, Publish, DropPending, NothingToDrop,
        TickTake, TickMisses, AcceptSkip, AcceptCheck, AcceptOnClosedDatabase,
        ChooseDrop, TickChoose, vars, dbVars, commitVars
  <2>2. txBy = "commit"
    BY <2>1 DEF txVars
  <2> QED
    BY <2>1, <2>2, <1>1 DEF nodeVars, Created, Consumed
<1>4. CASE \/ AcceptBegin \/ ReceiveLedgerUpdate
           \/ \E o \in Outputs : AcceptSpend(o) \/ AcceptCreate(o)
  BY <1>4, <1>t
  DEF AcceptBegin, BeginTx, ReceiveLedgerUpdate, txVars, AcceptSpend, AcceptCreate, InTx
<1> DEFINE clean == RemoveUncommittedChangesUpUntilSlot(rows, commitSlot)
           spend == Consumed(commitSlot)
           fresh == Created(commitSlot) \ Consumed(commitSlot)
<1>5. ASSUME UNCHANGED <<rows, commitSlot, nodeVars>>,
             \A o \in Outputs :
               txRows'[o] = IF o \in spend \ todoSpend' THEN NoRow
                            ELSE IF o \in fresh \ todoCreate'
                            THEN UpsertCommitted(clean, o, commitSlot)[o]
                            ELSE clean[o]
      PROVE  CommitExact'
  <2>1. clean' = clean /\ spend' = spend /\ fresh' = fresh
    BY <1>5 DEF RemoveUncommittedChangesUpUntilSlot, Consumed, Created, nodeVars
  <2>2. \A o : UpsertCommitted(clean, o, commitSlot)' = UpsertCommitted(clean, o, commitSlot)
    BY <2>1, <1>5 DEF UpsertCommitted
  <2>3. CommitExact' <=>
          \A o \in Outputs :
            txRows'[o] = IF o \in spend' \ todoSpend' THEN NoRow
                         ELSE IF o \in fresh' \ todoCreate'
                         THEN UpsertCommitted(clean, o, commitSlot)'[o]
                         ELSE clean'[o]
    BY DEF CommitExact
  <2> HIDE DEF clean, spend, fresh
  <2> QED
    BY <1>5, <2>1, <2>2, <2>3
<1>6. CASE CommitBegin
  <2>1. /\ txRows' = clean /\ todoSpend' = spend /\ todoCreate' = fresh
        /\ UNCHANGED <<rows, commitSlot, nodeVars>>
    BY <1>6 DEF CommitBegin, BeginTx, dbVars
  <2> HIDE DEF clean, spend, fresh
  <2> QED
    BY <2>1, <1>5
<1>7. ASSUME NEW o \in Outputs, CommitSpend(o) \/ CommitCreate(o)
      PROVE  CommitExact'
  <2>1. UNCHANGED <<rows, commitSlot, nodeVars>> /\ txBy = "commit"
    BY <1>7, <1>t DEF CommitSpend, CommitCreate, InTx, dbVars, commitVars
  <2>2. /\ \A p \in Outputs :
             txRows[p] = IF p \in spend \ todoSpend THEN NoRow
                         ELSE IF p \in fresh \ todoCreate
                         THEN UpsertCommitted(clean, p, commitSlot)[p]
                         ELSE clean[p]
        /\ todoSpend \subseteq spend /\ todoCreate \subseteq fresh
        /\ fresh \cap spend = {}
    BY <2>1, <1>t DEF CommitExact, ViewInv, IInv, TxInv, CommitProgress
  <2>3. clean \in Tables
    BY <1>t, CleanupLemma DEF Slots
  <2>4. \A p \in Outputs :
          UpsertCommitted(clean, p, commitSlot)[p] =
            IF clean[p] = NoRow THEN NewRow(commitSlot, TRUE)
                                ELSE [clean[p] EXCEPT !.committed = TRUE]
    <3> HIDE DEF clean
    <3> QED
      BY <2>3 DEF UpsertCommitted, Tables
  <2> HIDE DEF clean, spend, fresh
  <2>5. CASE CommitSpend(o)
    <3>1. /\ o \in todoSpend /\ todoSpend' = todoSpend \ {o}
          /\ todoCreate' = todoCreate
          /\ txRows' = [txRows EXCEPT ![o] = NoRow]
      BY <2>5 DEF CommitSpend, DeleteRow
    <3> QED
      BY <3>1, <2>1, <2>2, <1>5, <1>t DEF Tables
  <2>6. CASE CommitCreate(o)
    <3>1. /\ o \in todoCreate /\ todoCreate' = todoCreate \ {o}
          /\ todoSpend' = todoSpend
          /\ txRows' = UpsertCommitted(txRows, o, commitSlot)
      BY <2>6 DEF CommitCreate
    <3>2. txRows[o] = clean[o] /\ o \notin spend /\ o \in fresh
      BY <3>1, <2>2
    <3>3. /\ txRows'[o] = UpsertCommitted(clean, o, commitSlot)[o]
          /\ \A p \in Outputs : p # o => txRows'[p] = txRows[p]
      BY <3>1, <3>2, <2>4, <1>t DEF UpsertCommitted, Tables
    <3> QED
      BY <3>1, <3>2, <3>3, <2>1, <2>2, <1>5
  <2> QED
    BY <1>7, <2>5, <2>6
<1>8. CASE \/ CommitEnd \/ AcceptEnd \/ CommitFails \/ AcceptFails \/ Crash \/ Stop
           \/ \E o \in Outputs : AcceptConflict(o)
           \/ Fill \/ Reset \/ Refuse \/ Resume
  BY <1>8, NoTx
<1> QED
  BY <1>2, <1>3, <1>4, <1>6, <1>7, <1>8 DEF Next, Start, CommitWorker, AcceptWorker

LEMMA AcceptExactStep ==
  ASSUME ViewInv, Next, txBy' = "accept"
  PROVE  AcceptExact'
<1>t. /\ txBy = "commit" <=> commitPc = "tx"
      /\ txBy = "accept" <=> acceptPc = "tx"
      /\ txBy = "none" => txRows = rows
      /\ txBy = "accept" => AcceptExact
      /\ rows \in Tables /\ txRows \in Tables
      /\ acceptBatch.old \subseteq Outputs /\ acceptBatch.new \subseteq Outputs
  BY DEF ViewInv, IInv, TypeOK, TxOwner, Batch
<1>1. CASE \/ ListenAccepted \/ ReadStatus \/ Terminating \/ Publish
           \/ ReceiveLedgerUpdate \/ DropPending \/ NothingToDrop
           \/ NodeAccepts \/ NodeCommits \/ \E s \in Slots : ChooseDrop(s)
  <2>1. UNCHANGED <<rows, txBy, txRows, todoSpend, todoCreate, acceptSlot, acceptBatch>>
    BY <1>1
    DEF ListenAccepted, ReadStatus, Terminating, Publish, ReceiveLedgerUpdate,
        DropPending, NothingToDrop, NodeAccepts, NodeCommits, ChooseDrop, vars, dbVars,
        acceptVars, txVars
  <2> QED
    BY <2>1, <1>t DEF AcceptExact, MarkDeleted
<1>2. CASE \/ CommitBegin \/ AcceptSkip \/ AcceptCheck \/ AcceptOnClosedDatabase
           \/ TickTake \/ TickMisses \/ \E s \in Slots : TickChoose(s)
           \/ \E o \in Outputs : CommitSpend(o) \/ CommitCreate(o)
  BY <1>2, <1>t
  DEF CommitBegin, BeginTx, AcceptSkip, AcceptCheck, AcceptOnClosedDatabase, TickTake,
      TickMisses, TickEnd, TickChoose, txVars, CommitSpend, CommitCreate, InTx
<1> DEFINE fresh == acceptBatch.new \ acceptBatch.old
           Marked(o) == MarkDeleted(rows, o, acceptSlot)[o]
<1>3. ASSUME UNCHANGED <<rows, acceptSlot, acceptBatch>>,
             todoSpend' \subseteq acceptBatch.old, todoCreate' \subseteq fresh,
             \A o \in fresh \ todoCreate' : rows[o] = NoRow,
             \A o \in Outputs :
               txRows'[o] = IF o \in fresh \ todoCreate' THEN NewRow(acceptSlot, FALSE)
                            ELSE IF o \in acceptBatch.old \ todoSpend' THEN Marked(o)
                            ELSE rows[o]
      PROVE  AcceptExact'
  BY <1>3 DEF AcceptExact, MarkDeleted
<1>4. CASE AcceptBegin
  <2>1. /\ txRows' = rows /\ todoSpend' = acceptBatch.old /\ todoCreate' = fresh
        /\ UNCHANGED <<rows, acceptSlot, acceptBatch>>
    BY <1>4, <1>t DEF AcceptBegin, BeginTx, dbVars
  <2> HIDE DEF fresh, Marked
  <2> QED
    BY <2>1, <1>3
<1>5. ASSUME NEW o \in Outputs, AcceptSpend(o) \/ AcceptCreate(o)
      PROVE  AcceptExact'
  <2>1. UNCHANGED <<rows, acceptSlot, acceptBatch>> /\ txBy = "accept"
    BY <1>5, <1>t DEF AcceptSpend, AcceptCreate, InTx, dbVars, acceptVars
  <2>2. /\ \A p \in Outputs :
             txRows[p] = IF p \in fresh \ todoCreate THEN NewRow(acceptSlot, FALSE)
                         ELSE IF p \in acceptBatch.old \ todoSpend THEN Marked(p)
                         ELSE rows[p]
        /\ todoSpend \subseteq acceptBatch.old /\ todoCreate \subseteq fresh
        /\ \A p \in fresh \ todoCreate : rows[p] = NoRow
        /\ fresh \cap acceptBatch.old = {}
    BY <2>1, <1>t DEF AcceptExact
  <2>3. \A p \in Outputs :
          Marked(p) = IF rows[p] = NoRow THEN NoRow
                                         ELSE [rows[p] EXCEPT !.deleted = acceptSlot]
    BY <1>t DEF MarkDeleted, Tables
  <2> HIDE DEF fresh, Marked
  <2>4. CASE AcceptSpend(o)
    <3>1. /\ o \in todoSpend /\ todoSpend' = todoSpend \ {o}
          /\ todoCreate' = todoCreate
          /\ txRows' = MarkDeleted(txRows, o, acceptSlot)
      BY <2>4 DEF AcceptSpend
    <3>2. txRows[o] = rows[o] /\ o \in acceptBatch.old /\ o \notin fresh
      BY <3>1, <2>2
    <3>3. /\ txRows'[o] = Marked(o)
          /\ \A p \in Outputs : p # o => txRows'[p] = txRows[p]
      <4>1. CASE txRows[o] = NoRow
        BY <4>1, <3>1, <3>2, <2>3 DEF MarkDeleted
      <4>2. CASE txRows[o] # NoRow
        <5>1. txRows' = [txRows EXCEPT ![o] = [txRows[o] EXCEPT !.deleted = acceptSlot]]
          BY <4>2, <3>1 DEF MarkDeleted
        <5> QED
          BY <5>1, <4>2, <3>2, <2>3, <1>t DEF Tables
      <4> QED
        BY <4>1, <4>2
    <3>4. ASSUME NEW p \in Outputs
          PROVE  txRows'[p] =
                   IF p \in fresh \ todoCreate' THEN NewRow(acceptSlot, FALSE)
                   ELSE IF p \in acceptBatch.old \ todoSpend' THEN Marked(p)
                   ELSE rows[p]
      <4>1. CASE p = o
        BY <4>1, <3>1, <3>2, <3>3
      <4>2. CASE p # o
        <5>1. txRows'[p] = txRows[p]
          BY <4>2, <3>3
        <5>2. p \in todoSpend' <=> p \in todoSpend
          BY <4>2, <3>1
        <5> QED
          BY <5>1, <5>2, <3>1, <2>2
      <4> QED
        BY <4>1, <4>2
    <3> QED
      BY <3>1, <3>4, <2>1, <2>2, <1>3
  <2>5. CASE AcceptCreate(o)
    <3>1. /\ o \in todoCreate /\ todoCreate' = todoCreate \ {o}
          /\ todoSpend' = todoSpend /\ txRows[o] = NoRow
          /\ txRows' = [txRows EXCEPT ![o] = NewRow(acceptSlot, FALSE)]
      BY <2>5 DEF AcceptCreate, InsertRow
    <3>2. txRows[o] = rows[o] /\ o \in fresh
      BY <3>1, <2>2
    <3>3. /\ txRows'[o] = NewRow(acceptSlot, FALSE)
          /\ \A p \in Outputs : p # o => txRows'[p] = txRows[p]
      BY <3>1, <1>t DEF Tables
    <3> QED
      BY <3>1, <3>2, <3>3, <2>1, <2>2, <1>3
  <2> QED
    BY <1>5, <2>4, <2>5
<1>6. CASE \/ CommitEnd \/ AcceptEnd \/ CommitFails \/ AcceptFails \/ Crash \/ Stop
           \/ \E o \in Outputs : AcceptConflict(o)
           \/ Fill \/ Reset \/ Refuse \/ Resume
  BY <1>6, NoTx
<1> QED
  BY <1>1, <1>2, <1>4, <1>5, <1>6 DEF Next, Start, CommitWorker, AcceptWorker

-----------------------------------------------------------------------------
(* ViewInv is inductive.                                                     *)

\* The ticker holds no batch between its ticks, and only a batch of a slot after
\* the first commitment passes the comparison.
LEMMA TickerStep ==
  ASSUME ViewInv, Next
  PROVE  /\ acceptPc' \in {"idle", "chosen"} => acceptBatch' = NoBatch
         /\ acceptPc' \in {"passed", "tx"} => acceptSlot' > 0
<1>t. /\ acceptPc \in {"idle", "chosen"} => acceptBatch = NoBatch
      /\ acceptPc \in {"passed", "tx"} => acceptSlot > 0
      /\ acceptSlot \in Nat /\ lastCommitted \in Nat
  BY DEF ViewInv, IInv, TypeOK, Slots
<1>1. CASE UNCHANGED acceptVars
  BY <1>1, <1>t DEF acceptVars
<1>2. CASE acceptPc' = "idle" /\ acceptBatch' = NoBatch
  BY <1>2
<1>3. CASE TickTake \/ \E s \in Slots : TickChoose(s)
  BY <1>3, <1>t DEF TickTake, TickChoose
<1>4. CASE AcceptCheck
  BY <1>4, <1>t DEF AcceptCheck
<1>5. CASE AcceptBegin
  BY <1>5, <1>t DEF AcceptBegin
<1>6. CASE \/ TickMisses \/ AcceptSkip \/ AcceptEnd \/ AcceptFails
           \/ AcceptOnClosedDatabase \/ \E o \in Outputs : AcceptConflict(o)
  BY <1>6, <1>2
  DEF TickMisses, AcceptSkip, AcceptEnd, AcceptFails, AcceptOnClosedDatabase,
      AcceptConflict, TickEnd
<1>7. CASE Crash \/ Stop
  BY <1>7, <1>2 DEF Crash, Stop, Down
<1>8. CASE \/ NodeAccepts \/ NodeCommits \/ ListenAccepted \/ ReadStatus \/ Terminating
           \/ ReceiveLedgerUpdate \/ DropPending \/ NothingToDrop \/ CommitBegin
           \/ CommitEnd \/ Publish \/ CommitFails \/ \E s \in Slots : ChooseDrop(s)
           \/ \E o \in Outputs : \/ CommitSpend(o) \/ CommitCreate(o)
                                 \/ AcceptSpend(o) \/ AcceptCreate(o)
  BY <1>8, <1>1
  DEF NodeAccepts, NodeCommits, ListenAccepted, ReadStatus, Terminating,
      ReceiveLedgerUpdate, DropPending, NothingToDrop, CommitBegin, CommitEnd, Publish,
      CommitFails, ChooseDrop, CommitSpend, CommitCreate, AcceptSpend, AcceptCreate,
      InTx, vars
<1>9. CASE Fill \/ Reset \/ Refuse \/ Resume
  BY <1>9, <1>1 DEF Fill, Reset, Refuse, Resume, Up
<1> QED
  BY <1>3, <1>4, <1>5, <1>6, <1>7, <1>8, <1>9
  DEF Next, Start, CommitWorker, AcceptWorker

\* Before the first start there is no row and no batch.
LEMMA InitViewInv ==
  ASSUME Init
  PROVE  ViewInv
<1>1. IInv
  BY InitInv
<1>2. RowsOfBookings(rows) /\ RowsOfBookings(txRows)
  BY DEF Init, EmptyTable, RowsOfBookings, Stored
<1>3. BatchesOfBookings
  <2>1. /\ stream = <<>> /\ DOMAIN stream = {}
        /\ \A s \in Slots : pending[s] = NoBatch
        /\ acceptBatch = NoBatch
    BY DEF Init, NoPending
  <2> QED
    BY <2>1 DEF BatchesOfBookings, NoBatch
<1> QED
  BY <1>1, <1>2, <1>3 DEF ViewInv, Init

\* Every step keeps ViewInv.
LEMMA NextViewInv ==
  ASSUME ViewInv, [Next]_vars
  PROVE  ViewInv'
<1>1. IInv'
  BY NextInv DEF ViewInv
<1>2. CASE Next
  BY <1>1, <1>2, BatchesStep, RowsStep, CommitExactStep, AcceptExactStep, TickerStep
  DEF ViewInv
<1>3. CASE UNCHANGED vars
  <2>1. UNCHANGED <<booked, confirmed, settled, spent, rows, txBy, txRows, todoSpend,
                    todoCreate, commitSlot, stream, pending, acceptPc, acceptSlot,
                    acceptBatch>>
    BY <1>3 DEF vars, nodeVars, dbVars, txVars, commitVars, acceptVars, batchVars
  <2>2. RowsOfBookings(rows)' /\ RowsOfBookings(txRows)'
    BY <2>1 DEF ViewInv, RowsOfBookings, Stored
  <2>3. BatchesOfBookings'
    BY <2>1 DEF ViewInv, BatchesOfBookings
  <2>4. (txBy = "commit" => CommitExact)'
    BY <2>1
    DEF ViewInv, CommitExact, RemoveUncommittedChangesUpUntilSlot, UpsertCommitted,
        Created, Consumed
  <2>5. (txBy = "accept" => AcceptExact)'
    BY <2>1 DEF ViewInv, AcceptExact, MarkDeleted
  <2> QED
    BY <1>1, <2>1, <2>2, <2>3, <2>4, <2>5 DEF ViewInv
<1> QED
  BY <1>2, <1>3

\* The rows of both tables and the batches on their way are of bookings of their
\* outputs, in whatever order the ticker meets them (it chooses a slot and takes
\* the batch later), and a working copy is what its worker has made of the tables
\* so far, row by row.
THEOREM ViewInvariance == Spec => []ViewInv
BY InitViewInv, NextViewInv, PTL DEF Spec

-----------------------------------------------------------------------------
(* Steps of the view.                                                        *)

\* The overlay of a table, as the refinement mapping reads it off.
Extras(t) == {o \in Stored(t) : ~t[o].committed /\ t[o].deleted = 0}
Marked(t) == {o \in Stored(t) : t[o].deleted # 0}

LEMMA OverlayOf ==
  /\ Extra  = {<<o, rows[o].created>>  : o \in Extras(rows)}
  /\ Extra' = {<<o, rows'[o].created>> : o \in Extras(rows')}
  /\ Marks  = {<<o, rows[o].deleted>>  : o \in Marked(rows)}
  /\ Marks' = {<<o, rows'[o].deleted>> : o \in Marked(rows')}
BY DEF Extra, Marks, Extras, Marked, Uncommitted, Committed, Visible, Stored

\* A step that leaves the tables and the status alone is a stutter.
LEMMA ViewStutters ==
  ASSUME UNCHANGED <<rows, status>>
  PROVE  UNCHANGED <<status, Committed(rows), Extra, Marks>>
BY DEF Extra, Marks, Uncommitted, Committed, Visible, Stored

\* What an accepted batch does to the overlay.
LEMMA AcceptView ==
  ASSUME ViewInv, AcceptEnd
  PROVE  LET new == acceptBatch.new \ acceptBatch.old
             old == acceptBatch.old
             hit == old \cap Stored(rows)
         IN /\ up /\ status # NoSlot /\ status' = status
            /\ Committed(rows') = Committed(rows)
            /\ new \cap Stored(rows) = {}
            /\ Extra' = {p \in Extra : p[1] \notin old} \cup {<<o, acceptSlot>> : o \in new}
            /\ Marks' = {p \in Marks : p[1] \notin hit} \cup {<<o, acceptSlot>> : o \in hit}
            /\ Stored(rows) = Committed(rows) \cup {p[1] : p \in Extra} \cup {p[1] : p \in Marks}
<1> DEFINE new == acceptBatch.new \ acceptBatch.old
           old == acceptBatch.old
           hit == old \cap Stored(rows)
           s   == acceptSlot
<1>1. /\ acceptPc = "tx" /\ todoSpend = {} /\ todoCreate = {}
      /\ rows' = txRows /\ status' = status
      /\ up' = up /\ lastCommitted' = lastCommitted
  BY DEF AcceptEnd, InstallTx, procVars
<1>2. up /\ status # NoSlot
  BY <1>1 DEF ViewInv, IInv, SlotInv, NoSlot
<1>3. /\ txBy = "accept" /\ AcceptExact /\ s > 0 /\ s \in Slots
      /\ Committed(txRows) = Committed(rows)
      /\ rows \in Tables /\ txRows \in Tables
      /\ new \subseteq Outputs /\ old \subseteq Outputs
  BY <1>1 DEF ViewInv, IInv, TypeOK, TxOwner, TxInv, Batch
<1>4. /\ \A o \in new : rows[o] = NoRow
      /\ \A o \in Outputs :
           rows'[o] = IF o \in new THEN NewRow(s, FALSE)
                      ELSE IF o \in old THEN MarkDeleted(rows, o, s)[o]
                      ELSE rows[o]
  BY <1>1, <1>3 DEF AcceptExact
<1> HIDE DEF new, old
<1>5. ASSUME NEW o \in new
      PROVE  /\ o \in Outputs /\ o \notin old /\ o \notin Stored(rows)
             /\ rows'[o] # NoRow /\ rows'[o].created = s
             /\ rows'[o].deleted = 0 /\ ~rows'[o].committed
  <2>1. o \in Outputs /\ o \notin old /\ o \notin Stored(rows)
    BY <1>3, <1>4 DEF Stored, new, old
  <2>2. rows'[o] = NewRow(s, FALSE)
    BY <2>1, <1>4
  <2>3. s \in Nat
    BY <1>3 DEF Slots
  <2> QED
    BY <2>1, <2>2, <2>3, NewRowLemma
<1>6. ASSUME NEW o \in old
      PROVE  /\ o \notin Stored(rows) => rows'[o] = NoRow
             /\ o \in Stored(rows) => rows'[o] # NoRow /\ rows'[o].deleted = s
  <2>1. o \in Outputs /\ rows'[o] = MarkDeleted(rows, o, s)[o]
    BY <1>3, <1>4 DEF new, old
  <2>2. CASE rows[o] = NoRow
    BY <2>1, <2>2 DEF MarkDeleted, Stored
  <2>3. CASE rows[o] # NoRow
    <3>1. rows'[o] = [rows[o] EXCEPT !.deleted = s]
      BY <2>1, <2>3, <1>3 DEF MarkDeleted, Tables
    <3>2. rows[o] \in Row
      BY <2>1, <2>3, <1>3, RowOrNone
    <3>3. [rows[o] EXCEPT !.deleted = s] \in Row /\ [rows[o] EXCEPT !.deleted = s].deleted = s
      BY <3>2, <1>3 DEF Row, Slots
    <3> QED
      BY <2>1, <2>3, <3>1, <3>3, NoRowAssumption DEF Stored
  <2> QED
    BY <2>2, <2>3
<1>7. ASSUME NEW o \in Outputs \ (new \cup old)
      PROVE  rows'[o] = rows[o]
  BY <1>4
<1>8. /\ \A o \in Stored(rows) : rows[o].deleted \in Int
      /\ s # 0
  BY <1>3, RowOrNone DEF Stored
<1>9. /\ Extras(rows') = (Extras(rows) \ old) \cup new
      /\ \A o \in Extras(rows) \ old : rows'[o] = rows[o] /\ o \notin new
      /\ \A o \in new : rows'[o].created = s
  BY <1>3, <1>5, <1>6, <1>7, <1>8 DEF Extras, Stored
<1>10. /\ Marked(rows') = (Marked(rows) \ hit) \cup hit
       /\ \A o \in Marked(rows) \ hit : rows'[o] = rows[o]
       /\ \A o \in hit : rows'[o].deleted = s
  BY <1>3, <1>5, <1>6, <1>7, <1>8 DEF Marked, Stored
<1>11. Extra' = {p \in Extra : p[1] \notin old} \cup {<<o, s>> : o \in new}
  BY <1>9, OverlayOf
<1>12. Marks' = {p \in Marks : p[1] \notin hit} \cup {<<o, s>> : o \in hit}
  BY <1>10, OverlayOf
<1>13. Stored(rows) = Committed(rows) \cup {p[1] : p \in Extra} \cup {p[1] : p \in Marks}
  <2>1. {p[1] : p \in Extra} = Extras(rows) /\ {p[1] : p \in Marks} = Marked(rows)
    <3>1. /\ \A p \in Extra : p[1] \in Extras(rows)
          /\ \A p \in Marks : p[1] \in Marked(rows)
      BY OverlayOf
    <3>2. ASSUME NEW o \in Extras(rows)
          PROVE  <<o, rows[o].created>> \in Extra /\ <<o, rows[o].created>>[1] = o
      BY OverlayOf
    <3>3. ASSUME NEW o \in Marked(rows)
          PROVE  <<o, rows[o].deleted>> \in Marks /\ <<o, rows[o].deleted>>[1] = o
      BY OverlayOf
    <3> QED
      BY <3>1, <3>2, <3>3
  <2> QED
    BY <2>1 DEF Extras, Marked, Committed, Stored
<1> QED
  BY <1>1, <1>2, <1>3, <1>5, <1>11, <1>12, <1>13 DEF new, old

\* What the two statements of removeUncommittedChangesUpUntilSlot leave of a row
\* with no mark of a slot before its own: if it is uncommitted and visible
\* afterwards it was visible before and is of a later slot, and if it is marked it
\* had a mark of a later slot.
LEMMA CleanupView ==
  ASSUME NEW t \in Tables, NEW s \in Slots, NEW o \in Outputs,
         o \in Stored(t) /\ t[o].deleted # 0 => t[o].created <= t[o].deleted
  PROVE  LET u == RemoveUncommittedChangesUpUntilSlot(t, s) IN
         /\ o \in Extras(u) <=> o \in Extras(t) /\ t[o].created > s
         /\ o \in Marked(u) <=> o \in Marked(t) /\ t[o].deleted > s
         /\ o \in Extras(u) => u[o].created = t[o].created
         /\ o \in Marked(u) => u[o].deleted = t[o].deleted
<1> DEFINE u == RemoveUncommittedChangesUpUntilSlot(t, s)
<1>0. s \in Nat
  BY DEF Slots
<1>1. CASE t[o] = NoRow
  BY <1>1 DEF RemoveUncommittedChangesUpUntilSlot, Extras, Marked, Stored
<1>2. CASE t[o] # NoRow
  <2>1. t[o] \in Row
    BY <1>2, RowOrNone
  <2>2. /\ t[o].created \in Nat /\ t[o].deleted \in Nat /\ t[o].committed \in BOOLEAN
        /\ ~t[o].committed /\ t[o].deleted # 0 => t[o].created <= t[o].deleted
    BY <1>2, <2>1 DEF Row, Stored
  <2>3. CASE RolledBack(t[o], s)
    <3>1. u[o] = NoRow
      BY <2>3 DEF RemoveUncommittedChangesUpUntilSlot
    <3>2. ~(t[o].created > s) /\ ~(t[o].deleted > s)
      BY <2>2, <2>3, <1>0 DEF RolledBack
    <3> QED
      BY <3>1, <3>2 DEF Extras, Marked, Stored
  <2>4. CASE ~RolledBack(t[o], s)
    <3>1. u[o] = Restored(t[o], s)
      BY <2>4, <1>2 DEF RemoveUncommittedChangesUpUntilSlot
    <3>2. /\ u[o] \in Row
          /\ u[o].created = t[o].created
          /\ u[o].committed = t[o].committed
          /\ u[o].deleted = IF t[o].deleted <= s THEN 0 ELSE t[o].deleted
      BY <3>1, <2>1 DEF Restored, Row
    <3>3. u[o] # NoRow
      BY <3>2, NoRowAssumption
    <3>4. t[o].committed \/ t[o].created > s \/ t[o].deleted > s
      BY <2>4, <2>2, <1>0 DEF RolledBack
    <3> QED
      BY <1>0, <1>2, <2>2, <3>2, <3>3, <3>4 DEF Extras, Marked, Stored
  <2> QED
    BY <2>3, <2>4
<1> QED
  BY <1>1, <1>2

\* What a committed ledger update does to the committed rows.
LEMMA CommitTables ==
  ASSUME ViewInv, CommitEnd
  PROVE  LET new == Created(commitSlot)
             old == Consumed(commitSlot)
         IN /\ up /\ status # NoSlot /\ status' = commitSlot /\ status' = status + 1
            /\ new \subseteq Outputs /\ old \subseteq Outputs
            /\ Committed(rows') = (Committed(rows) \ old) \cup (new \ old)
            /\ Settled(rows', commitSlot)
<1> DEFINE new == Created(commitSlot)
           old == Consumed(commitSlot)
<1>1. /\ commitPc = "tx" /\ todoSpend = {} /\ todoCreate = {}
      /\ rows' = txRows /\ status' = commitSlot
  BY DEF CommitEnd, InstallTx
<1>2. /\ txBy = "commit" /\ up /\ status = commitSlot - 1 /\ status >= 0
      /\ status \in Slots /\ commitSlot \in Slots
      /\ NodeTypeOK /\ CommitProgress /\ Settled(txRows, commitSlot)
      /\ status # NoSlot => Committed(rows) = LedgerAt(status)
  BY <1>1 DEF ViewInv, IInv, TypeOK, TxOwner, TxInv, SlotInv, CommittedRowsAreLedger,
              Slots, NoSlot
<1>3. new \subseteq Outputs /\ old \subseteq Outputs
  BY <1>2 DEF NodeTypeOK, Created, Consumed
<1>4. Committed(rows') = (Committed(rows) \ old) \cup (new \ old)
  BY <1>1, <1>2 DEF CommitProgress, Slots, NoSlot
<1> HIDE DEF new, old
<1> QED
  BY <1>1, <1>2, <1>3, <1>4 DEF new, old, Slots, NoSlot

\* What it does to the overlay, where an orphan is not booked again: then no row
\* has a mark of a slot before its own.
LEMMA CommitView ==
  ASSUME ViewInv, OnceInv, ~Reissues, CommitEnd
  PROVE  LET new == Created(commitSlot)
             old == Consumed(commitSlot)
         IN /\ Extra' = {p \in Extra : p[2] > commitSlot /\ p[1] \notin old}
            /\ Marks' = {p \in Marks : p[2] > commitSlot /\ p[1] \notin old}
<1> DEFINE new   == Created(commitSlot)
           old   == Consumed(commitSlot)
           c     == commitSlot
           clean == RemoveUncommittedChangesUpUntilSlot(rows, c)
<1>1. /\ commitPc = "tx" /\ todoSpend = {} /\ todoCreate = {}
      /\ rows' = txRows /\ status' = c
  BY DEF CommitEnd, InstallTx
<1>2. /\ c \in Slots /\ rows \in Tables /\ RowsOfBookings(rows)
      /\ NodeTypeOK /\ CommitExact
  BY <1>1 DEF ViewInv, IInv, TypeOK, TxOwner
<1>3. /\ new \subseteq Outputs /\ old \subseteq Outputs
      /\ \A o \in new : booked[o] = c
  BY <1>2 DEF NodeTypeOK, Created, Consumed
<1>5. \A o \in Outputs :
        rows'[o] = IF o \in old THEN NoRow
                   ELSE IF o \in new THEN UpsertCommitted(clean, o, c)[o]
                   ELSE clean[o]
  BY <1>1, <1>2 DEF CommitExact
<1>6. clean \in Tables
  BY <1>2, CleanupLemma DEF Slots
<1>7. ASSUME NEW o \in Outputs
      PROVE  /\ o \in Extras(clean) <=> o \in Extras(rows) /\ rows[o].created > c
             /\ o \in Marked(clean) <=> o \in Marked(rows) /\ rows[o].deleted > c
             /\ o \in Extras(clean) => clean[o].created = rows[o].created
             /\ o \in Marked(clean) => clean[o].deleted = rows[o].deleted
  <2>1. o \in Stored(rows) /\ rows[o].deleted # 0 => rows[o].created <= rows[o].deleted
    BY DEF OnceInv, BookedOnce, SpentAfterBooked
  <2> QED
    BY <2>1, <1>2, CleanupView
<1> HIDE DEF new, old, clean
<1>8. ASSUME NEW o \in Outputs
      PROVE  /\ o \in Extras(rows') <=> o \in Extras(rows) /\ rows[o].created > c /\ o \notin old
             /\ o \in Marked(rows') <=> o \in Marked(rows) /\ rows[o].deleted > c /\ o \notin old
             /\ o \in Extras(rows') => rows'[o].created = rows[o].created
             /\ o \in Marked(rows') => rows'[o].deleted = rows[o].deleted
  <2>1. CASE o \in old
    BY <2>1, <1>5 DEF Extras, Marked, Stored
  <2>2. CASE o \in new \ old
    <3>1. rows'[o] = UpsertCommitted(clean, o, c)[o]
      BY <2>2, <1>5
    <3>2. o \notin Extras(rows) \/ ~(rows[o].created > c)
      <4>1. o \in Stored(rows) => rows[o].created <= booked[o]
        BY <1>2 DEF RowsOfBookings
      <4>2. o \in Stored(rows) => rows[o].created \in Int
        BY <1>2, RowOrNone DEF Stored
      <4> QED
        BY <4>1, <4>2, <1>2, <1>3, <2>2 DEF Extras, Slots
    <3>3. CASE clean[o] = NoRow
      <4>1. rows'[o] = NewRow(c, TRUE)
        BY <3>1, <3>3, <1>6 DEF UpsertCommitted, Tables
      <4>2. rows'[o] # NoRow /\ rows'[o].deleted = 0 /\ rows'[o].committed
        <5>1. c \in Nat
          BY <1>2 DEF Slots
        <5> QED
          BY <4>1, <5>1, NewRowLemma
      <4>3. o \notin Marked(clean)
        BY <3>3 DEF Marked, Stored
      <4> QED
        BY <4>2, <4>3, <3>2, <1>7 DEF Extras, Marked, Stored
    <3>4. CASE clean[o] # NoRow
      <4>1. rows'[o] = [clean[o] EXCEPT !.committed = TRUE]
        BY <3>1, <3>4, <1>6 DEF UpsertCommitted, Tables
      <4>2. clean[o] \in Row
        BY <3>4, <1>6, RowOrNone
      <4>3. /\ [clean[o] EXCEPT !.committed = TRUE] \in Row
            /\ [clean[o] EXCEPT !.committed = TRUE].deleted = clean[o].deleted
            /\ [clean[o] EXCEPT !.committed = TRUE].committed
        BY <4>2 DEF Row
      <4>4. rows'[o] # NoRow /\ rows'[o].deleted = clean[o].deleted /\ rows'[o].committed
        BY <4>1, <4>3, NoRowAssumption
      <4>5. o \notin Extras(rows') /\ (o \in Marked(rows') <=> o \in Marked(clean))
        BY <4>4, <3>4 DEF Extras, Marked, Stored
      <4> QED
        BY <4>4, <4>5, <3>2, <2>2, <1>7
    <3> QED
      BY <3>3, <3>4
  <2>3. CASE o \notin old /\ o \notin new
    <3>1. rows'[o] = clean[o]
      BY <2>3, <1>5
    <3>2. /\ o \in Extras(rows') <=> o \in Extras(clean)
          /\ o \in Marked(rows') <=> o \in Marked(clean)
      BY <3>1 DEF Extras, Marked, Stored
    <3> QED
      BY <3>1, <3>2, <2>3, <1>7
  <2> QED
    BY <2>1, <2>2, <2>3
<1>9. \A t : Extras(t) \subseteq Outputs /\ Marked(t) \subseteq Outputs
  BY DEF Extras, Marked, Stored
<1>10. Extra' = {p \in Extra : p[2] > c /\ p[1] \notin old}
  BY <1>8, <1>9, OverlayOf
<1>11. Marks' = {p \in Marks : p[2] > c /\ p[1] \notin old}
  BY <1>8, <1>9, OverlayOf
<1> QED
  BY <1>10, <1>11 DEF new, old

\* A restart leaves no overlay, since no slot is after the last one.
LEMMA ResumeView ==
  ASSUME ViewInv, Resume
  PROVE  /\ status' = status /\ Committed(rows') = Committed(rows)
         /\ Extra' = {} /\ Marks' = {}
<1>1. /\ rows' = RemoveUncommittedChangesUpUntilSlot(rows, MaxSlot)
      /\ status' = status /\ rows \in Tables /\ RowsOfBookings(rows)
      /\ MaxSlot \in Slots
  BY MaxSlotAssumption DEF Resume, ViewInv, IInv, TypeOK, Slots
<1>2. Committed(rows') = Committed(rows)
  BY <1>1, CleanupLemma, MaxSlotAssumption
<1>3. ASSUME NEW o \in Outputs
      PROVE  o \notin Extras(rows') /\ o \notin Marked(rows')
  <2>1. CASE rows[o] = NoRow \/ RolledBack(rows[o], MaxSlot)
    BY <2>1, <1>1 DEF RemoveUncommittedChangesUpUntilSlot, Extras, Marked, Stored
  <2>2. CASE ~(rows[o] = NoRow \/ RolledBack(rows[o], MaxSlot))
    <3>1. /\ rows[o] \in Row /\ rows'[o] = Restored(rows[o], MaxSlot)
          /\ rows[o].created <= MaxSlot /\ rows[o].deleted <= MaxSlot
      <4>1. rows[o].created \in Slots /\ rows[o].deleted \in Slots
        BY <2>2, <1>1 DEF RowsOfBookings, Stored
      <4> QED
        BY <4>1, <2>2, <1>1, RowOrNone, MaxSlotAssumption
        DEF RemoveUncommittedChangesUpUntilSlot, Slots
    <3>2. rows[o].committed
      BY <2>2, <3>1 DEF RolledBack
    <3>3. rows'[o].deleted = 0 /\ rows'[o].committed
      BY <3>1, <3>2 DEF Restored, Row
    <3> QED
      BY <3>3 DEF Extras, Marked
  <2> QED
    BY <2>1, <2>2
<1>4. Extras(rows') = {} /\ Marked(rows') = {}
  BY <1>3 DEF Extras, Marked, Stored
<1> QED
  BY <1>1, <1>2, <1>4, OverlayOf

\* Neither does an import: it writes committed rows without marks.
LEMMA FillView ==
  ASSUME ViewInv, Fill \/ Reset
  PROVE  /\ status' = nodeSlot /\ nodeSlot > status /\ nodeSlot \in Slots
         /\ Committed(rows') = LedgerAt(nodeSlot) /\ LedgerAt(nodeSlot) \subseteq Outputs
         /\ Extra' = {} /\ Marks' = {}
<1>1. /\ rows' = [o \in Outputs |-> IF o \in LedgerAt(nodeSlot)
                                    THEN NewRow(booked[o], TRUE) ELSE NoRow]
      /\ status' = nodeSlot /\ status < nodeSlot
      /\ nodeSlot \in Slots /\ LedgerAt(nodeSlot) \subseteq Outputs
  <2>1. nodeSlot \in Slots /\ LedgerAt(nodeSlot) \subseteq Outputs
    BY DEF ViewInv, IInv, TypeOK, NodeTypeOK, LedgerAt
  <2>2. NoSlot < nodeSlot
    BY <2>1 DEF Slots, NoSlot
  <2>3. Filled /\ status < nodeSlot
    BY <2>2 DEF Fill, Reset
  <2> QED
    BY <2>1, <2>3 DEF Filled
<1>2. ASSUME NEW o \in LedgerAt(nodeSlot)
      PROVE  /\ o \in Outputs
             /\ rows'[o] # NoRow /\ rows'[o].deleted = 0 /\ rows'[o].committed = TRUE
  <2>1. booked[o] \in Nat
    BY DEF ViewInv, IInv, TypeOK, NodeTypeOK, NodeInv, LedgerAt
  <2>2. o \in Outputs /\ rows'[o] = NewRow(booked[o], TRUE)
    BY <1>1
  <2> QED
    BY <2>1, <2>2, NewRowLemma
<1>3. /\ Committed(rows') = LedgerAt(nodeSlot)
      /\ Extras(rows') = {} /\ Marked(rows') = {}
  BY <1>1, <1>2 DEF Committed, Extras, Marked, Stored
<1> QED
  BY <1>1, <1>3, OverlayOf DEF Slots

\* A refused import leaves nothing.
LEMMA RefuseView ==
  ASSUME Refuse
  PROVE  status' = NoSlot /\ Committed(rows') = {} /\ Extra' = {} /\ Marks' = {}
<1>1. rows' = EmptyTable /\ status' = NoSlot
  BY DEF Refuse
<1>2. Extras(rows') = {} /\ Marked(rows') = {} /\ Committed(rows') = {}
  BY <1>1 DEF EmptyTable, Extras, Marked, Committed, Stored
<1> QED
  BY <1>1, <1>2, OverlayOf

\* All other steps leave the tables and the status alone.
LEMMA OtherView ==
  ASSUME ViewInv, [Next]_vars
  PROVE  \/ CommitEnd \/ AcceptEnd \/ Resume \/ Fill \/ Reset \/ Refuse
         \/ UNCHANGED <<rows, status>>
<1>1. CASE \/ CommitFails \/ AcceptFails \/ \E o \in Outputs : AcceptConflict(o)
  BY <1>1 DEF CommitFails, AcceptFails, AcceptConflict, RollbackTx
<1>2. CASE \/ NodeAccepts \/ NodeCommits \/ ListenAccepted \/ ReadStatus \/ Terminating
           \/ ReceiveLedgerUpdate \/ DropPending \/ NothingToDrop \/ CommitBegin
           \/ Publish \/ Crash \/ Stop \/ TickTake \/ TickMisses
           \/ AcceptSkip \/ AcceptCheck \/ AcceptBegin \/ AcceptOnClosedDatabase
           \/ \E s \in Slots : ChooseDrop(s) \/ TickChoose(s)
           \/ \E o \in Outputs : \/ CommitSpend(o) \/ CommitCreate(o)
                                 \/ AcceptSpend(o) \/ AcceptCreate(o)
           \/ UNCHANGED vars
  BY <1>2
  DEF NodeAccepts, NodeCommits, ListenAccepted, ReadStatus, Terminating,
      ReceiveLedgerUpdate, DropPending, NothingToDrop, CommitBegin, Publish, Crash, Stop,
      TickTake, TickMisses, AcceptSkip, AcceptCheck, AcceptBegin, AcceptOnClosedDatabase,
      ChooseDrop, TickChoose, CommitSpend, CommitCreate, AcceptSpend, AcceptCreate, InTx,
      vars, dbVars
<1> QED
  BY <1>1, <1>2 DEF Next, Start, CommitWorker, AcceptWorker

\* Before the first start the view is empty.
LEMMA InitView ==
  ASSUME Init
  PROVE  status = NoSlot /\ Committed(rows) = {} /\ Extra = {} /\ Marks = {}
<1>1. Extras(rows) = {} /\ Marked(rows) = {} /\ Committed(rows) = {}
  BY DEF Init, EmptyTable, Extras, Marked, Committed, Stored
<1> QED
  BY <1>1, OverlayOf DEF Init
=============================================================================
