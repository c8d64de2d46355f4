---------------------------- MODULE SerialProofs ----------------------------
(* What holds where an orphaned transaction is not booked again (OnceInv):   *)
(* the tables implement LedgerView, whatever the interleaving. And what holds *)
(* of calls that do not overlap (SerialInv): the overlay is always ahead of  *)
(* the status, and the view is the strict one.                               *)
EXTENDS ViewProofs

-----------------------------------------------------------------------------
(* Bookings.                                                                 *)

\* Without reissues a booked output keeps its slot.
LEMMA BookingsStay ==
  ASSUME NodeTypeOK, ~Reissues,
         \/ \E r \in Slots, new, old \in SUBSET Outputs : NodeAccept(r, new, old)
         \/ \E new, old \in SUBSET Outputs : NodeCommit(new, old)
  PROVE  \A o \in Outputs : booked[o] # NoSlot => booked'[o] = booked[o]
<1>1. ASSUME NEW r \in Slots, NEW new \in SUBSET Outputs,
             NEW old \in SUBSET Outputs, NodeAccept(r, new, old)
      PROVE  \A o \in Outputs : booked[o] # NoSlot => booked'[o] = booked[o]
  BY <1>1 DEF NodeAccept, Bookable
<1>2. ASSUME NEW new \in SUBSET Outputs, NEW old \in SUBSET Outputs,
             NodeCommit(new, old)
      PROVE  \A o \in Outputs : booked[o] # NoSlot => booked'[o] = booked[o]
  BY <1>2 DEF NodeCommit, Bookable
<1> QED
  BY <1>1, <1>2

\* And so it does in every step.
LEMMA BookedStays ==
  ASSUME ViewInv, ~Reissues, Next
  PROVE  \A o \in Outputs : booked[o] # NoSlot => booked'[o] = booked[o]
<1>1. CASE NodeAccepts \/ NodeCommits
  BY <1>1, BookingsStay DEF NodeAccepts, NodeCommits, ViewInv, IInv, TypeOK
<1>2. CASE nodeVars' = nodeVars
  BY <1>2 DEF nodeVars
<1> QED
  BY <1>1, <1>2, NodeOrQuiet

\* Every row of t is of the one booking of its output.
RowsBooked(t) == \A o \in Stored(t) : t[o].created = booked[o]

\* The statements keep that, if what is written is of the slot it was booked for.
LEMMA WriteBooked ==
  ASSUME NEW t \in Tables, NEW o \in Outputs, NEW s \in Nat, RowsBooked(t)
  PROVE  /\ RowsBooked(DeleteRow(t, o))
         /\ RowsBooked(MarkDeleted(t, o, s))
         /\ booked[o] = s => /\ RowsBooked(InsertRow(t, o, s))
                             /\ RowsBooked(UpsertCommitted(t, o, s))
<1>1. RowsBooked(DeleteRow(t, o))
  BY DEF DeleteRow, RowsBooked, Stored, Tables
<1>2. RowsBooked(MarkDeleted(t, o, s))
  <2>1. CASE t[o] = NoRow
    BY <2>1 DEF MarkDeleted
  <2>2. CASE t[o] # NoRow
    <3> DEFINE r == [t[o] EXCEPT !.deleted = s]
    <3>1. r.created = t[o].created
      BY <2>2, RowOrNone DEF Row
    <3>2. MarkDeleted(t, o, s) = [t EXCEPT ![o] = r]
      BY <2>2 DEF MarkDeleted
    <3> HIDE DEF r
    <3> QED
      BY <2>2, <3>1, <3>2 DEF RowsBooked, Stored, Tables
  <2> QED
    BY <2>1, <2>2
<1>4. ASSUME booked[o] = s
      PROVE  RowsBooked(InsertRow(t, o, s)) /\ RowsBooked(UpsertCommitted(t, o, s))
  <2>1. NewRow(s, FALSE).created = s /\ NewRow(s, TRUE).created = s
    BY NewRowLemma
  <2>2. RowsBooked(InsertRow(t, o, s))
    BY <1>4, <2>1 DEF InsertRow, RowsBooked, Stored, Tables
  <2> DEFINE r == IF t[o] = NoRow THEN NewRow(s, TRUE) ELSE [t[o] EXCEPT !.committed = TRUE]
  <2>3. r.created = s
    <3>1. t[o] # NoRow => t[o] \in Row /\ t[o].created = s
      BY <1>4, RowOrNone DEF RowsBooked, Stored
    <3> QED
      BY <3>1, <2>1 DEF Row
  <2>4. UpsertCommitted(t, o, s) = [t EXCEPT ![o] = r]
    BY DEF UpsertCommitted
  <2> HIDE DEF r
  <2>5. RowsBooked(UpsertCommitted(t, o, s))
    BY <1>4, <2>3, <2>4 DEF RowsBooked, Stored, Tables
  <2> QED
    BY <2>2, <2>5
<1> QED
  BY <1>1, <1>2, <1>4

\* So does the cleanup.
LEMMA CleanupBooked ==
  ASSUME NEW t \in Tables, NEW s \in Nat, RowsBooked(t)
  PROVE  RowsBooked(RemoveUncommittedChangesUpUntilSlot(t, s))
<1> DEFINE u == RemoveUncommittedChangesUpUntilSlot(t, s)
<1>1. ASSUME NEW p \in Outputs, u[p] # NoRow
      PROVE  t[p] # NoRow /\ u[p].created = t[p].created
  <2>1. t[p] # NoRow /\ u[p] = Restored(t[p], s)
    BY <1>1 DEF RemoveUncommittedChangesUpUntilSlot
  <2> QED
    BY <2>1, RowOrNone DEF Restored, Row
<1> QED
  BY <1>1 DEF RowsBooked, Stored

\* The tables.
LEMMA RowsBookedStep ==
  ASSUME ViewInv, ~Reissues, BookedOnce, Next
  PROVE  RowsBooked(rows)' /\ RowsBooked(txRows)'
<1>t. /\ RowsBooked(rows) /\ RowsBooked(txRows)
      /\ rows \in Tables /\ txRows \in Tables
      /\ commitSlot \in Slots /\ acceptSlot \in Slots
      /\ commitSlot \in Nat /\ acceptSlot \in Nat
  BY DEF ViewInv, IInv, TypeOK, BookedOnce, RowsBooked, Slots
<1>k. ASSUME NEW u \in Tables, RowsBooked(u)
      PROVE  /\ txRows' = u => RowsBooked(txRows)'
             /\ rows' = u => RowsBooked(rows)'
  <2>1. ASSUME NEW o \in Stored(u)
        PROVE  u[o].created = booked'[o]
    <3>1. u[o].created = booked[o] /\ o \in Outputs /\ u[o].created \in Nat
      BY <1>k, RowOrNone DEF RowsBooked, Stored
    <3>2. booked[o] # NoSlot
      BY <3>1 DEF NoSlot
    <3> QED
      BY <3>1, <3>2, BookedStays
  <2> QED
    BY <2>1 DEF RowsBooked, Stored
<1>1. ASSUME NEW u \in Tables, RowsBooked(u), txRows' = u, rows' = u \/ rows' = rows
      PROVE  RowsBooked(rows)' /\ RowsBooked(txRows)'
  BY <1>1, <1>k, <1>t
<1>2. CASE /\ rows' = rows \/ rows' = txRows
           /\ txRows' = rows \/ txRows' = txRows
  BY <1>2, <1>k, <1>t
<1>3. CASE CommitBegin
  <2>1. /\ txRows' = RemoveUncommittedChangesUpUntilSlot(rows, commitSlot)
        /\ rows' = rows
    BY <1>3 DEF CommitBegin, dbVars
  <2>2. RowsBooked(RemoveUncommittedChangesUpUntilSlot(rows, commitSlot))
    BY <1>t, CleanupBooked
  <2>3. RemoveUncommittedChangesUpUntilSlot(rows, commitSlot) \in Tables
    BY <1>t, CleanupLemma
  <2> QED
    BY <2>1, <2>2, <2>3, <1>1
<1>4. ASSUME NEW o \in Outputs, CommitSpend(o)
      PROVE  RowsBooked(rows)' /\ RowsBooked(txRows)'
  <2>1. txRows' = DeleteRow(txRows, o) /\ rows' = rows
    BY <1>4 DEF CommitSpend, InTx, dbVars
  <2>2. RowsBooked(DeleteRow(txRows, o)) /\ DeleteRow(txRows, o) \in Tables
    BY <1>t, WriteBooked, DeleteRowLemma
  <2> QED
    BY <2>1, <2>2, <1>1
<1>5. ASSUME NEW o \in Outputs, CommitCreate(o)
      PROVE  RowsBooked(rows)' /\ RowsBooked(txRows)'
  <2>1. txRows' = UpsertCommitted(txRows, o, commitSlot) /\ rows' = rows
    BY <1>5 DEF CommitCreate, InTx, dbVars
  <2>2. o \in todoCreate /\ commitPc = "tx"
    BY <1>5 DEF CommitCreate
  <2>3. booked[o] = commitSlot
    BY <2>2 DEF ViewInv, IInv, TxOwner, TxInv, CommitProgress, Created
  <2>4. /\ RowsBooked(UpsertCommitted(txRows, o, commitSlot))
        /\ UpsertCommitted(txRows, o, commitSlot) \in Tables
    BY <1>t, <2>3, WriteBooked, UpsertLemma
  <2> QED
    BY <2>1, <2>4, <1>1
<1>6. ASSUME NEW o \in Outputs, AcceptSpend(o)
      PROVE  RowsBooked(rows)' /\ RowsBooked(txRows)'
  <2>1. txRows' = MarkDeleted(txRows, o, acceptSlot) /\ rows' = rows
    BY <1>6 DEF AcceptSpend, InTx, dbVars
  <2>2. /\ RowsBooked(MarkDeleted(txRows, o, acceptSlot))
        /\ MarkDeleted(txRows, o, acceptSlot) \in Tables
    BY <1>t, WriteBooked, MarkDeletedLemma
  <2> QED
    BY <2>1, <2>2, <1>1
<1>7. ASSUME NEW o \in Outputs, AcceptCreate(o)
      PROVE  RowsBooked(rows)' /\ RowsBooked(txRows)'
  <2>1. txRows' = InsertRow(txRows, o, acceptSlot) /\ rows' = rows /\ txRows[o] = NoRow
    BY <1>7 DEF AcceptCreate, InTx, dbVars
  <2>2. o \in acceptBatch.new
    BY <1>7 DEF AcceptCreate, ViewInv, IInv, TxOwner, AcceptExact
  <2>3. booked[o] = acceptSlot
    BY <2>2 DEF BookedOnce
  <2>4. RowsBooked(InsertRow(txRows, o, acceptSlot)) /\ InsertRow(txRows, o, acceptSlot) \in Tables
    BY <1>t, <2>1, <2>3, WriteBooked, InsertRowLemma
  <2> QED
    BY <2>1, <2>4, <1>1
<1>8. CASE Fill \/ Reset
  <2>1. /\ nodeVars' = nodeVars /\ txRows' = rows'
        /\ rows' = [o \in Outputs |-> IF o \in LedgerAt(nodeSlot)
                                      THEN NewRow(booked[o], TRUE) ELSE NoRow]
    BY <1>8 DEF Fill, Reset, Filled, Up
  <2>2. ASSUME NEW o \in LedgerAt(nodeSlot)
        PROVE  NewRow(booked[o], TRUE).created = booked[o]
    <3>1. booked[o] \in Nat
      BY DEF ViewInv, IInv, TypeOK, NodeTypeOK, NodeInv, LedgerAt
    <3> QED
      BY <3>1, NewRowLemma
  <2>3. \A o \in Stored(rows') : rows'[o].created = booked'[o]
    BY <2>1, <2>2 DEF Stored, nodeVars
  <2> QED
    BY <2>1, <2>3 DEF RowsBooked, Stored
<1>9. CASE Refuse
  BY <1>9 DEF Refuse, EmptyTable, RowsBooked, Stored
<1>10. CASE Resume
  <2>1. /\ rows' = RemoveUncommittedChangesUpUntilSlot(rows, MaxSlot)
        /\ txRows' = rows'
    BY <1>10 DEF Resume, Up
  <2>2. RowsBooked(RemoveUncommittedChangesUpUntilSlot(rows, MaxSlot))
    BY <1>t, CleanupBooked, MaxSlotAssumption
  <2>3. RemoveUncommittedChangesUpUntilSlot(rows, MaxSlot) \in Tables
    BY <1>t, CleanupLemma, MaxSlotAssumption
  <2> QED
    BY <2>1, <2>2, <2>3, <1>1
<1>11. CASE \/ NodeAccepts \/ NodeCommits \/ ListenAccepted \/ ReadStatus \/ Terminating
            \/ ReceiveLedgerUpdate \/ DropPending \/ NothingToDrop \/ Publish
            \/ TickTake \/ TickMisses \/ AcceptSkip \/ AcceptCheck \/ AcceptBegin
            \/ AcceptOnClosedDatabase
            \/ \E s \in Slots : ChooseDrop(s) \/ TickChoose(s)
  <2>1. rows' = rows /\ txRows' = txRows
    BY <1>11
    DEF NodeAccepts, NodeCommits, ListenAccepted, ReadStatus, Terminating,
        ReceiveLedgerUpdate, DropPending, NothingToDrop, Publish, TickTake, TickMisses,
        AcceptSkip, AcceptCheck, AcceptBegin, AcceptOnClosedDatabase, ChooseDrop,
        TickChoose, vars, dbVars, txVars
  <2> QED
    BY <2>1, <1>2
<1>12. CASE \/ CommitEnd \/ AcceptEnd \/ CommitFails \/ AcceptFails \/ Crash \/ Stop
            \/ \E o \in Outputs : AcceptConflict(o)
  <2>1. \/ rows' = rows /\ txRows' = rows
        \/ rows' = txRows /\ txRows' = txRows
    BY <1>12
    DEF CommitEnd, AcceptEnd, CommitFails, AcceptFails, Crash, Stop, AcceptConflict,
        InstallTx, RollbackTx, Down, dbVars
  <2> QED
    BY <2>1, <1>2
<1> QED
  BY <1>3, <1>4, <1>5, <1>6, <1>7, <1>8, <1>9, <1>10, <1>11, <1>12
  DEF Next, Start, CommitWorker, AcceptWorker

-----------------------------------------------------------------------------
(* Announcements.                                                            *)

\* What BookedOnce and AnnouncedOnce say of the outputs on their way.
OnTheWay ==
  /\ \A n \in DOMAIN stream : \A o \in stream[n].new : booked[o] = stream[n].slot
  /\ \A s \in Slots : \A o \in pending[s].new : booked[o] = s
  /\ \A o \in acceptBatch.new : booked[o] = acceptSlot
  /\ \A n, m \in DOMAIN stream : n # m => stream[n].new \cap stream[m].new = {}
  /\ \A n \in DOMAIN stream, s \in Slots : stream[n].new \cap pending[s].new = {}
  /\ \A n \in DOMAIN stream : stream[n].new \cap acceptBatch.new = {}
  /\ \A s \in Slots : pending[s].new \cap acceptBatch.new = {}

\* No step announces an output that is booked already.
NothingNew == \A o \in Outputs : Announced(o)' => Announced(o) \/ booked[o] = NoSlot

LEMMA WayStays ==
  ASSUME OnTheWay, UNCHANGED <<booked, stream, pending>>,
         \/ UNCHANGED <<acceptSlot, acceptBatch>>
         \/ acceptBatch' = NoBatch
  PROVE  OnTheWay' /\ NothingNew
BY DEF OnTheWay, NothingNew, Announced, NoBatch

LEMMA WayDown ==
  ASSUME Down
  PROVE  OnTheWay' /\ NothingNew
<1>1. /\ stream' = <<>> /\ DOMAIN stream' = {}
      /\ \A s \in Slots : pending'[s] = NoBatch
      /\ acceptBatch' = NoBatch
  BY DEF Down, NoPending
<1> QED
  BY <1>1 DEF OnTheWay, NothingNew, Announced, NoBatch

LEMMA WayNode ==
  ASSUME ViewInv, ~Reissues, OnTheWay, NodeAccepts \/ NodeCommits
  PROVE  OnTheWay' /\ NothingNew
<1>t. /\ stream \in Seq(Message) /\ pending \in [Slots -> Batch] /\ acceptBatch \in Batch
      /\ acceptSlot \in Slots /\ NodeTypeOK
  BY DEF ViewInv, IInv, TypeOK
<1>b. \A o \in Outputs : booked[o] # NoSlot => booked'[o] = booked[o]
  BY BookedStays DEF Next
<1>a. /\ NoSlot \notin Slots
      /\ \A n \in DOMAIN stream : stream[n] \in Message
      /\ \A n \in DOMAIN stream : stream[n].slot \in Slots /\ stream[n].new \subseteq Outputs
      /\ \A s \in Slots : pending[s].new \subseteq Outputs
      /\ acceptBatch.new \subseteq Outputs
  <2>1. NoSlot \notin Slots
    BY DEF Slots, NoSlot
  <2>2. \A n \in DOMAIN stream : stream[n] \in Message
    BY <1>t
  <2>3. \A m \in Message : m.slot \in Slots /\ m.new \subseteq Outputs
    BY DEF Message
  <2>4. \A b \in Batch : b.new \subseteq Outputs
    BY DEF Batch
  <2> QED
    BY <1>t, <2>1, <2>2, <2>3, <2>4
<1>o. ASSUME NEW o \in Outputs, Announced(o)
      PROVE  booked[o] # NoSlot /\ booked'[o] = booked[o]
  <2>1. CASE \E n \in DOMAIN stream : o \in stream[n].new
    BY <2>1, <1>a, <1>b DEF OnTheWay
  <2>2. CASE \E s \in Slots : o \in pending[s].new
    BY <2>2, <1>a, <1>b DEF OnTheWay
  <2>3. CASE o \in acceptBatch.new
    BY <2>3, <1>t, <1>a, <1>b DEF OnTheWay
  <2> QED
    BY <1>o, <2>1, <2>2, <2>3 DEF Announced
<1>w. /\ \A n \in DOMAIN stream : \A o \in stream[n].new : booked'[o] = stream[n].slot
      /\ \A s \in Slots : \A o \in pending[s].new : booked'[o] = s
      /\ \A o \in acceptBatch.new : booked'[o] = acceptSlot
  BY <1>a, <1>o DEF OnTheWay, Announced
<1>1. CASE UNCHANGED <<stream, pending, acceptVars>>
  <2>1. UNCHANGED <<acceptSlot, acceptBatch>>
    BY <1>1 DEF acceptVars
  <2> QED
    BY <1>1, <2>1, <1>w DEF OnTheWay, NothingNew, Announced
<1>2. ASSUME NEW s \in Slots, NEW new \in SUBSET Outputs, NEW old \in SUBSET Outputs,
             NodeAccept(s, new, old),
             stream' = Append(stream, [slot |-> s, new |-> new, old |-> old]),
             UNCHANGED <<pending, acceptVars>>
      PROVE  OnTheWay' /\ NothingNew
  <2> DEFINE k == Len(stream) + 1
  <2>1. UNCHANGED <<acceptSlot, acceptBatch>>
    BY <1>2 DEF acceptVars
  <2>2. /\ \A o \in new : booked[o] = NoSlot
        /\ \A o \in new : booked'[o] = s
    BY <1>2 DEF NodeAccept, Bookable
  <2>3. /\ DOMAIN stream' = DOMAIN stream \cup {k}
        /\ \A n \in DOMAIN stream : stream'[n] = stream[n] /\ n # k
        /\ stream'[k] = [slot |-> s, new |-> new, old |-> old]
    BY <1>2, <1>t
  <2> HIDE DEF k
  <2>4. /\ \A n \in DOMAIN stream : stream[n].new \cap new = {}
        /\ \A r \in Slots : pending[r].new \cap new = {}
        /\ acceptBatch.new \cap new = {}
    <3>1. \A o \in new : ~Announced(o)
      BY <2>2, <1>o
    <3> QED
      BY <3>1 DEF Announced
  <2>5. NothingNew
    <3>1. ASSUME NEW o \in Outputs, Announced(o)'
          PROVE  Announced(o) \/ o \in new
      BY <3>1, <2>1, <2>3, <1>2 DEF Announced
    <3> QED
      BY <3>1, <2>2 DEF NothingNew
  <2>6. /\ \A n \in DOMAIN stream' : \A o \in stream'[n].new : booked'[o] = stream'[n].slot
        /\ \A r \in Slots : \A o \in pending'[r].new : booked'[o] = r
        /\ \A o \in acceptBatch'.new : booked'[o] = acceptSlot'
    BY <2>1, <2>2, <2>3, <1>2, <1>w
  <2>7. /\ \A n, m \in DOMAIN stream' : n # m => stream'[n].new \cap stream'[m].new = {}
        /\ \A n \in DOMAIN stream', r \in Slots : stream'[n].new \cap pending'[r].new = {}
        /\ \A n \in DOMAIN stream' : stream'[n].new \cap acceptBatch'.new = {}
        /\ \A r \in Slots : pending'[r].new \cap acceptBatch'.new = {}
    <3>1. \A n, m \in DOMAIN stream' : n # m => stream'[n].new \cap stream'[m].new = {}
      BY <2>3, <2>4 DEF OnTheWay
    <3>2. \A n \in DOMAIN stream', r \in Slots : stream'[n].new \cap pending'[r].new = {}
      BY <2>3, <2>4, <1>2 DEF OnTheWay
    <3>3. \A n \in DOMAIN stream' : stream'[n].new \cap acceptBatch'.new = {}
      BY <2>1, <2>3, <2>4 DEF OnTheWay
    <3>4. \A r \in Slots : pending'[r].new \cap acceptBatch'.new = {}
      BY <2>1, <1>2 DEF OnTheWay
    <3> QED
      BY <3>1, <3>2, <3>3, <3>4
  <2> QED
    BY <2>5, <2>6, <2>7 DEF OnTheWay
<1>3. CASE NodeCommits
  BY <1>1, <1>3 DEF NodeCommits, batchVars
<1>4. CASE NodeAccepts
  <2>1. PICK s \in Slots, new \in SUBSET Outputs, old \in SUBSET Outputs :
          /\ NodeAccept(s, new, old)
          /\ stream' = IF up THEN Append(stream, [slot |-> s, new |-> new, old |-> old])
                             ELSE stream
          /\ UNCHANGED <<dbVars, txVars, commitVars, acceptVars, pending, procVars>>
    BY <1>4 DEF NodeAccepts
  <2> QED
    BY <2>1, <1>1, <1>2
<1> QED
  BY <1>3, <1>4

LEMMA WayListen ==
  ASSUME TypeOK, OnTheWay, ListenAccepted
  PROVE  OnTheWay' /\ NothingNew
<1> DEFINE tx == Head(stream)
<1>1. /\ stream \in Seq(Message) /\ stream # <<>>
      /\ stream' = Tail(stream)
      /\ pending' = [pending EXCEPT ![tx.slot] =
                       [new |-> @.new \cup tx.new, old |-> @.old \cup tx.old]]
      /\ UNCHANGED <<booked, acceptSlot, acceptBatch>>
      /\ pending \in [Slots -> Batch]
  BY DEF ListenAccepted, TypeOK, nodeVars, acceptVars
<1>2. /\ 1 \in DOMAIN stream /\ tx = stream[1] /\ tx \in Message
      /\ \A n \in DOMAIN stream' : /\ n \in Int /\ n >= 1 /\ n + 1 \in DOMAIN stream
                                   /\ stream'[n] = stream[n + 1]
  BY <1>1
<1>3. tx.slot \in Slots
  BY <1>2 DEF Message
<1> HIDE DEF tx
<1>4. /\ pending'[tx.slot].new = pending[tx.slot].new \cup tx.new
      /\ \A s \in Slots : s # tx.slot => pending'[s] = pending[s]
  BY <1>1, <1>3
<1>5. \A n \in DOMAIN stream' : stream'[n].new \cap tx.new = {}
  <2>1. ASSUME NEW n \in DOMAIN stream'
        PROVE  stream'[n].new \cap tx.new = {}
    <3>1. n + 1 \in DOMAIN stream /\ n + 1 # 1 /\ stream'[n] = stream[n + 1]
      BY <1>2
    <3> QED
      BY <3>1, <1>2 DEF OnTheWay
  <2> QED
    BY <2>1
<1>6. /\ \A o \in tx.new : booked[o] = tx.slot
      /\ \A s \in Slots : tx.new \cap pending[s].new = {}
      /\ tx.new \cap acceptBatch.new = {}
  BY <1>2 DEF OnTheWay
<1>7. NothingNew
  BY <1>1, <1>2, <1>4 DEF NothingNew, Announced
<1>8. \A n, m \in DOMAIN stream' : n # m => stream'[n].new \cap stream'[m].new = {}
  <2>1. ASSUME NEW n \in DOMAIN stream', NEW m \in DOMAIN stream', n # m
        PROVE  stream'[n].new \cap stream'[m].new = {}
    <3>1. /\ n + 1 \in DOMAIN stream /\ m + 1 \in DOMAIN stream /\ n + 1 # m + 1
          /\ stream'[n] = stream[n + 1] /\ stream'[m] = stream[m + 1]
      BY <2>1, <1>2
    <3> QED
      BY <3>1 DEF OnTheWay
  <2> QED
    BY <2>1
<1>9. /\ \A n \in DOMAIN stream' : \A o \in stream'[n].new : booked'[o] = stream'[n].slot
      /\ \A s \in Slots : \A o \in pending'[s].new : booked'[o] = s
      /\ \A o \in acceptBatch'.new : booked'[o] = acceptSlot'
  BY <1>1, <1>2, <1>4, <1>6 DEF OnTheWay
<1>10. /\ \A n \in DOMAIN stream', s \in Slots : stream'[n].new \cap pending'[s].new = {}
       /\ \A n \in DOMAIN stream' : stream'[n].new \cap acceptBatch'.new = {}
       /\ \A s \in Slots : pending'[s].new \cap acceptBatch'.new = {}
  BY <1>1, <1>2, <1>4, <1>5, <1>6 DEF OnTheWay
<1> QED
  BY <1>7, <1>8, <1>9, <1>10 DEF OnTheWay

LEMMA WayTake ==
  ASSUME TypeOK, OnTheWay, TickTake
  PROVE  OnTheWay' /\ NothingNew
<1>1. /\ acceptSlot \in Slots
      /\ acceptSlot' = acceptSlot /\ acceptBatch' = pending[acceptSlot]
      /\ pending'[acceptSlot] = NoBatch
      /\ \A r \in Slots : r # acceptSlot => pending'[r] = pending[r]
      /\ UNCHANGED <<booked, stream>>
  BY DEF TickTake, TypeOK, nodeVars
<1>2. \A r \in Slots : r # acceptSlot => pending[r].new \cap pending[acceptSlot].new = {}
  BY <1>1 DEF OnTheWay
<1> QED
  BY <1>1, <1>2 DEF OnTheWay, NothingNew, Announced, NoBatch

LEMMA WayDrop ==
  ASSUME TypeOK, OnTheWay, DropPending
  PROVE  OnTheWay' /\ NothingNew
<1>1. /\ pending'[dropSlot] = NoBatch
      /\ \A r \in Slots : r # dropSlot => pending'[r] = pending[r]
      /\ UNCHANGED <<booked, stream, acceptSlot, acceptBatch>>
  BY DEF DropPending, TypeOK, nodeVars, acceptVars
<1> QED
  BY <1>1 DEF OnTheWay, NothingNew, Announced, NoBatch

\* Every step.
LEMMA WayStep ==
  ASSUME ViewInv, ~Reissues, OnTheWay, Next
  PROVE  OnTheWay' /\ NothingNew
<1>t. TypeOK /\ (acceptPc \in {"idle", "chosen"} => acceptBatch = NoBatch)
  BY DEF ViewInv, IInv
<1>1. CASE NodeAccepts \/ NodeCommits
  BY <1>1, WayNode
<1>2. CASE ListenAccepted
  BY <1>2, <1>t, WayListen
<1>3. CASE Crash \/ Stop
  BY <1>3, WayDown DEF Crash, Stop
<1>4. CASE TickTake
  BY <1>4, <1>t, WayTake
<1>5. CASE DropPending
  BY <1>5, <1>t, WayDrop
<1>c. CASE \E s \in Slots : TickChoose(s)
  BY <1>c, <1>t, WayStays DEF TickChoose, nodeVars, batchVars
<1>6. CASE \/ TickMisses \/ AcceptSkip \/ AcceptOnClosedDatabase \/ AcceptEnd
           \/ AcceptFails \/ \E o \in Outputs : AcceptConflict(o)
  BY <1>6, WayStays
  DEF TickMisses, AcceptSkip, AcceptOnClosedDatabase, AcceptEnd, AcceptFails,
      AcceptConflict, TickEnd, nodeVars, batchVars
<1>7. CASE Start \/ Reset \/ Refuse \/ ReadStatus \/ Terminating
  BY <1>7, WayStays
  DEF Start, Fill, Resume, Reset, Refuse, ReadStatus, Terminating, Up, vars, nodeVars,
      batchVars, acceptVars
<1>8. CASE \/ ReceiveLedgerUpdate \/ NothingToDrop \/ CommitBegin \/ CommitEnd
           \/ Publish \/ CommitFails \/ \E s \in Slots : ChooseDrop(s)
           \/ \E o \in Outputs : CommitSpend(o) \/ CommitCreate(o)
  BY <1>8, WayStays
  DEF ReceiveLedgerUpdate, NothingToDrop, CommitBegin, CommitEnd, Publish, CommitFails,
      ChooseDrop, CommitSpend, CommitCreate, InTx, nodeVars, batchVars, acceptVars
<1>9. CASE AcceptCheck \/ AcceptBegin \/ \E o \in Outputs : AcceptSpend(o) \/ AcceptCreate(o)
  BY <1>9, WayStays
  DEF AcceptCheck, AcceptBegin, AcceptSpend, AcceptCreate, InTx, nodeVars, batchVars,
      acceptVars
<1> QED
  BY <1>1, <1>2, <1>3, <1>4, <1>5, <1>c, <1>6, <1>7, <1>8, <1>9
  DEF Next, CommitWorker, AcceptWorker

-----------------------------------------------------------------------------
(* Spends.                                                                   *)

\* The mark of a row of t is not of a slot before the booking of its output.
MarksBooked(t) == \A o \in Stored(t) : t[o].deleted # 0 => booked[o] <= t[o].deleted

\* The statements keep that, if a spend is not of a slot before its output's.
LEMMA WriteMarks ==
  ASSUME NEW t \in Tables, NEW o \in Outputs, NEW s \in Nat, MarksBooked(t)
  PROVE  /\ MarksBooked(DeleteRow(t, o))
         /\ MarksBooked(InsertRow(t, o, s))
         /\ MarksBooked(UpsertCommitted(t, o, s))
         /\ booked[o] <= s => MarksBooked(MarkDeleted(t, o, s))
         /\ MarksBooked(RemoveUncommittedChangesUpUntilSlot(t, s))
<1>t. t[o] # NoRow => t[o] \in Row
  BY RowOrNone
<1>k. ASSUME NEW r, r.deleted # 0 => booked[o] <= r.deleted
      PROVE  MarksBooked([t EXCEPT ![o] = r])
  BY <1>k DEF MarksBooked, Stored, Tables
<1>1. MarksBooked(DeleteRow(t, o))
  BY DEF DeleteRow, MarksBooked, Stored, Tables
<1>2. MarksBooked(InsertRow(t, o, s))
  BY <1>k DEF InsertRow, NewRow
<1>3. MarksBooked(UpsertCommitted(t, o, s))
  <2>1. CASE t[o] = NoRow
    BY <2>1, <1>k DEF UpsertCommitted, NewRow
  <2>2. CASE t[o] # NoRow
    <3>1. [t[o] EXCEPT !.committed = TRUE].deleted = t[o].deleted
      BY <1>t, <2>2 DEF Row
    <3>2. UpsertCommitted(t, o, s) = [t EXCEPT ![o] = [t[o] EXCEPT !.committed = TRUE]]
      BY <2>2 DEF UpsertCommitted
    <3> QED
      BY <3>1, <3>2, <1>k, <2>2 DEF MarksBooked, Stored
  <2> QED
    BY <2>1, <2>2
<1>4. ASSUME booked[o] <= s
      PROVE  MarksBooked(MarkDeleted(t, o, s))
  <2>1. CASE t[o] = NoRow
    BY <2>1 DEF MarkDeleted
  <2>2. CASE t[o] # NoRow
    <3>1. [t[o] EXCEPT !.deleted = s].deleted = s
      BY <1>t, <2>2 DEF Row
    <3>2. MarkDeleted(t, o, s) = [t EXCEPT ![o] = [t[o] EXCEPT !.deleted = s]]
      BY <2>2 DEF MarkDeleted
    <3> QED
      BY <3>1, <3>2, <1>4, <1>k
  <2> QED
    BY <2>1, <2>2
<1>5. MarksBooked(RemoveUncommittedChangesUpUntilSlot(t, s))
  <2> DEFINE u == RemoveUncommittedChangesUpUntilSlot(t, s)
  <2>1. ASSUME NEW p \in Outputs, u[p] # NoRow, u[p].deleted # 0
        PROVE  t[p] # NoRow /\ u[p].deleted = t[p].deleted
    <3>1. t[p] # NoRow /\ u[p] = Restored(t[p], s)
      BY <2>1 DEF RemoveUncommittedChangesUpUntilSlot
    <3>2. t[p] \in Row
      BY <3>1, RowOrNone
    <3> QED
      BY <2>1, <3>1, <3>2 DEF Restored, Row
  <2> HIDE DEF u
  <2>2. MarksBooked(u)
    BY <2>1 DEF MarksBooked, Stored
  <2> QED
    BY <2>2 DEF u
<1> QED
  BY <1>1, <1>2, <1>3, <1>4, <1>5

\* A table that keeps its marks keeps them over a step of the node.
LEMMA MarksKept ==
  ASSUME ViewInv, ~Reissues, BookedOnce, Next, NEW u, MarksBooked(u), RowsBooked(u),
         u \in Tables
  PROVE  \A o \in Stored(u) : u[o].deleted # 0 => booked'[o] <= u[o].deleted
<1>1. ASSUME NEW o \in Stored(u)
      PROVE  booked'[o] = booked[o]
  <2>1. u[o].created = booked[o] /\ o \in Outputs /\ u[o].created \in Nat
    BY RowOrNone DEF RowsBooked, Stored
  <2>2. booked[o] # NoSlot
    BY <2>1 DEF NoSlot
  <2> QED
    BY <2>1, <2>2, BookedStays
<1> QED
  BY <1>1 DEF MarksBooked

\* The marks of both tables.
LEMMA MarksStep ==
  ASSUME ViewInv, ~Reissues, BookedOnce, SpentAfterBooked, Next
  PROVE  MarksBooked(rows)' /\ MarksBooked(txRows)'
<1>t. /\ MarksBooked(rows) /\ MarksBooked(txRows)
      /\ RowsBooked(rows) /\ RowsBooked(txRows)
      /\ rows \in Tables /\ txRows \in Tables
      /\ commitSlot \in Nat /\ acceptSlot \in Nat
  BY DEF ViewInv, IInv, TypeOK, BookedOnce, RowsBooked, SpentAfterBooked, MarksBooked, Slots
<1>w. RowsBooked(rows)' /\ RowsBooked(txRows)'
  BY RowsBookedStep
<1>y. rows' \in Tables /\ txRows' \in Tables
  BY TypeStep DEF ViewInv, IInv, TypeOK
\* A row of a table after the step is of an output whose booking stays.
<1>b. /\ \A o \in Stored(rows')   : booked[o] # NoSlot => booked'[o] = booked[o]
      /\ \A o \in Stored(txRows') : booked[o] # NoSlot => booked'[o] = booked[o]
  BY BookedStays DEF Stored
<1>n. UNCHANGED nodeVars => UNCHANGED booked
  BY DEF nodeVars
<1>1. ASSUME NEW u \in Tables, MarksBooked(u), UNCHANGED nodeVars,
             txRows' = u, rows' = u \/ rows' = rows
      PROVE  MarksBooked(rows)' /\ MarksBooked(txRows)'
  BY <1>1, <1>t, <1>n DEF MarksBooked, Stored
<1>2. CASE /\ rows' = rows \/ rows' = txRows
           /\ txRows' = rows \/ txRows' = txRows
  <2>1. /\ \A o \in Stored(rows) : rows[o].deleted # 0 => booked'[o] <= rows[o].deleted
        /\ \A o \in Stored(txRows) : txRows[o].deleted # 0 => booked'[o] <= txRows[o].deleted
    BY <1>t, MarksKept
  <2> QED
    BY <1>2, <2>1 DEF MarksBooked, Stored
<1>3. CASE CommitBegin
  <2>1. /\ txRows' = RemoveUncommittedChangesUpUntilSlot(rows, commitSlot)
        /\ rows' = rows /\ UNCHANGED nodeVars
    BY <1>3 DEF CommitBegin, dbVars
  <2>2. CASE Outputs = {}
    BY <2>1, <2>2 DEF MarksBooked, Stored
  <2>3. CASE Outputs # {}
    <3>1. PICK o \in Outputs : TRUE
      BY <2>3
    <3>2. MarksBooked(RemoveUncommittedChangesUpUntilSlot(rows, commitSlot))
      BY <3>1, <1>t, WriteMarks
    <3> QED
      BY <2>1, <3>2, <1>1, <1>y
  <2> QED
    BY <2>2, <2>3
<1>4. ASSUME NEW o \in Outputs, CommitSpend(o)
      PROVE  MarksBooked(rows)' /\ MarksBooked(txRows)'
  <2>1. txRows' = DeleteRow(txRows, o) /\ rows' = rows /\ UNCHANGED nodeVars
    BY <1>4 DEF CommitSpend, InTx, dbVars
  <2>2. MarksBooked(DeleteRow(txRows, o))
    BY <1>t, WriteMarks
  <2> QED
    BY <2>1, <2>2, <1>1, <1>y
<1>5. ASSUME NEW o \in Outputs, CommitCreate(o)
      PROVE  MarksBooked(rows)' /\ MarksBooked(txRows)'
  <2>1. txRows' = UpsertCommitted(txRows, o, commitSlot) /\ rows' = rows /\ UNCHANGED nodeVars
    BY <1>5 DEF CommitCreate, InTx, dbVars
  <2>2. MarksBooked(UpsertCommitted(txRows, o, commitSlot))
    BY <1>t, WriteMarks
  <2> QED
    BY <2>1, <2>2, <1>1, <1>y
<1>6. ASSUME NEW o \in Outputs, AcceptSpend(o)
      PROVE  MarksBooked(rows)' /\ MarksBooked(txRows)'
  <2>1. txRows' = MarkDeleted(txRows, o, acceptSlot) /\ rows' = rows /\ UNCHANGED nodeVars
    BY <1>6 DEF AcceptSpend, InTx, dbVars
  <2>2. o \in acceptBatch.old
    BY <1>6 DEF AcceptSpend, ViewInv, IInv, TxOwner, AcceptExact
  <2>3. booked[o] <= acceptSlot
    BY <2>2 DEF SpentAfterBooked
  <2>4. MarksBooked(MarkDeleted(txRows, o, acceptSlot))
    BY <1>t, <2>3, WriteMarks
  <2> QED
    BY <2>1, <2>4, <1>1, <1>y
<1>7. ASSUME NEW o \in Outputs, AcceptCreate(o)
      PROVE  MarksBooked(rows)' /\ MarksBooked(txRows)'
  <2>1. txRows' = InsertRow(txRows, o, acceptSlot) /\ rows' = rows /\ UNCHANGED nodeVars
    BY <1>7 DEF AcceptCreate, InTx, dbVars
  <2>2. MarksBooked(InsertRow(txRows, o, acceptSlot))
    BY <1>t, WriteMarks
  <2> QED
    BY <2>1, <2>2, <1>1, <1>y
<1>8. CASE Fill \/ Reset \/ Refuse
  <2>1. \A o \in Outputs : rows'[o] = NoRow \/ rows'[o] = NewRow(booked[o], TRUE)
    BY <1>8 DEF Fill, Reset, Refuse, Filled, EmptyTable
  <2>2. txRows' = rows'
    BY <1>8 DEF Fill, Reset, Refuse, Up
  <2>3. ASSUME NEW o \in Stored(rows') PROVE rows'[o].deleted = 0
    <3>1. o \in Outputs /\ rows'[o] # NoRow
      BY <2>3 DEF Stored
    <3>2. rows'[o] = NewRow(booked[o], TRUE)
      BY <2>1, <3>1
    <3> QED
      BY <3>2 DEF NewRow
  <2> QED
    BY <2>2, <2>3 DEF MarksBooked, Stored
<1>10. CASE Resume
  <2>1. /\ rows' = RemoveUncommittedChangesUpUntilSlot(rows, MaxSlot)
        /\ txRows' = rows' /\ UNCHANGED nodeVars
    BY <1>10 DEF Resume, Up
  <2>2. CASE Outputs = {}
    BY <2>1, <2>2 DEF MarksBooked, Stored
  <2>3. CASE Outputs # {}
    <3>1. PICK o \in Outputs : TRUE
      BY <2>3
    <3>2. MarksBooked(RemoveUncommittedChangesUpUntilSlot(rows, MaxSlot))
      BY <3>1, <1>t, WriteMarks, MaxSlotAssumption
    <3> QED
      BY <2>1, <3>2, <1>1, <1>y
  <2> QED
    BY <2>2, <2>3
<1>11. CASE \/ NodeAccepts \/ NodeCommits \/ ListenAccepted \/ ReadStatus \/ Terminating
            \/ ReceiveLedgerUpdate \/ DropPending \/ NothingToDrop \/ Publish
            \/ TickTake \/ TickMisses \/ AcceptSkip \/ AcceptCheck \/ AcceptBegin
            \/ AcceptOnClosedDatabase
            \/ \E s \in Slots : ChooseDrop(s) \/ TickChoose(s)
  <2>1. rows' = rows /\ txRows' = txRows
    BY <1>11
    DEF NodeAccepts, NodeCommits, ListenAccepted, ReadStatus, Terminating,
        ReceiveLedgerUpdate, DropPending, NothingToDrop, Publish, TickTake, TickMisses,
        AcceptSkip, AcceptCheck, AcceptBegin, AcceptOnClosedDatabase, ChooseDrop,
        TickChoose, vars, dbVars, txVars
  <2> QED
    BY <2>1, <1>2
<1>12. CASE \/ CommitEnd \/ AcceptEnd \/ CommitFails \/ AcceptFails \/ Crash \/ Stop
            \/ \E o \in Outputs : AcceptConflict(o)
  <2>1. \/ rows' = rows /\ txRows' = rows
        \/ rows' = txRows /\ txRows' = txRows
    BY <1>12
    DEF CommitEnd, AcceptEnd, CommitFails, AcceptFails, Crash, Stop, AcceptConflict,
        InstallTx, RollbackTx, Down, dbVars
  <2> QED
    BY <2>1, <1>2
<1> QED
  BY <1>3, <1>4, <1>5, <1>6, <1>7, <1>8, <1>10, <1>11, <1>12
  DEF Next, Start, CommitWorker, AcceptWorker

\* And what is on its way to become a mark: a batch travels as it is, and the
\* node lets a transaction spend only what is booked for its slot or before.
LEMMA SpentStep ==
  ASSUME ViewInv, ~Reissues, BookedOnce, SpentAfterBooked, Next
  PROVE  SpentAfterBooked'
<1>t. TypeOK /\ acceptSlot \in Slots /\ NoBatch.old = {}
  BY DEF ViewInv, IInv, TypeOK, NoBatch
<1>b. ASSUME NEW o \in Outputs, NEW s \in Slots, booked[o] \in 0..s
      PROVE  booked'[o] \in 0..s
  <2>1. booked[o] # NoSlot
    BY <1>b DEF NoSlot
  <2> QED
    BY <2>1, <1>b, BookedStays
<1>g. /\ \A n \in DOMAIN stream : \A o \in stream[n].old : booked'[o] \in 0..stream[n].slot
      /\ \A s \in Slots : \A o \in pending[s].old : booked'[o] \in 0..s
      /\ \A o \in acceptBatch.old : booked'[o] \in 0..acceptSlot
  BY <1>b, <1>t, BatchTypes DEF SpentAfterBooked
<1>1. ASSUME NEW n \in DOMAIN stream', NEW o \in stream'[n].old
      PROVE  booked'[o] \in 0..stream'[n].slot
  <2>1. CASE \E m \in DOMAIN stream : stream'[n] = stream[m]
    BY <2>1, <1>1, <1>g
  <2>2. CASE \E s \in Slots, new, old \in SUBSET Outputs :
               /\ NodeAccept(s, new, old)
               /\ stream'[n] = [slot |-> s, new |-> new, old |-> old]
    BY <2>2, <1>1, <1>b DEF NodeAccept
  <2> QED
    BY <2>1, <2>2, BatchesTravel DEF Travels
<1>2. ASSUME NEW s \in Slots, NEW o \in pending'[s].old
      PROVE  booked'[o] \in 0..s
  BY <1>2, <1>g, <1>t, BatchesTravel DEF Travels
<1>3. ASSUME NEW o \in acceptBatch'.old
      PROVE  booked'[o] \in 0..acceptSlot'
  BY <1>3, <1>g, <1>t, BatchesTravel DEF Travels
<1>4. MarksBooked(rows)' /\ MarksBooked(txRows)'
  BY MarksStep
<1> QED
  BY <1>1, <1>2, <1>3, <1>4 DEF SpentAfterBooked, MarksBooked, Stored

-----------------------------------------------------------------------------
(* OnceInv is inductive, given ViewInv.                                      *)

\* BookedOnce and AnnouncedOnce, taken apart and put together again.
LEMMA OnceParts ==
  /\ BookedOnce /\ AnnouncedOnce <=>
       /\ RowsBooked(rows) /\ RowsBooked(txRows) /\ OnTheWay
       /\ \A o \in Stored(rows) : Announced(o) => booked[o] <= status
  /\ BookedOnce' /\ AnnouncedOnce' <=>
       /\ RowsBooked(rows)' /\ RowsBooked(txRows)' /\ OnTheWay'
       /\ \A o \in Stored(rows') : Announced(o)' => booked'[o] <= status'
BY DEF BookedOnce, AnnouncedOnce, RowsBooked, OnTheWay, Stored

\* The rows a step adds are committed, or of the batch that it uses up.
LEMMA NewRows ==
  ASSUME ViewInv, OnTheWay, [Next]_vars, NEW o \in Stored(rows') \ Stored(rows)
  PROVE  booked'[o] <= status' \/ ~Announced(o)'
<1>t. /\ o \in Outputs /\ rows' # rows /\ NodeTypeOK
      /\ rows[o] = NoRow /\ rows'[o] # NoRow
  BY DEF Stored, ViewInv, IInv, TypeOK
<1>1. CASE CommitEnd
  <2>1. /\ todoSpend = {} /\ todoCreate = {} /\ rows' = txRows /\ status' = commitSlot
        /\ txBy = "commit" /\ booked' = booked /\ commitSlot \in Slots
    BY <1>1 DEF CommitEnd, InstallTx, ViewInv, IInv, TypeOK, TxOwner, nodeVars
  <2>2. RemoveUncommittedChangesUpUntilSlot(rows, commitSlot)[o] = NoRow
    BY <1>t DEF RemoveUncommittedChangesUpUntilSlot
  <2>3. o \in Created(commitSlot)
    BY <2>1, <2>2, <1>t DEF ViewInv, CommitExact
  <2> QED
    BY <2>1, <2>3, <1>t DEF Created, Slots
<1>2. CASE AcceptEnd
  <2>1. /\ todoSpend = {} /\ todoCreate = {} /\ rows' = txRows
        /\ txBy = "accept" /\ acceptBatch' = NoBatch
        /\ UNCHANGED <<stream, pending>>
    BY <1>2 DEF AcceptEnd, InstallTx, TickEnd, ViewInv, IInv, TxOwner, batchVars
  <2>2. MarkDeleted(rows, o, acceptSlot)[o] = NoRow
    BY <1>t DEF MarkDeleted
  <2>3. o \in acceptBatch.new
    BY <2>1, <2>2, <1>t DEF ViewInv, AcceptExact
  <2>4. ~Announced(o)'
    BY <2>1, <2>3 DEF OnTheWay, Announced, NoBatch
  <2> QED
    BY <2>4
<1>3. CASE Fill \/ Reset
  <2>1. /\ booked' = booked /\ status' = nodeSlot /\ o \in LedgerAt(nodeSlot)
    BY <1>3, <1>t DEF Fill, Reset, Filled, Up, nodeVars
  <2> QED
    BY <2>1 DEF LedgerAt
<1>4. CASE Resume
  BY <1>4, <1>t DEF Resume, RemoveUncommittedChangesUpUntilSlot
<1>5. CASE Refuse
  BY <1>5, <1>t DEF Refuse, EmptyTable
<1> QED
  BY <1>1, <1>2, <1>3, <1>4, <1>5, <1>t, OtherView

\* The status never goes back, but for the index that is given up.
LEMMA StatusGrows ==
  ASSUME ViewInv, [Next]_vars
  PROVE  status <= status' \/ rows' = EmptyTable
<1>t. status \in Int
  BY DEF ViewInv, IInv, TypeOK, Slots, NoSlot
<1>1. CASE CommitEnd
  BY <1>1, <1>t, CommitTables
<1>2. CASE AcceptEnd
  BY <1>2, <1>t, AcceptView
<1>3. CASE Resume
  BY <1>3, <1>t DEF Resume
<1>4. CASE Fill \/ Reset
  <2>1. status' = nodeSlot /\ nodeSlot > status /\ nodeSlot \in Int
    BY <1>4, FillView DEF Slots
  <2> QED
    BY <2>1, <1>t
<1>5. CASE Refuse
  BY <1>5 DEF Refuse
<1>6. CASE UNCHANGED <<rows, status>>
  BY <1>6, <1>t
<1> QED
  BY <1>1, <1>2, <1>3, <1>4, <1>5, <1>6, OtherView

LEMMA NextOnceInv ==
  ASSUME ViewInv, OnceInv, [Next]_vars
  PROVE  OnceInv'
<1>v. ViewInv'
  BY NextViewInv
<1>r. Reissues' = Reissues
  OBVIOUS
<1>1. CASE ~Reissues /\ Next
  <2>1. /\ BookedOnce /\ RowsBooked(rows) /\ OnTheWay
        /\ \A o \in Stored(rows) : Announced(o) => booked[o] <= status
    BY <1>1, OnceParts DEF OnceInv
  <2>2. RowsBooked(rows)' /\ RowsBooked(txRows)' /\ OnTheWay' /\ NothingNew
    BY <1>1, <1>v, <2>1, RowsBookedStep, WayStep
  <2>s. SpentAfterBooked'
    BY <1>1, <1>v, SpentStep DEF OnceInv
  <2>3. ASSUME NEW o \in Stored(rows'), Announced(o)'
        PROVE  booked'[o] <= status'
    <3>1. CASE o \in Stored(rows)
      <4>1. rows[o].created = booked[o] /\ rows[o].created \in Nat /\ o \in Outputs
        BY <3>1, <2>1, <1>v, RowOrNone DEF RowsBooked, Stored, ViewInv, IInv, TypeOK
      <4>2. booked[o] # NoSlot /\ booked[o] \in Nat
        BY <4>1 DEF NoSlot
      <4>3. booked'[o] = booked[o]
        BY <4>1, <4>2, <1>1, <1>v, BookedStays
      <4>4. booked[o] <= status
        BY <2>1, <2>2, <2>3, <3>1, <4>1, <4>2 DEF NothingNew
      <4>5. rows' # EmptyTable
        BY <2>3 DEF Stored, EmptyTable
      <4>6. status \in Int /\ status' \in Int /\ status <= status'
        BY <1>v, <4>5, StatusGrows DEF ViewInv, IInv, TypeOK, Slots, NoSlot
      <4> QED
        BY <4>2, <4>3, <4>4, <4>6
    <3>2. CASE o \notin Stored(rows)
      BY <3>2, <2>1, <2>3, <1>v, NewRows
    <3> QED
      BY <3>1, <3>2
  <2> QED
    BY <2>2, <2>s, <2>3, OnceParts DEF OnceInv
<1>2. CASE ~Reissues /\ UNCHANGED vars
  <2>1. UNCHANGED <<booked, rows, txRows, status, stream, pending, acceptSlot, acceptBatch>>
    BY <1>2 DEF vars, nodeVars, dbVars, txVars, batchVars, acceptVars
  <2>2. BookedOnce' /\ AnnouncedOnce' /\ SpentAfterBooked'
    BY <1>2, <2>1
    DEF OnceInv, BookedOnce, AnnouncedOnce, SpentAfterBooked, Announced, Stored
  <2> QED
    BY <2>2 DEF OnceInv
<1>3. CASE Reissues
  BY <1>3 DEF OnceInv
<1> QED
  BY <1>1, <1>2, <1>3

LEMMA InitOnceInv ==
  ASSUME Init
  PROVE  OnceInv
<1>1. /\ stream = <<>> /\ DOMAIN stream = {}
      /\ \A s \in Slots : pending[s] = NoBatch
      /\ acceptBatch = NoBatch
      /\ Stored(rows) = {} /\ Stored(txRows) = {}
  BY DEF Init, NoPending, Stored, EmptyTable
<1>2. BookedOnce /\ AnnouncedOnce /\ SpentAfterBooked
  BY <1>1 DEF BookedOnce, AnnouncedOnce, SpentAfterBooked, NoBatch
<1> QED
  BY <1>2 DEF OnceInv

\* With a node that books an output ID once, a row and an announcement of an output
\* are of that one booking, no spend of it is of an earlier slot, and it is in the
\* stream, a pending batch or the batch of the tick, but in one of them only, however
\* listener, ticker and ledger update worker take turns.
THEOREM OnceInvariance == Spec => []OnceInv
BY InitViewInv, InitOnceInv, NextViewInv, NextOnceInv, PTL DEF Spec

\* Where no orphan is booked again, the slot of a committed row is the slot that
\* booked its output, also of a row an accepted transaction had inserted before
\* (processOutput's ON CONFLICT leaves created_at_slot alone).
THEOREM CreatedSlotsCorrect ==
  ASSUME ~Reissues
  PROVE  Spec => []CreatedSlotsAreBookings
<1>1. OnceInv => CreatedSlotsAreBookings
  BY DEF OnceInv, BookedOnce, CreatedSlotsAreBookings, Committed
<1> QED
  BY OnceInvariance, <1>1, PTL

\* Where no orphan is booked again, the tables implement the relaxed view,
\* whatever the interleaving of the two workers, the order in which the ticker
\* takes the batches, the faults, the node and the restarts (CommitLedgerUpdate,
\* AcceptLedgerUpdate, checkIndexerStatus).
THEOREM TablesAreView ==
  ASSUME ~Reissues
  PROVE  Spec => RelaxedView
<1>1. Init => Relaxed!ViewInit
  BY InitView DEF Relaxed!ViewInit, Relaxed!NoSlot, NoSlot
<1>2. ASSUME ViewInv, OnceInv, [Next]_vars
      PROVE  [Relaxed!ViewNext]_(Relaxed!viewVars)
  <2> USE DEF Relaxed!Slots, Relaxed!NoSlot, Slots, NoSlot
  <2>1. CASE UNCHANGED <<rows, status>>
    BY <2>1, ViewStutters DEF Relaxed!viewVars
  <2>2. CASE CommitEnd
    <3>1. Relaxed!Commit(Created(commitSlot), Consumed(commitSlot))
      BY <1>2, <2>2, CommitTables, CommitView DEF Relaxed!Commit, Relaxed!Without, Relaxed!After
    <3>2. Created(commitSlot) \in SUBSET Outputs /\ Consumed(commitSlot) \in SUBSET Outputs
      BY <1>2, <2>2, CommitTables
    <3> QED
      BY <3>1, <3>2 DEF Relaxed!ViewNext
  <2>3. CASE AcceptEnd
    <3> DEFINE new == acceptBatch.new \ acceptBatch.old
               old == acceptBatch.old
    <3>1. Relaxed!Accept(acceptSlot, new, old)
      BY <1>2, <2>3, AcceptView
      DEF Relaxed!Accept, Relaxed!Of, Relaxed!At, Relaxed!Without
    <3>2. acceptSlot \in Slots /\ new \in SUBSET Outputs /\ old \in SUBSET Outputs
      BY <1>2 DEF ViewInv, IInv, TypeOK, Batch
    <3> QED
      BY <3>1, <3>2 DEF Relaxed!ViewNext
  <2>4. CASE Resume
    BY <1>2, <2>4, ResumeView DEF Relaxed!ViewNext, Relaxed!Forget
  <2>5. CASE Fill \/ Reset
    <3>1. Relaxed!Import(nodeSlot, LedgerAt(nodeSlot))
      BY <1>2, <2>5, FillView DEF Relaxed!Import
    <3>2. nodeSlot \in Slots /\ LedgerAt(nodeSlot) \in SUBSET Outputs
      BY <1>2, <2>5, FillView
    <3> QED
      BY <3>1, <3>2 DEF Relaxed!ViewNext
  <2>6. CASE Refuse
    BY <2>6, RefuseView DEF Relaxed!ViewNext, Relaxed!Clear
  <2> QED
    BY <1>2, <2>1, <2>2, <2>3, <2>4, <2>5, <2>6, OtherView
<1> QED
  BY <1>1, <1>2, ViewInvariance, OnceInvariance, PTL DEF Spec, RelaxedView, Relaxed!ViewSpec

-----------------------------------------------------------------------------
(* Calls that do not overlap.                                                *)

\* UncommittedAreAhead, said of the overlay.
LEMMA AheadOverlay ==
  /\ UncommittedAreAhead <=> /\ \A p \in Extra : p[2] > status
                             /\ \A p \in Marks : p[2] > status
  /\ UncommittedAreAhead' <=> /\ \A p \in Extra' : p[2] > status'
                              /\ \A p \in Marks' : p[2] > status'
<1>1. /\ UncommittedAreAhead <=> /\ \A o \in Extras(rows) : rows[o].created > status
                                 /\ \A o \in Marked(rows) : rows[o].deleted > status
      /\ UncommittedAreAhead' <=> /\ \A o \in Extras(rows') : rows'[o].created > status'
                                  /\ \A o \in Marked(rows') : rows'[o].deleted > status'
  BY DEF UncommittedAreAhead, Extras, Marked, Stored
<1>2. /\ \A o \in Extras(rows)  : <<o, rows[o].created>> \in Extra
      /\ \A o \in Marked(rows)  : <<o, rows[o].deleted>> \in Marks
      /\ \A o \in Extras(rows') : <<o, rows'[o].created>> \in Extra'
      /\ \A o \in Marked(rows') : <<o, rows'[o].deleted>> \in Marks'
  BY OverlayOf
<1>3. /\ \A p \in Extra  : \E o \in Extras(rows)  : p = <<o, rows[o].created>>
      /\ \A p \in Marks  : \E o \in Marked(rows)  : p = <<o, rows[o].deleted>>
      /\ \A p \in Extra' : \E o \in Extras(rows') : p = <<o, rows'[o].created>>
      /\ \A p \in Marks' : \E o \in Marked(rows') : p = <<o, rows'[o].deleted>>
  BY OverlayOf
<1>4. ASSUME UncommittedAreAhead
      PROVE  /\ \A p \in Extra : p[2] > status
             /\ \A p \in Marks : p[2] > status
  <2>1. ASSUME NEW p \in Extra PROVE p[2] > status
    <3>1. PICK o \in Extras(rows) : p = <<o, rows[o].created>>
      BY <1>3
    <3> QED
      BY <3>1, <1>4, <1>1
  <2>2. ASSUME NEW p \in Marks PROVE p[2] > status
    <3>1. PICK o \in Marked(rows) : p = <<o, rows[o].deleted>>
      BY <1>3
    <3> QED
      BY <3>1, <1>4, <1>1
  <2> QED
    BY <2>1, <2>2
<1>5. ASSUME \A p \in Extra : p[2] > status, \A p \in Marks : p[2] > status
      PROVE  UncommittedAreAhead
  <2>1. ASSUME NEW o \in Extras(rows) PROVE rows[o].created > status
    BY <1>2, <1>5
  <2>2. ASSUME NEW o \in Marked(rows) PROVE rows[o].deleted > status
    BY <1>2, <1>5
  <2> QED
    BY <2>1, <2>2, <1>1
<1>6. ASSUME UncommittedAreAhead'
      PROVE  /\ \A p \in Extra' : p[2] > status'
             /\ \A p \in Marks' : p[2] > status'
  <2>1. ASSUME NEW p \in Extra' PROVE p[2] > status'
    <3>1. PICK o \in Extras(rows') : p = <<o, rows'[o].created>>
      BY <1>3
    <3> QED
      BY <3>1, <1>6, <1>1
  <2>2. ASSUME NEW p \in Marks' PROVE p[2] > status'
    <3>1. PICK o \in Marked(rows') : p = <<o, rows'[o].deleted>>
      BY <1>3
    <3> QED
      BY <3>1, <1>6, <1>1
  <2> QED
    BY <2>1, <2>2
<1>7. ASSUME \A p \in Extra' : p[2] > status', \A p \in Marks' : p[2] > status'
      PROVE  UncommittedAreAhead'
  <2>1. ASSUME NEW o \in Extras(rows') PROVE rows'[o].created > status'
    BY <1>2, <1>7
  <2>2. ASSUME NEW o \in Marked(rows') PROVE rows'[o].deleted > status'
    BY <1>2, <1>7
  <2> QED
    BY <2>1, <2>2, <1>1
<1> QED
  BY <1>4, <1>5, <1>6, <1>7

\* The overlay stays ahead of the status.
LEMMA AheadStep ==
  ASSUME SerialInv, [Next]_vars
  PROVE  UncommittedAreAhead'
<1>v. ViewInv
  BY DEF SerialInv
<1>t. /\ \A p \in Extra : p[2] > status
      /\ \A p \in Marks : p[2] > status
  BY AheadOverlay DEF SerialInv
<1>1. CASE CommitEnd
  <2>1. status' = commitSlot /\ Settled(rows', commitSlot)
    BY <1>1, <1>v, CommitTables
  <2>2. commitSlot \in Nat
    BY <1>v DEF ViewInv, IInv, TypeOK, Slots
  <2> QED
    BY <2>1, <2>2 DEF Settled, UncommittedAreAhead
<1>2. CASE AcceptEnd
  <2>1. acceptSlot > status
    BY <1>2 DEF SerialInv, AcceptEnd
  <2> QED
    BY <1>2, <1>t, <1>v, <2>1, AcceptView, AheadOverlay
<1>3. CASE Resume
  BY <1>3, <1>v, ResumeView, AheadOverlay
<1>4. CASE Fill \/ Reset
  BY <1>4, <1>v, FillView, AheadOverlay
<1>5. CASE Refuse
  BY <1>5, RefuseView, AheadOverlay
<1>6. CASE UNCHANGED <<rows, status>>
  <2>1. Extra' = Extra /\ Marks' = Marks
    BY <1>6, ViewStutters
  <2> QED
    BY <1>6, <1>t, <2>1, AheadOverlay
<1> QED
  BY <1>1, <1>2, <1>3, <1>4, <1>5, <1>6, <1>v, OtherView

\* lastCommittedSlot is the status, and a batch that has passed the comparison
\* with it is ahead of both.
LEMMA LastCommittedStep ==
  ASSUME SerialInv, SerialNext
  PROVE  /\ up' /\ commitPc' # "publish" => lastCommitted' = status'
         /\ acceptPc' \in {"passed", "tx"} => acceptSlot' > status'
<1>t. /\ TypeOK /\ SlotInv /\ TxOwner
      /\ status \in Int /\ commitSlot \in Int /\ lastCommitted \in Int
      /\ up /\ commitPc # "publish" => lastCommitted = status
      /\ acceptPc \in {"passed", "tx"} => acceptSlot > status
  BY DEF SerialInv, ViewInv, IInv, TypeOK, Slots, NoSlot
<1>o. ~Overlap /\ ~Overlap'
  BY DEF SerialInv, SerialNext
<1>1. CASE \/ NodeAccepts \/ NodeCommits \/ ListenAccepted \/ Terminating
           \/ ReceiveLedgerUpdate \/ DropPending \/ NothingToDrop \/ CommitBegin
           \/ \E s \in Slots : ChooseDrop(s)
           \/ \E o \in Outputs : \/ CommitSpend(o) \/ CommitCreate(o)
                                 \/ AcceptSpend(o) \/ AcceptCreate(o)
  <2>1. /\ UNCHANGED <<up, lastCommitted, status, acceptPc, acceptSlot>>
        /\ commitPc' # "publish" => commitPc # "publish"
    BY <1>1
    DEF NodeAccepts, NodeCommits, ListenAccepted, Terminating, ReceiveLedgerUpdate,
        DropPending, NothingToDrop, CommitBegin, ChooseDrop, CommitSpend, CommitCreate,
        AcceptSpend, AcceptCreate, InTx, vars, dbVars, procVars, commitVars, acceptVars
  <2> QED
    BY <1>t, <2>1
<1>2. CASE Publish
  <2>1. /\ commitPc = "publish" /\ status = commitSlot /\ lastCommitted <= status
        /\ lastCommitted' = IF lastCommitted < commitSlot THEN commitSlot
                                                          ELSE lastCommitted
        /\ UNCHANGED <<status, acceptPc, acceptSlot>>
    BY <1>2, <1>t DEF Publish, SlotInv, dbVars, acceptVars
  <2> QED
    BY <1>t, <2>1
<1>3. CASE ReadStatus
  BY <1>3, <1>t DEF ReadStatus, dbVars, acceptVars
<1>4. CASE CommitEnd
  <2>1. /\ commitPc = "tx" /\ commitPc' = "publish"
        /\ UNCHANGED <<acceptPc, acceptSlot>>
    BY <1>4 DEF CommitEnd, acceptVars
  <2> QED
    BY <2>1, <1>o DEF Overlap
<1>5. CASE CommitFails
  BY <1>5, <1>t DEF CommitFails, acceptVars
<1>6. CASE \/ TickTake \/ TickMisses \/ AcceptSkip \/ AcceptEnd \/ AcceptFails
           \/ AcceptOnClosedDatabase \/ \E o \in Outputs : AcceptConflict(o)
           \/ \E s \in Slots : TickChoose(s)
  <2>1. /\ UNCHANGED <<up, lastCommitted, status, commitPc>>
        /\ acceptPc' \in {"idle", "chosen", "popped"}
    BY <1>6
    DEF TickTake, TickMisses, AcceptSkip, AcceptEnd, AcceptFails, AcceptOnClosedDatabase,
        AcceptConflict, TickChoose, TickEnd, dbVars, commitVars, procVars
  <2> QED
    BY <1>t, <2>1
<1>7. CASE AcceptCheck
  <2>1. /\ acceptPc = "popped" /\ acceptPc' = "passed" /\ acceptSlot > lastCommitted
        /\ UNCHANGED <<up, lastCommitted, status, commitPc, acceptSlot>>
    BY <1>7 DEF AcceptCheck, dbVars, commitVars, procVars
  <2>2. commitPc # "publish" /\ up
    BY <2>1, <1>o, <1>t DEF Overlap, SlotInv
  <2> QED
    BY <1>t, <2>1, <2>2
<1>8. CASE AcceptBegin
  BY <1>8, <1>t DEF AcceptBegin, dbVars, commitVars, procVars
<1>9. CASE Crash \/ Stop
  BY <1>9 DEF Crash, Stop, Down
<1>10. CASE Fill \/ Reset \/ Resume
  <2>1. ~up /\ lastCommitted' = status' /\ acceptPc' = acceptPc
    BY <1>10 DEF Fill, Reset, Resume, Filled, Up, acceptVars
  <2> QED
    BY <2>1, <1>t DEF SlotInv
<1>11. CASE Refuse
  <2>1. ~up /\ up' = up /\ acceptPc' = acceptPc
    BY <1>11 DEF Refuse, acceptVars, procVars
  <2> QED
    BY <2>1, <1>t DEF SlotInv
<1> QED
  BY <1>1, <1>2, <1>3, <1>4, <1>5, <1>6, <1>7, <1>8, <1>9, <1>10, <1>11
  DEF SerialNext, Next, Start, CommitWorker, AcceptWorker

\* An index without a status has no rows.
LEMMA NoStatusStep ==
  ASSUME ViewInv, [Next]_vars, status = NoSlot => rows = EmptyTable
  PROVE  status' = NoSlot => rows' = EmptyTable
<1>1. CASE CommitEnd
  BY <1>1, CommitTables DEF ViewInv, IInv, TypeOK, Slots, NoSlot
<1>2. CASE AcceptEnd
  BY <1>2, AcceptView
<1>3. CASE Resume
  BY <1>3 DEF Resume
<1>4. CASE Fill \/ Reset
  BY <1>4, FillView DEF Slots, NoSlot
<1>5. CASE Refuse
  BY <1>5 DEF Refuse
<1>6. CASE UNCHANGED <<rows, status>>
  BY <1>6 DEF EmptyTable
<1> QED
  BY <1>1, <1>2, <1>3, <1>4, <1>5, <1>6, OtherView

LEMMA InitSerialInv ==
  ASSUME Init
  PROVE  SerialInv
<1>1. UncommittedAreAhead
  BY DEF Init, EmptyTable, UncommittedAreAhead, Stored
<1> QED
  BY <1>1, InitViewInv, InitOnceInv DEF Init, SerialInv, Overlap

LEMMA NextSerialInv ==
  ASSUME SerialInv, [SerialNext]_vars
  PROVE  SerialInv'
<1>1. ViewInv' /\ OnceInv' /\ [Next]_vars
  BY NextViewInv, NextOnceInv DEF SerialInv, SerialNext
<1>2. UncommittedAreAhead'
  BY <1>1, AheadStep
<1>3. (status = NoSlot => rows = EmptyTable)'
  BY <1>1, NoStatusStep DEF SerialInv, EmptyTable
<1>4. CASE SerialNext
  BY <1>1, <1>2, <1>3, <1>4, LastCommittedStep DEF SerialInv, SerialNext
<1>5. CASE UNCHANGED vars
  <2>1. UNCHANGED <<status, up, lastCommitted, commitPc, acceptPc, acceptSlot>>
    BY <1>5 DEF vars, dbVars, procVars, commitVars, acceptVars
  <2> QED
    BY <1>1, <1>2, <1>3, <2>1 DEF SerialInv, Overlap
<1> QED
  BY <1>4, <1>5

\* Where calls do not overlap, lastCommittedSlot is the status but for the moment
\* before its publication, and what has passed the comparison with it is ahead.
THEOREM SerialInvariance == SerialSpec => []SerialInv
BY InitSerialInv, NextSerialInv, PTL DEF SerialSpec

\* With calls that do not overlap, everything uncommitted is about slots after
\* the status (AcceptLedgerUpdate skips the others, CommitLedgerUpdate cleans up).
THEOREM UncommittedAhead == SerialSpec => []UncommittedAreAhead
<1>1. SerialInv => UncommittedAreAhead
  BY DEF SerialInv
<1> QED
  BY SerialInvariance, <1>1, PTL

\* An accepted batch meets no row of an output it creates, so processOutput's
\* plain INSERT never shuts the indexer down.
THEOREM NoConflict ==
  ASSUME ~Reissues
  PROVE  SerialSpec => []AcceptNeverConflicts
<1>1. Init => AcceptNeverConflicts
  BY DEF Init, AcceptNeverConflicts
<1>2. ASSUME SerialInv, [SerialNext]_vars, AcceptNeverConflicts
      PROVE  AcceptNeverConflicts'
  <2>1. ASSUME NEW o \in Outputs, AcceptConflict(o)
        PROVE  FALSE
    <3>1. /\ acceptPc = "tx" /\ txBy = "accept" /\ AcceptExact
          /\ o \in todoCreate /\ txRows[o] # NoRow
      BY <1>2, <2>1 DEF AcceptConflict, SerialInv, ViewInv, IInv, TxOwner
    <3>2. o \in acceptBatch.new /\ txRows[o] = rows[o]
      BY <3>1 DEF AcceptExact
    <3>3. booked[o] = acceptSlot /\ booked[o] <= status
      BY <1>2, <3>1, <3>2
      DEF SerialInv, OnceInv, BookedOnce, AnnouncedOnce, Announced, Stored
    <3>4. acceptSlot > status /\ acceptSlot \in Int /\ status \in Int
      BY <1>2, <3>1 DEF SerialInv, ViewInv, IInv, TypeOK, Slots, NoSlot
    <3> QED
      BY <3>3, <3>4
  <2>2. CASE UNCHANGED shutdown
    BY <1>2, <2>2 DEF AcceptNeverConflicts
  <2>3. CASE shutdown' \in {"none", "fault"} \/ CommitFails \/ AcceptFails
    BY <1>2, <2>3 DEF AcceptNeverConflicts, CommitFails, AcceptFails
  <2>4. \/ UNCHANGED shutdown \/ shutdown' \in {"none", "fault"}
        \/ CommitFails \/ AcceptFails \/ \E o \in Outputs : AcceptConflict(o)
    BY <1>2
    DEF SerialNext, Next, Start, CommitWorker, AcceptWorker, NodeAccepts, NodeCommits,
        ListenAccepted, ReadStatus, Terminating, ReceiveLedgerUpdate, ChooseDrop,
        DropPending, NothingToDrop, CommitBegin, CommitEnd, Publish, CommitSpend,
        CommitCreate, AcceptSpend, AcceptCreate, TickChoose, TickTake, TickMisses,
        AcceptSkip, AcceptCheck, AcceptBegin, AcceptEnd, AcceptOnClosedDatabase, Crash,
        Stop, Down, Fill, Reset, Resume, Refuse, Up, InTx, vars, procVars
  <2> QED
    BY <2>1, <2>2, <2>3, <2>4
<1> QED
  BY <1>1, <1>2, SerialInvariance, PTL DEF SerialSpec

\* A look-up by ID answers the committed output of its chain, or an older one
\* that a transaction which is still ahead consumes (AccountByID and the like).
THEOREM ByIDCorrect == SerialSpec => []ByIDAnswersCommitted
<1>1. ASSUME SerialInv
      PROVE  ByIDAnswersCommitted
  <2>1. SUFFICES ASSUME NEW chain \in SUBSET Outputs,
                        NEW p \in Committed(rows) \cap chain, NEW o \in ByID(rows, chain)
                 PROVE  \/ rows[o].committed
                        \/ rows[o].created <= status /\ rows[o].deleted > status
    BY DEF ByIDAnswersCommitted
  <2>2. /\ rows \in Tables /\ RowsOfBookings(rows) /\ NodeTypeOK
        /\ CommittedRowsAreLedger /\ UncommittedAreAhead /\ status \in Int
        /\ status = NoSlot => rows = EmptyTable
    BY <1>1 DEF SerialInv, ViewInv, IInv, TypeOK, Slots, NoSlot
  <2>3. /\ o \in Stored(rows) /\ p \in Stored(rows) /\ o \in Outputs /\ p \in Outputs
        /\ rows[o].created <= rows[p].created
    BY DEF ByID, Committed, Stored
  <2>4. status # NoSlot
    BY <2>2, <2>3 DEF EmptyTable, Stored
  <2>5. booked[p] <= status
    BY <2>2, <2>4 DEF CommittedRowsAreLedger, LedgerAt
  <2>6. rows[p].created <= booked[p]
    BY <2>2, <2>3 DEF RowsOfBookings
  <2>7. /\ rows[o].created \in Int /\ rows[p].created \in Int /\ rows[o].deleted \in Int
        /\ booked[p] \in Int
    BY <2>2, <2>3, RowOrNone DEF Stored, NodeTypeOK, Slots, NoSlot
  <2>8. rows[o].created <= status
    BY <2>2, <2>3, <2>5, <2>6, <2>7
  <2> QED
    BY <2>2, <2>3, <2>7, <2>8 DEF UncommittedAreAhead
<1> QED
  BY <1>1, SerialInvariance, PTL

\* With calls that do not overlap, and no orphan booked again, the tables implement
\* the strict view: an accepted batch only ever overlays slots that are not
\* committed, in whatever order the ticker takes the batches.
THEOREM TablesAreStrictView ==
  ASSUME ~Reissues
  PROVE  SerialSpec => StrictView
<1>1. Init => Strictly!ViewInit
  BY InitView DEF Strictly!ViewInit, Strictly!NoSlot, NoSlot
<1>2. ASSUME SerialInv, [SerialNext]_vars
      PROVE  [Strictly!ViewNext]_(Strictly!viewVars)
  <2> USE DEF Strictly!Slots, Strictly!NoSlot, Slots, NoSlot
  <2>v. ViewInv /\ OnceInv /\ [Next]_vars
    BY <1>2 DEF SerialInv, SerialNext
  <2>1. CASE UNCHANGED <<rows, status>>
    BY <2>1, ViewStutters DEF Strictly!viewVars
  <2>2. CASE CommitEnd
    <3>1. Strictly!Commit(Created(commitSlot), Consumed(commitSlot))
      BY <2>v, <2>2, CommitTables, CommitView DEF Strictly!Commit, Strictly!Without, Strictly!After
    <3>2. Created(commitSlot) \in SUBSET Outputs /\ Consumed(commitSlot) \in SUBSET Outputs
      BY <2>v, <2>2, CommitTables
    <3> QED
      BY <3>1, <3>2 DEF Strictly!ViewNext
  <2>3. CASE AcceptEnd
    <3> DEFINE new == acceptBatch.new \ acceptBatch.old
               old == acceptBatch.old
    <3>1. acceptSlot > status
      BY <1>2, <2>3 DEF SerialInv, AcceptEnd
    <3>2. Strictly!Accept(acceptSlot, new, old)
      BY <2>v, <2>3, <3>1, AcceptView
      DEF Strictly!Accept, Strictly!Of, Strictly!At, Strictly!Without
    <3>3. acceptSlot \in Slots /\ new \in SUBSET Outputs /\ old \in SUBSET Outputs
      BY <2>v DEF ViewInv, IInv, TypeOK, Batch
    <3> QED
      BY <3>2, <3>3 DEF Strictly!ViewNext
  <2>4. CASE Resume
    BY <2>v, <2>4, ResumeView DEF Strictly!ViewNext, Strictly!Forget
  <2>5. CASE Fill \/ Reset
    <3>1. Strictly!Import(nodeSlot, LedgerAt(nodeSlot))
      BY <2>v, <2>5, FillView DEF Strictly!Import
    <3>2. nodeSlot \in Slots /\ LedgerAt(nodeSlot) \in SUBSET Outputs
      BY <2>v, <2>5, FillView
    <3> QED
      BY <3>1, <3>2 DEF Strictly!ViewNext
  <2>6. CASE Refuse
    BY <2>6, RefuseView DEF Strictly!ViewNext, Strictly!Clear
  <2> QED
    BY <2>v, <2>1, <2>2, <2>3, <2>4, <2>5, <2>6, OtherView
<1> QED
  BY <1>1, <1>2, SerialInvariance, PTL DEF SerialSpec, StrictView, Strictly!ViewSpec
=============================================================================
