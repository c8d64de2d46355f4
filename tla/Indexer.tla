------------------------------ MODULE Indexer -------------------------------
(* pkg/indexer/indexer.go as components/indexer/component.go runs it: one    *)
(* worker commits the ledger updates of the node slot by slot, another       *)
(* listens to accepted transactions and, on a ticker, applies them to the    *)
(* same tables as uncommitted changes. The two share the map of pending      *)
(* batches, the field lastCommittedSlot (behind a mutex) and the database,   *)
(* whose write transactions exclude each other (SQLite).                     *)
EXTENDS Node, OutputTable, MultiAddressTable, Sequences

CONSTANT
  MaxFaults   \* bound: crashes and failing statements together

ASSUME MaxFaultsAssumption == MaxFaults \in Nat

VARIABLES
  rows,            \* database: the output tables
  addrs,           \* database: the multiaddresses table
  status,          \* database: Status.CommittedSlot, NoSlot without the row
  up,              \* the process runs and both workers have started
  lastCommitted,   \* Indexer.lastCommittedSlot
  txBy,            \* which worker holds the write transaction
  txRows, txAddrs, \* what that transaction has written; else rows and addrs
  todoSpend,       \* its outputs that processSpent has still to handle
  todoCreate,      \* its outputs that processOutput has still to handle
  commitPc,        \* the ledger update worker
  commitSlot,      \* the slot it has received last
  dropSlot,        \* the pending slot it is about to drop
  stream,          \* accepted transactions on their way to the listener
  pending,         \* pendingAcceptedTransactions, by slot
  acceptPc,        \* the ticker of the accepted transactions worker
  acceptSlot,      \* the slot it has chosen
  acceptBatch,     \* and the transactions it has taken for it
  shutdown,        \* has a worker called SelfShutdown, and why
  faults           \* faults so far

dbVars     == <<rows, addrs, status>>
txVars     == <<txBy, txRows, txAddrs, todoSpend, todoCreate>>
commitVars == <<commitPc, commitSlot, dropSlot>>
acceptVars == <<acceptPc, acceptSlot, acceptBatch>>
batchVars  == <<stream, pending>>
procVars   == <<up, lastCommitted, shutdown, faults>>
vars == <<nodeVars, dbVars, txVars, commitVars, acceptVars, batchVars, procVars>>

Batch   == [new : SUBSET Outputs, old : SUBSET Outputs]
NoBatch == [new |-> {}, old |-> {}]
\* An accepted transaction. Its outputs are taken to carry its slot: the rows
\* are written with Metadata.Included.Slot and Spent.Slot of each output.
Message == [slot : Slots, new : SUBSET Outputs, old : SUBSET Outputs]

PendingSlots == {s \in Slots : pending[s] # NoBatch}

\* nextPendingAcceptedSlot, which takes 0 for "none".
NextPending(s) == s \in PendingSlots /\ \A r \in PendingSlots : s <= r

TypeOK ==
  /\ NodeTypeOK
  /\ rows \in Tables /\ txRows \in Tables
  /\ addrs \in AddrTables /\ txAddrs \in AddrTables
  /\ status \in Slots \cup {NoSlot}
  /\ up \in BOOLEAN
  /\ lastCommitted \in Slots
  /\ txBy \in {"none", "commit", "accept"}
  /\ todoSpend \in SUBSET Outputs /\ todoCreate \in SUBSET Outputs
  /\ commitPc \in {"idle", "drop", "dropping", "ready", "tx", "publish", "stopped"}
  /\ commitSlot \in Slots /\ dropSlot \in Slots
  /\ stream \in Seq(Message)
  /\ pending \in [Slots -> Batch]
  /\ acceptPc \in {"idle", "chosen", "popped", "passed", "tx"}
  /\ acceptSlot \in Slots
  /\ acceptBatch \in Batch
  /\ shutdown \in {"none", "conflict", "fault"}
  /\ faults \in 0..MaxFaults

-----------------------------------------------------------------------------
(* The process, its start and its end.                                       *)

NoPending == [s \in Slots |-> NoBatch]
NoAddrs   == [a \in Addrs |-> NoEntry]

\* What a process that is not running holds in memory: nothing.
Down ==
  /\ up' = FALSE
  /\ lastCommitted' = 0
  /\ txBy' = "none" /\ todoSpend' = {} /\ todoCreate' = {}
  /\ txRows' = rows /\ txAddrs' = addrs
  /\ commitPc' = "idle" /\ commitSlot' = 0 /\ dropSlot' = 0
  /\ acceptPc' = "idle" /\ acceptSlot' = 0 /\ acceptBatch' = NoBatch
  /\ stream' = <<>> /\ pending' = NoPending
  /\ shutdown' = "none"

\* The workers start from status s; Status() has raised lastCommittedSlot.
Up(s) ==
  /\ ~up
  /\ up' = TRUE
  /\ lastCommitted' = s
  /\ commitSlot' = s
  /\ txRows' = rows' /\ txAddrs' = addrs'
  /\ UNCHANGED <<nodeVars, txBy, todoSpend, todoCreate, commitPc, dropSlot,
                 acceptVars, batchVars, shutdown, faults>>

\* fillIndexer: the unspent outputs of the node at its latest commitment.
\* The pipeline that writes them is Import's; here it runs to its end.
Filled ==
  LET ledger == LedgerAt(nodeSlot) IN
  /\ rows'  = [o \in Outputs |->
                 IF o \in ledger THEN NewRow(booked[o], TRUE) ELSE NoRow]
  /\ addrs' = ImportedAddrs(ledger)
  /\ status' = nodeSlot

\* checkIndexerStatus on an empty database.
Fill == /\ status = NoSlot
        /\ Importable(LedgerAt(nodeSlot))
        /\ Filled
        /\ Up(nodeSlot)

\* checkIndexerStatus when the node has pruned past our status: Clear, fill.
Reset == /\ status # NoSlot
         /\ status < nodeSlot
         /\ Importable(LedgerAt(nodeSlot))
         /\ Filled
         /\ Up(nodeSlot)

\* Either of them on a ledger the inserters cannot store: LogFatal ends the
\* process before it has a status. What it leaves in the tables nobody reads;
\* Import shows what the next start makes of it.
Refuse == /\ ~up
          /\ status < nodeSlot
          /\ ~Importable(LedgerAt(nodeSlot))
          /\ rows' = EmptyTable /\ addrs' = NoAddrs /\ status' = NoSlot
          /\ txRows' = rows' /\ txAddrs' = addrs'
          /\ UNCHANGED <<nodeVars, txBy, todoSpend, todoCreate, commitVars,
                         acceptVars, batchVars, procVars>>

\* checkIndexerStatus otherwise: RemoveUncommittedChanges, up to MaxSlotIndex.
Resume == /\ status # NoSlot
          /\ rows'  = RemoveUncommittedChangesUpUntilSlot(rows, MaxSlot)
          /\ addrs' = DeleteOnlyUncommitted(addrs)
          /\ UNCHANGED status
          /\ Up(status)

\* The operating system ends the process between any two steps.
Crash == /\ up
         /\ faults < MaxFaults
         /\ faults' = faults + 1
         /\ Down
         /\ UNCHANGED <<nodeVars, dbVars>>

\* SelfShutdown: the daemon waits for both workers, then closes the database. It
\* does not wait for the ticker's handler, which Ticker.Shutdown only tells not
\* to start again: a batch it is inside of is cut off.
Stop == /\ up
        /\ shutdown # "none"
        /\ commitPc \in {"idle", "stopped"}
        /\ Down
        /\ UNCHANGED <<nodeVars, dbVars, faults>>

\* Status(), from any API request: also catches lastCommittedSlot up.
ReadStatus ==
  /\ up
  /\ commitPc # "stopped"
  /\ status > lastCommitted
  /\ lastCommitted' = status
  /\ UNCHANGED <<nodeVars, dbVars, txVars, commitVars, acceptVars, batchVars,
                 up, shutdown, faults>>

-----------------------------------------------------------------------------
(* Write transactions: a working copy that is installed or dropped at once.  *)

BeginTx(worker, spend, create) ==
  /\ txBy = "none"
  /\ txBy' = worker
  /\ todoSpend' = spend
  /\ todoCreate' = create \ spend   \* "spent in the same update can be ignored"

InstallTx ==
  /\ todoSpend = {} /\ todoCreate = {}
  /\ txBy' = "none"
  /\ rows' = txRows /\ addrs' = txAddrs
  /\ UNCHANGED <<txRows, txAddrs, todoSpend, todoCreate>>

\* Mutant: the statements did not run on the transaction's handle.
RollbackNothing ==
  /\ txBy' = "none" /\ todoSpend' = {} /\ todoCreate' = {}
  /\ rows' = txRows /\ addrs' = txAddrs
  /\ UNCHANGED <<txRows, txAddrs>>

RollbackTx ==
  /\ txBy' = "none" /\ todoSpend' = {} /\ todoCreate' = {}
  /\ txRows' = rows /\ txAddrs' = addrs
  /\ UNCHANGED <<rows, addrs>>

\* A statement of the transaction touches nothing outside of it.
InTx == UNCHANGED <<nodeVars, dbVars, txBy, commitVars, acceptVars, batchVars,
                    procVars>>

-----------------------------------------------------------------------------
(* The ledger update worker: ListenToLedgerUpdates and CommitLedgerUpdate.   *)

ReceiveLedgerUpdate ==
  /\ up
  /\ commitPc = "idle"
  /\ commitSlot < nodeSlot
  /\ commitPc' = "drop"
  /\ commitSlot' = commitSlot + 1
  /\ UNCHANGED <<nodeVars, dbVars, txVars, dropSlot, acceptVars, batchVars,
                 procVars>>

\* The loop that drops the pending batches the update overtakes. The listener
\* and the ticker go on between its look at the keys, its Delete, and the end.
ChooseDrop(s) ==
  /\ commitPc = "drop"
  /\ NextPending(s)
  /\ s <= commitSlot
  /\ commitPc' = "dropping"
  /\ dropSlot' = s
  /\ UNCHANGED <<nodeVars, dbVars, txVars, commitSlot, acceptVars, batchVars,
                 procVars>>

DropPending ==
  /\ commitPc = "dropping"
  /\ pending' = [pending EXCEPT ![dropSlot] = NoBatch]
  /\ commitPc' = "drop"
  /\ dropSlot' = 0
  /\ UNCHANGED <<nodeVars, dbVars, txVars, commitSlot, acceptVars, stream,
                 procVars>>

NothingToDrop ==
  /\ commitPc = "drop"
  /\ \A s \in PendingSlots : s > commitSlot
  /\ commitPc' = "ready"
  /\ UNCHANGED <<nodeVars, dbVars, txVars, commitSlot, dropSlot, acceptVars,
                 batchVars, procVars>>

\* Mutant: the slot is published before its transaction.
CommitBeginPublished ==
  /\ commitPc = "ready"
  /\ BeginTx("commit", Consumed(commitSlot), Created(commitSlot))
  /\ commitPc' = "tx"
  /\ txRows' = RemoveUncommittedChangesUpUntilSlot(rows, commitSlot)
  /\ lastCommitted' = commitSlot
  /\ UNCHANGED <<nodeVars, dbVars, txAddrs, commitSlot, dropSlot, acceptVars,
                 batchVars, up, shutdown, faults>>

CommitBegin ==
  /\ commitPc = "ready"
  /\ BeginTx("commit", Consumed(commitSlot), Created(commitSlot))
  /\ commitPc' = "tx"
  /\ txRows' = RemoveUncommittedChangesUpUntilSlot(rows, commitSlot)
  /\ UNCHANGED <<nodeVars, dbVars, txAddrs, commitSlot, dropSlot, acceptVars,
                 batchVars, procVars>>

\* processSpent(output, committed = true)
CommitSpend(o) ==
  /\ commitPc = "tx"
  /\ o \in todoSpend
  /\ todoSpend' = todoSpend \ {o}
  /\ txRows' = DeleteRow(txRows, o)
  /\ txAddrs' \in DeleteReferences(txAddrs, o)
  /\ UNCHANGED todoCreate
  /\ InTx

\* processOutput(output, committed = true)
CommitCreate(o) ==
  /\ commitPc = "tx"
  /\ todoSpend = {}
  /\ o \in todoCreate
  /\ todoCreate' = todoCreate \ {o}
  /\ txRows' = UpsertCommitted(txRows, o, commitSlot)
  /\ txAddrs' \in InsertReferences(txAddrs, o, TRUE)
  /\ UNCHANGED todoSpend
  /\ InTx

\* The status update and the commit itself.
CommitEnd ==
  /\ commitPc = "tx"
  /\ InstallTx
  /\ status' = commitSlot
  /\ commitPc' = "publish"
  /\ UNCHANGED <<nodeVars, commitSlot, dropSlot, acceptVars, batchVars, procVars>>

\* Mutant: lastCommittedSlot is not raised.
PublishNothing ==
  /\ commitPc = "publish"
  /\ commitPc' = "idle"
  /\ UNCHANGED <<nodeVars, dbVars, txVars, commitSlot, dropSlot, acceptVars,
                 batchVars, procVars>>

Publish ==
  /\ commitPc = "publish"
  /\ commitPc' = "idle"
  /\ lastCommitted' = IF lastCommitted < commitSlot THEN commitSlot
                                                    ELSE lastCommitted
  /\ UNCHANGED <<nodeVars, dbVars, txVars, commitSlot, dropSlot, acceptVars,
                 batchVars, up, shutdown, faults>>

\* Mutant: the listener's error is logged and nothing else.
CommitFailsQuietly ==
  /\ commitPc = "tx"
  /\ faults < MaxFaults
  /\ faults' = faults + 1
  /\ RollbackTx
  /\ commitPc' = "stopped"
  /\ UNCHANGED <<nodeVars, status, commitSlot, dropSlot, acceptVars, batchVars,
                 up, lastCommitted, shutdown>>

\* A statement fails: the transaction rolls back, the listener returns the
\* error, the worker ends and its deferred CloseDatabase runs at once.
CommitFails ==
  /\ commitPc = "tx"
  /\ faults < MaxFaults
  /\ faults' = faults + 1
  /\ RollbackTx
  /\ commitPc' = "stopped"
  /\ shutdown' = "fault"
  /\ UNCHANGED <<nodeVars, status, commitSlot, dropSlot, acceptVars, batchVars,
                 up, lastCommitted>>

-----------------------------------------------------------------------------
(* The accepted transactions worker: its listener and its ticker.            *)

ListenAccepted ==
  /\ up
  /\ stream # <<>>
  /\ LET tx == Head(stream) IN
       pending' = [pending EXCEPT ![tx.slot] =
                     [new |-> @.new \cup tx.new, old |-> @.old \cup tx.old]]
  /\ stream' = Tail(stream)
  /\ UNCHANGED <<nodeVars, dbVars, txVars, commitVars, acceptVars, procVars>>

\* nextPendingAcceptedSlot. The tick acts on it later: by then the listener may
\* have put a lower slot, or more of this one, and the loop above dropped it.
TickChoose(s) ==
  /\ up
  /\ acceptPc = "idle"
  /\ NextPending(s)
  /\ acceptPc' = "chosen"
  /\ acceptSlot' = s
  /\ UNCHANGED <<nodeVars, dbVars, txVars, commitVars, acceptBatch, batchVars,
                 procVars>>

TickEnd == acceptPc' = "idle" /\ acceptSlot' = 0 /\ acceptBatch' = NoBatch

\* Mutant: Get instead of DeleteAndReturn.
TickPeek ==
  /\ acceptPc = "chosen"
  /\ acceptSlot \in PendingSlots
  /\ acceptPc' = "popped"
  /\ acceptBatch' = pending[acceptSlot]
  /\ UNCHANGED <<nodeVars, dbVars, txVars, commitVars, acceptSlot, batchVars,
                 procVars>>

\* DeleteAndReturn.
TickTake ==
  /\ acceptPc = "chosen"
  /\ acceptSlot \in PendingSlots
  /\ acceptPc' = "popped"
  /\ acceptBatch' = pending[acceptSlot]
  /\ pending' = [pending EXCEPT ![acceptSlot] = NoBatch]
  /\ UNCHANGED <<nodeVars, dbVars, txVars, commitVars, acceptSlot, stream,
                 procVars>>

\* It returns nothing: the ledger update worker has dropped the batch.
TickMisses ==
  /\ acceptPc = "chosen"
  /\ acceptSlot \notin PendingSlots
  /\ TickEnd
  /\ UNCHANGED <<nodeVars, dbVars, txVars, commitVars, batchVars, procVars>>

\* AcceptLedgerUpdate reads lastCommittedSlot and gives it up before it
\* compares: ErrLedgerUpdateSkipped ends the tick quietly.
AcceptSkip ==
  /\ acceptPc = "popped"
  /\ commitPc # "stopped"
  /\ acceptSlot <= lastCommitted
  /\ TickEnd
  /\ UNCHANGED <<nodeVars, dbVars, txVars, commitVars, batchVars, procVars>>

\* Mutant: the slot of the last commit passes.
AcceptCheckOffByOne ==
  /\ acceptPc = "popped"
  /\ commitPc # "stopped"
  /\ acceptSlot >= lastCommitted
  /\ acceptPc' = "passed"
  /\ UNCHANGED <<nodeVars, dbVars, txVars, commitVars, acceptSlot, acceptBatch,
                 batchVars, procVars>>

AcceptCheck ==
  /\ acceptPc = "popped"
  /\ commitPc # "stopped"
  /\ acceptSlot > lastCommitted
  /\ acceptPc' = "passed"
  /\ UNCHANGED <<nodeVars, dbVars, txVars, commitVars, acceptSlot, acceptBatch,
                 batchVars, procVars>>

\* The first write takes the lock: the transaction has begun but read nothing.
AcceptBegin ==
  /\ acceptPc = "passed"
  /\ BeginTx("accept", acceptBatch.old, acceptBatch.new)
  /\ acceptPc' = "tx"
  /\ UNCHANGED <<nodeVars, dbVars, txRows, txAddrs, commitVars, acceptSlot,
                 acceptBatch, batchVars, procVars>>

\* processSpent(output, committed = false)
AcceptSpend(o) ==
  /\ acceptPc = "tx"
  /\ o \in todoSpend
  /\ todoSpend' = todoSpend \ {o}
  /\ txRows' = MarkDeleted(txRows, o, acceptSlot)
  /\ UNCHANGED <<todoCreate, txAddrs>>
  /\ InTx

\* processOutput(output, committed = false)
AcceptCreate(o) ==
  /\ acceptPc = "tx"
  /\ todoSpend = {}
  /\ o \in todoCreate
  /\ txRows[o] = NoRow
  /\ todoCreate' = todoCreate \ {o}
  /\ txRows' = InsertRow(txRows, o, acceptSlot)
  /\ txAddrs' \in InsertReferences(txAddrs, o, FALSE)
  /\ UNCHANGED todoSpend
  /\ InTx

AcceptEnd ==
  /\ acceptPc = "tx"
  /\ InstallTx
  /\ TickEnd
  /\ UNCHANGED <<nodeVars, status, commitVars, batchVars, procVars>>

\* The INSERT hits an existing primary key: the error shuts the indexer down.
AcceptConflict(o) ==
  /\ acceptPc = "tx"
  /\ todoSpend = {}
  /\ o \in todoCreate
  /\ txRows[o] # NoRow
  /\ RollbackTx
  /\ TickEnd
  /\ shutdown' = "conflict"
  /\ UNCHANGED <<nodeVars, status, commitVars, batchVars, up, lastCommitted,
                 faults>>

\* Any other failure of a statement.
AcceptFails ==
  /\ acceptPc = "tx"
  /\ faults < MaxFaults
  /\ faults' = faults + 1
  /\ RollbackTx
  /\ TickEnd
  /\ shutdown' = IF shutdown = "none" THEN "fault" ELSE shutdown
  /\ UNCHANGED <<nodeVars, status, commitVars, batchVars, up, lastCommitted>>

\* The other worker has closed the database before this transaction began.
AcceptOnClosedDatabase ==
  /\ acceptPc = "popped"
  /\ commitPc = "stopped"
  /\ TickEnd
  /\ UNCHANGED <<nodeVars, dbVars, txVars, commitVars, batchVars, procVars>>

-----------------------------------------------------------------------------
(* The node's steps as the indexer sees them: an accepted transaction goes   *)
(* out on the stream if the listener is subscribed, and is lost otherwise.   *)

NodeAccepts ==
  \E s \in Slots, new, old \in SUBSET Outputs :
    /\ NodeAccept(s, new, old)
    /\ stream' = IF up THEN Append(stream, [slot |-> s, new |-> new, old |-> old])
                       ELSE stream
    /\ UNCHANGED <<dbVars, txVars, commitVars, acceptVars, pending, procVars>>

NodeCommits ==
  /\ \E new, old \in SUBSET Outputs : NodeCommit(new, old)
  /\ UNCHANGED <<dbVars, txVars, commitVars, acceptVars, batchVars, procVars>>

\* Everything the node will ever send has been applied: the model may stop.
Terminating ==
  /\ up
  /\ nodeSlot = MaxSlot
  /\ commitPc = "idle" /\ commitSlot = nodeSlot
  /\ acceptPc = "idle" /\ PendingSlots = {} /\ stream = <<>>
  /\ shutdown = "none"
  /\ UNCHANGED vars

CommitWorker ==
  \/ ReceiveLedgerUpdate
  \/ \E s \in Slots : ChooseDrop(s)
  \/ DropPending
  \/ NothingToDrop
  \/ CommitBegin
  \/ \E o \in Outputs : CommitSpend(o) \/ CommitCreate(o)
  \/ CommitEnd
  \/ Publish

AcceptWorker ==
  \/ \E s \in Slots : TickChoose(s)
  \/ TickTake
  \/ TickMisses
  \/ AcceptSkip
  \/ AcceptCheck
  \/ AcceptBegin
  \/ \E o \in Outputs : AcceptSpend(o) \/ AcceptCreate(o) \/ AcceptConflict(o)
  \/ AcceptEnd
  \/ AcceptOnClosedDatabase

Start == Fill \/ Resume

Init ==
  /\ NodeInit
  /\ rows = EmptyTable /\ txRows = EmptyTable
  /\ addrs = NoAddrs /\ txAddrs = NoAddrs
  /\ status = NoSlot
  /\ up = FALSE
  /\ lastCommitted = 0
  /\ txBy = "none" /\ todoSpend = {} /\ todoCreate = {}
  /\ commitPc = "idle" /\ commitSlot = 0 /\ dropSlot = 0
  /\ stream = <<>> /\ pending = NoPending
  /\ acceptPc = "idle" /\ acceptSlot = 0 /\ acceptBatch = NoBatch
  /\ shutdown = "none"
  /\ faults = 0

Next ==
  \/ NodeAccepts \/ NodeCommits
  \/ CommitWorker \/ CommitFails
  \/ AcceptWorker \/ AcceptFails \/ ListenAccepted
  \/ Start \/ Reset \/ Refuse \/ Stop \/ Crash \/ ReadStatus
  \/ Terminating

\* As the component runs the package: calls of the two workers overlap.
Spec == Init /\ [][Next]_vars

\* As the package's tests run it: no AcceptLedgerUpdate during a
\* CommitLedgerUpdate, no CommitLedgerUpdate during an AcceptLedgerUpdate.
Overlap == commitPc \in {"tx", "publish"} /\ acceptPc \in {"passed", "tx"}
SerialNext == Next /\ ~Overlap'
SerialSpec == Init /\ [][SerialNext]_vars

\* The workers keep going, and a process that shut down is started again. The
\* node owes nothing, and neither do faults.
FairSpec ==
  /\ Spec
  /\ WF_vars(CommitWorker)
  /\ WF_vars(AcceptWorker)
  /\ WF_vars(ListenAccepted)
  /\ WF_vars(Start)
  /\ WF_vars(Stop)
=============================================================================
