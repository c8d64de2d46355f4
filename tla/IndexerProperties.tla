------------------------- MODULE IndexerProperties --------------------------
(* What is correct about the behaviours of Indexer.                          *)
EXTENDS Indexer

-----------------------------------------------------------------------------
(* The committed part of the index.                                          *)

\* Whatever was accepted, dropped, orphaned, rolled back or interrupted: the
\* committed rows are the node's unspent outputs at the slot of the status row
\* (CommitLedgerUpdate, checkIndexerStatus).
CommittedRowsAreLedger ==
  status # NoSlot => Committed(rows) = LedgerAt(status)

\* A committed row carries the slot that booked its output, also when
\* ON CONFLICT kept the row an accepted transaction had inserted before
\* (processOutput sets nothing but the committed flag).
CreatedSlotsAreBookings ==
  \A o \in Committed(rows) : rows[o].created = booked[o]

\* lastCommittedSlot never runs ahead of the database: no accepted batch is
\* skipped for a slot whose update has not been applied (CommitLedgerUpdate
\* publishes the slot after its transaction).
LastCommittedIsCommitted == up => lastCommitted <= status

-----------------------------------------------------------------------------
(* The uncommitted part of the index.                                        *)

\* What only accepted transactions say is about slots that are not committed
\* yet: a row that is visible without being committed, or hidden by a mark,
\* belongs to a slot after the status (AcceptLedgerUpdate skips the others,
\* CommitLedgerUpdate cleans up the rest).
UncommittedAreAhead ==
  \A o \in Stored(rows) :
    /\ rows[o].deleted # 0 => rows[o].deleted > status
    /\ ~rows[o].committed /\ rows[o].deleted = 0 => rows[o].created > status

\* An accepted batch never inserts an output that has a row already, so the
\* indexer never shuts itself down over one (processOutput's plain INSERT).
AcceptNeverConflicts == shutdown # "conflict"

\* Nothing uncommitted in t is about slot s or an earlier one.
Settled(t, s) ==
  \A o \in Stored(t) :
    /\ t[o].deleted # 0 => t[o].deleted > s
    /\ ~t[o].committed => t[o].created > s \/ t[o].deleted > s

\* A commit leaves nothing uncommitted for its slot or an earlier one, even if
\* a late accepted batch had put it there (removeUncommittedChangesUpUntilSlot).
CommitSettles ==
  [][CommitEnd => Settled(rows', commitSlot)]_vars

\* The output a look-up by ID answers for a chain with a committed output is
\* that one, though it looks at marked rows and takes the first it finds
\* (AccountByID). The one exception is an orphan older than it, kept because a
\* transaction that is still ahead spends it: removeUncommittedChangesUpUntilSlot
\* deletes only rows without such a mark.
ByIDAnswersCommitted ==
  \A chain \in SUBSET Outputs :
    Committed(rows) \cap chain # {} =>
      \A o \in ByID(rows, chain) :
        rows[o].committed \/ (rows[o].created <= status /\ rows[o].deleted > status)

-----------------------------------------------------------------------------
(* The multi addresses.                                                      *)

\* Between transactions ref_count is the number of references the committed
\* rows hold, and an address without any committed reference has a row only
\* for the sake of uncommitted ones.
RefCountsExact ==
  \A a \in Addrs :
    LET count == References(Committed(rows), a) IN
    IF addrs[a] = NoEntry THEN count = 0 ELSE addrs[a].ref = count

\* Every multi address in an output of the index can be resolved by its
\* reference (MultiAddressForReference): no row of it is deleted too early.
MultiAddressesResolvable ==
  \A o \in Stored(rows), a \in Addrs :
    a \in Held(o) => MultiAddressForReference(addrs, a) = a

-----------------------------------------------------------------------------
(* The promise: the tables implement LedgerView.                             *)

Uncommitted == Stored(rows) \ Committed(rows)

Extra == {<<o, rows[o].created>> : o \in Uncommitted \cap Visible(rows)}
Marks == {<<o, rows[o].deleted>> : o \in Stored(rows) \ Visible(rows)}

\* With calls that do not overlap, the tables are the strict view: accepted
\* batches only ever overlay slots that are not committed.
Strictly == INSTANCE LedgerView WITH
  Strict <- TRUE, slot <- status, ledger <- Committed(rows),
  extra <- Extra, marks <- Marks

StrictView == Strictly!ViewSpec

\* With overlapping calls they are still a view, of a weaker kind: a batch may
\* land on a slot that is committed already, until the next commit clears it.
Relaxed == INSTANCE LedgerView WITH
  Strict <- FALSE, slot <- status, ledger <- Committed(rows),
  extra <- Extra, marks <- Marks

RelaxedView == Relaxed!ViewSpec

-----------------------------------------------------------------------------
(* The inductive invariant behind the theorems of IndexerProofs.             *)

\* What the node has committed happened in committed slots, creations before
\* consumptions.
NodeInv ==
  /\ \A o \in confirmed : booked[o] \in 0..nodeSlot
  /\ settled \subseteq confirmed
  /\ \A o \in settled : spent[o] \in 0..nodeSlot /\ booked[o] <= spent[o]

\* Where the worker stands between the status row and the node.
SlotInv ==
  /\ status <= nodeSlot
  /\ commitSlot <= nodeSlot
  /\ ~up => commitPc = "idle" /\ acceptPc = "idle"
  /\ up => status = IF commitPc \in {"idle", "publish"} THEN commitSlot
                                                        ELSE commitSlot - 1
  /\ up => status >= 0 /\ lastCommitted <= status

\* The transaction belongs to the worker that is inside it.
TxOwner ==
  /\ txBy = "commit" <=> commitPc = "tx"
  /\ txBy = "accept" <=> acceptPc = "tx"
  /\ txBy = "none" => txRows = rows

\* A commit in progress: the rows are the old ledger, less the consumed outputs
\* it has deleted, plus the created outputs it has inserted.
CommitProgress ==
  LET spend  == Consumed(commitSlot)
      create == Created(commitSlot) \ spend
  IN
  /\ todoSpend \subseteq spend
  /\ todoCreate \subseteq create
  /\ Committed(txRows) =
       (LedgerAt(status) \ (spend \ todoSpend)) \cup (create \ todoCreate)

TxInv ==
  /\ txBy = "commit" => CommitProgress /\ Settled(txRows, commitSlot)
  /\ txBy = "accept" => Committed(txRows) = Committed(rows)

IInv ==
  /\ TypeOK
  /\ NodeInv
  /\ SlotInv
  /\ TxOwner
  /\ TxInv
  /\ CommittedRowsAreLedger

-----------------------------------------------------------------------------
(* What the refinement of LedgerView needs on top of it.                     *)

\* A row is of a booking of its output, the last one or an earlier one.
RowsOfBookings(t) ==
  \A o \in Stored(t) : /\ t[o].created \in Slots /\ t[o].deleted \in Slots
                       /\ t[o].created <= booked[o]

\* And so is what is on its way to the tables, in whatever order it gets there.
BatchesOfBookings ==
  /\ \A n \in DOMAIN stream : \A o \in stream[n].new : stream[n].slot <= booked[o]
  /\ \A s \in Slots : \A o \in pending[s].new : s <= booked[o]
  /\ \A o \in acceptBatch.new : acceptSlot <= booked[o]

\* The working copy of a commit, row by row: the cleaned table, less the consumed
\* outputs it has deleted, with the created outputs it has inserted or confirmed.
CommitExact ==
  LET clean == RemoveUncommittedChangesUpUntilSlot(rows, commitSlot)
      gone  == Consumed(commitSlot) \ todoSpend
      made  == (Created(commitSlot) \ Consumed(commitSlot)) \ todoCreate
  IN \A o \in Outputs :
       txRows[o] = IF o \in gone THEN NoRow
                   ELSE IF o \in made THEN UpsertCommitted(clean, o, commitSlot)[o]
                   ELSE clean[o]

\* The working copy of an accepted batch: the rows it has marked, and the outputs
\* it has inserted where there was no row.
AcceptExact ==
  LET hit  == acceptBatch.old \ todoSpend
      made == (acceptBatch.new \ acceptBatch.old) \ todoCreate
  IN /\ todoSpend \subseteq acceptBatch.old
     /\ todoCreate \subseteq acceptBatch.new \ acceptBatch.old
     /\ \A o \in made : rows[o] = NoRow
     /\ \A o \in Outputs :
          txRows[o] = IF o \in made THEN NewRow(acceptSlot, FALSE)
                      ELSE IF o \in hit THEN MarkDeleted(rows, o, acceptSlot)[o]
                      ELSE rows[o]

ViewInv ==
  /\ IInv
  /\ RowsOfBookings(rows) /\ RowsOfBookings(txRows)
  /\ BatchesOfBookings
  /\ txBy = "commit" => CommitExact
  /\ txBy = "accept" => AcceptExact
  /\ acceptPc \in {"idle", "chosen"} => acceptBatch = NoBatch
  /\ acceptPc \in {"passed", "tx"} => acceptSlot > 0

\* Where an orphaned transaction is not booked again, a row or an announcement of
\* an output is of the one slot it was ever booked for.
BookedOnce ==
  /\ \A o \in Stored(rows)   : rows[o].created = booked[o]
  /\ \A o \in Stored(txRows) : txRows[o].created = booked[o]
  /\ \A n \in DOMAIN stream : \A o \in stream[n].new : booked[o] = stream[n].slot
  /\ \A s \in Slots : \A o \in pending[s].new : booked[o] = s
  /\ \A o \in acceptBatch.new : booked[o] = acceptSlot

\* An output is on its way to the tables, as a creation.
Announced(o) ==
  \/ \E n \in DOMAIN stream : o \in stream[n].new
  \/ \E s \in Slots : o \in pending[s].new
  \/ o \in acceptBatch.new

\* It is announced in one place at a time, and an output that has a row while it
\* is still announced was committed in the meantime.
AnnouncedOnce ==
  /\ \A n, m \in DOMAIN stream : n # m => stream[n].new \cap stream[m].new = {}
  /\ \A n \in DOMAIN stream, s \in Slots : stream[n].new \cap pending[s].new = {}
  /\ \A n \in DOMAIN stream : stream[n].new \cap acceptBatch.new = {}
  /\ \A s \in Slots : pending[s].new \cap acceptBatch.new = {}
  /\ \A o \in Stored(rows) : Announced(o) => booked[o] <= status

\* A spend of o, on its way or in the deletion mark of a row, is of the slot that
\* booked o or of a later one. The order in which the ticker applies the batches
\* does not matter for it; a later booking of o would break it.
SpentAfterBooked ==
  /\ \A n \in DOMAIN stream : \A o \in stream[n].old : booked[o] \in 0..stream[n].slot
  /\ \A s \in Slots : \A o \in pending[s].old : booked[o] \in 0..s
  /\ \A o \in acceptBatch.old : booked[o] \in 0..acceptSlot
  /\ \A o \in Stored(rows)   : rows[o].deleted # 0 => booked[o] <= rows[o].deleted
  /\ \A o \in Stored(txRows) : txRows[o].deleted # 0 => booked[o] <= txRows[o].deleted

\* Inductive with ViewInv.
OnceInv == ~Reissues => BookedOnce /\ AnnouncedOnce /\ SpentAfterBooked

\* And with calls that do not overlap: lastCommittedSlot is the status but for
\* the moment before its publication, so a batch that has passed the comparison
\* is ahead of the status when it is applied.
SerialInv ==
  /\ ViewInv /\ OnceInv
  /\ ~Overlap
  /\ up /\ commitPc # "publish" => lastCommitted = status
  /\ acceptPc \in {"passed", "tx"} => acceptSlot > status
  /\ status = NoSlot => rows = EmptyTable
  /\ UncommittedAreAhead

-----------------------------------------------------------------------------
(* What the reference counters need on top of it.                            *)

\* No output holds two different multi addresses.
OneAddress == \A o \in Outputs : \A a, b \in Held(o) : a = b

\* The counters u of the rows t: without a row of its own an address is held by
\* no row; with one, ref_count is exact, and uncommitted_ref_count, which no
\* statement lowers, is positive while an uncommitted row holds the address.
Counted(t, u) ==
  \A a \in Addrs :
    IF u[a] = NoEntry THEN \A o \in Stored(t) : a \notin Held(o)
    ELSE /\ u[a].ref = References(Committed(t), a)
         /\ u[a].unc >= 0
         /\ \A o \in Stored(t) \ Committed(t) : a \in Held(o) => u[a].unc > 0

\* An update that consumes only what earlier slots created deletes references
\* that were counted, and what holds for the tables holds for the working copy.
CountParts ==
  /\ \A o \in settled : booked[o] < spent[o]
  /\ Counted(rows, addrs) /\ Counted(txRows, txAddrs)
  /\ txBy = "none" => txAddrs = addrs

\* Inductive with ViewInv: what the upsert and the delete loop keep right.
CountInv == OneAddress /\ ~SameSlotSpends => CountParts

-----------------------------------------------------------------------------
(* Progress.                                                                 *)

\* After any finite number of faults and conflicts the index ends up at the
\* node's last commitment: no batch, conflict or restart wedges the worker.
CatchesUp == <>[](status = nodeSlot)

\* A pending batch does not stay: the ticker applies it or an update drops it.
PendingDrains ==
  \A s \in Slots : s \in PendingSlots ~> s \notin PendingSlots
=============================================================================
