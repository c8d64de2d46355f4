# TLA+ models and proofs of inx-indexer

inx-indexer keeps a queryable copy of the ledger of an IOTA node: it follows the
node over INX, stores every unspent output with the columns its filters need in
an SQL database, and serves lists of output IDs over REST. This directory holds
TLA+ modules for the parts of it that are hard to test, the TLC configurations
that check them on small instances, and proofs, checked by TLAPS, of the main
safety properties for every size of instance. Paths are relative to the
repository.

* [1. The system](#1-the-system): components, state, operations, hazards
* [2. Modules](#2-modules): what models what
* [3. Runs](#3-runs): what TLC checks, within which bounds, what it shows
* [4. Proofs](#4-proofs): what TLAPS proves and how
* [5. Where the code disagrees](#5-where-the-code-disagrees)
* [6. What is not modelled](#6-what-is-not-modelled)
* [7. Plan](#7-plan)

To run: `tlc -workers 2 -config indexer_serial.cfg MCIndexer` (and so on for the
table of section 3), `tlapm IndexerProofs.tla` (and so on for `ViewProofs`,
`SerialProofs`, `MultiAddressProofs`, `ImportProofs`, `LifecycleProofs`, `QueryProofs`
and `FilterProofs`; a module does not check again the proofs of those it extends).

## 1. The system

### Indexer core: `pkg/indexer/indexer.go`
*State.* Six output tables (one per kind of output) with `created_at_slot`,
`deleted_at_slot` and `committed` in each row, the `multiaddresses` table, the
single row of the `statuses` table (`committed_slot`), and in memory
`lastCommittedSlot` behind a read-write mutex.
*Operations.* `CommitLedgerUpdate` (the update of a committed slot: undo what was
accepted up to that slot, delete the consumed outputs, insert or confirm the
created ones, move the status, all in one transaction, then publish
`lastCommittedSlot`); `AcceptLedgerUpdate` (what was accepted for a slot that is
not committed: mark consumed outputs, insert created ones as uncommitted; skipped
when the slot is committed already); `RemoveUncommittedChanges` at a restart;
`Status`; `CreateTables`, `Clear`, `CloseDatabase`. The look-ups by ID read one row
of a chain of outputs.
*Hard.* Two callers on one database; a mutex that is given up before the value it
protects is used; two statements that undo acceptances by comparing two slots of a
row; outputs created and consumed in one update.
*Correct when* the committed rows are the ledger of the status' slot, whatever else
was accepted, orphaned, interrupted; what is uncommitted is about later slots, and
never gets in the way of a commit or of another acceptance.

### Multi addresses: `pkg/indexer/multiaddress.go`
*State.* One row per multi address with `ref_count` and `uncommitted_ref_count`.
*Operations.* Upserts that add or subtract the references of an output, deletion of
rows with both counters at zero, deletion of rows that only uncommitted outputs
hold. Called by every commit, acceptance and restart.
*Correct when* a row exists as long as a stored output holds the address, and
`ref_count` counts the references of committed outputs.

### Workers: `components/indexer/component.go`
*State.* The map of pending accepted transactions by slot, shared by three
goroutines.
*Operations.* The ledger update worker (drop overtaken pending batches, commit);
the listener for accepted transactions (batch by slot); the ticker that looks up the
lowest pending slot, takes its batch from the map and applies it.
*Hard.* Ticker, listener and ledger update worker interleave on the map, between the
look-up of a slot and the removal of its batch too, and in the database; an error of one worker closes the database under the other; the process
may end anywhere.
*Correct when* no interleaving harms the committed rows and the index always ends
up at the node's last commitment.

### Lifecycle: `components/indexer/component.go`, `pkg/daemon/shutdown.go`
*State.* The daemon's progress through the stop priorities; `indexerInitWait`; where
each background worker is; the ticker; the handle of the database; the API server,
its route at the node and the requests in flight.
*Operations.* Start of the workers, `checkIndexerStatus` (empty, without status, pruned
past, resumable), registration and unregistration of the route, start and shutdown of
the server, the health endpoint, `SelfShutdown` on an error of a worker, the deferred
`CloseDatabase`.
*Hard.* Two workers wait for the import of a third, or for a shutdown that comes first;
the ticker's handler outlives its worker and requests may outlive the server; calls of
the node have timeouts; every step may be the one that fails.
*Correct when* the API never serves an index without a ledger, an orderly shutdown
closes the database last, shutdowns end, and without trouble the API is served.

### Import: `pkg/indexer/import.go`, `fillIndexer`
*State.* Per table: a bounded input channel, batchers, a bounded output channel,
inserters; the position of `Finalize`.
*Operations.* `AddOutput` for each output of the stream, which enqueues its row and its
addresses, batchers that collect and send, inserters that store one batch per statement, `Finalize` that drains table
after table and writes the status row.
*Hard.* Several workers per table, partial last batches, channels that block on both
sides, cancellation, a broken stream, a status write whose error is lost, process ends
between any two statements of a database without an enclosing transaction.
*Correct when* a status row means that the whole ledger of its slot is stored.

### Paging: `pkg/indexer/types.go`, `pkg/server/routes.go`
*State.* None in the indexer; the client carries cursor and page size.
*Operations.* One query per page (one table, or the UNION of six), one row more than
the page to build the cursor; the committed slot is joined to the rows, or read by a
second query when there are none.
*Hard.* Rows come and go between pages, the row of the cursor included; the page
size changes on the way; limits per table and for the union.
*Correct when* a walk returns every lasting row exactly once, in order, and ends; and an answer that tells a slot has the rows of that slot.

### Filters: `entryForOutput`, the six `...QueryWithFilter`, `combined.go`, `routes.go`
*State.* None.
*Operations.* Extract columns and addresses from an output; turn request parameters
into conditions; translate a request to the combined endpoint into one for each
table.
*Hard.* About sixty independent conditions on columns that may be NULL; two pieces of
code that extract addresses and must agree; six translations of one question.
*Correct when* the answer of an endpoint depends on the output as the question says.

### Others
Prometheus metrics (its worker is one of those the daemon stops), application assembly
and parameters, the toolset's health client, the documentation generator: see section 6.

### How they interact
```
 node --ledger updates--> ledger update worker --CommitLedgerUpdate--> +----------+
  |                            | drops                                 | database |<--pages-- REST
  |                            v                                       |          |
  +--accepted txs--> listener -> pending -> ticker --AcceptLedgerUpdate-> |       |
  |                                                                    |          |
  +--unspent outputs--> fillIndexer -> batchers -> inserters --------> +----------+
```
SQLite serialises the write transactions of the two workers, and gives every
statement of a reader one snapshot; the models assume exactly this. On a shutdown the
daemon stops the exporter, then the API, then the accepted transactions (listener and
ticker), then the ledger update worker, which closes the database.

## 2. Modules

| module | models | state and actions |
|---|---|---|
| `OutputsAndSlots` | output IDs, slots | constants only |
| `Node` | the node behind INX (external) | its commitment, where outputs are booked and spent, which of that is committed; accepts and commits |
| `OutputTable` | the six output tables as one map | the SQL statements as operators on the map |
| `MultiAddressTable` | the `multiaddresses` table | the upsert loops and cleanups as operators |
| `Indexer` | `indexer.go` as `component.go` runs it | database, write transaction, the two workers, the pending map, start and end of the process; one action per statement or hand-over |
| `LedgerView` | the promise to readers, without tables and workers | a ledger at a slot, and an overlay of accepted outputs and spends |
| `IndexerProperties` | properties of `Indexer`, the refinement mapping to `LedgerView`, the inductive invariants | |
| `IndexerProofs` | proofs about `Indexer`: the statements on the tables, types, the committed rows | |
| `ViewProofs` | the refinement of the relaxed `LedgerView`; EXTENDS `IndexerProofs` | |
| `SerialProofs` | nodes that book an output ID once, calls that do not overlap, the refinement of the strict `LedgerView`; EXTENDS `ViewProofs` | |
| `MultiAddressProofs` | the reference counters; EXTENDS `ViewProofs` | |
| `Import` | `checkIndexerStatus`, `fillIndexer`, `import.go` | tables, status row, pipelines, `Finalize`; crashes, cancellation, broken streams, lost status writes |
| `ImportProofs` | proofs about `Import`: types, and that an uninterrupted import is complete | |
| `Lifecycle` | the process around it: `component.go`, `daemon/shutdown.go`, the server and its health endpoint; EXTENDS `Import` | daemon, workers by priority, ticker, database handle, server, route, requests |
| `LifecycleProofs` | proofs about `Lifecycle`; EXTENDS `ImportProofs` | |
| `Query` | `types.go` with the paging parameters of `routes.go` | rows a filter matches, the status, one client's walk |
| `QueryProofs` | proofs about `Query`: the order of rows, the page of a query, walks | |
| `Filters` | `entryForOutput`, the filter queries, `combined.go`, the list handlers | one output, its row, one request that grows option by option |
| `FilterProofs` | proofs about `Filters`, one lemma per kind of output and question | |
| `MC...` | instances for TLC | |

How the main model corresponds to the code:

* `rows`, `addrs`, `status` are the database. `txRows`, `txAddrs`, `todoSpend`,
  `todoCreate` are the open write transaction, of which `txBy` is the owner: rows of
  the transaction nobody else sees until `InstallTx`. Between transactions they are
  equal to the database.
* `CommitLedgerUpdate` is `CommitBegin` (with the two clean-up statements),
  `CommitSpend` and `CommitCreate` per output, `CommitEnd` (status row and commit),
  `Publish` (`lastCommittedSlot`), or `CommitFails`. The loops run over slices in the
  code; the model takes the outputs of a loop in any order.
* `AcceptLedgerUpdate` is `AcceptSkip` or `AcceptCheck` (the read of
  `lastCommittedSlot`, outside of any lock and before the first write), then
  `AcceptBegin`, `AcceptSpend`, `AcceptCreate`, `AcceptEnd`; `AcceptConflict` is the
  INSERT on an existing primary key, `AcceptFails` any other failure,
  `AcceptOnClosedDatabase` what follows after the other worker has closed the database.
* The ledger update worker is `ReceiveLedgerUpdate`, the loop of `ChooseDrop` (a look at
  the keys), `DropPending` (the removal) and `NothingToDrop`, then the commit. The listener
  is `ListenAccepted`. The tick is `TickChoose` (`nextPendingAcceptedSlot`), then `TickTake`
  or `TickMisses` (`DeleteAndReturn` with and without a batch). Whatever comes between the
  look-up and the removal may change the map: `acceptSlot` and `dropSlot` hold the choice.
* A batch and its outputs carry one slot: the code writes the `Metadata.Included.Slot` and
  `Spent.Slot` of each output (`indexer.go:140`, `:176`), the model the slot of the update
  or of the transaction, which the node is assumed to fill in alike.
* `checkIndexerStatus` is `Fill`, `Reset`, `Resume` or `Refuse`; here an import runs
  to its end or leaves nothing, `Import` takes it apart.
* `OutputTable!ByID` is what the look-ups by ID read from the rows of a chain, and
  `MultiAddressTable!MultiAddressForReference` what the address look-up reads.

How the others do:

* *Import.* `Start`, two steps each of `Clear` and `CreateTables`, `OpenStream`,
  `AddOutput` with one `Enqueue` per entry (`adding` is what is still to be enqueued, so a
  full channel blocks in the middle of an output), `StreamEnds`; per table and worker
  `BatcherReceives`, `BatcherSends`, `BatcherLeaves`, `BatcherEnds`, `InserterStores`,
  `InserterDies` (LogFatal), `InserterEnds`; `CloseInput`, `DrainNext` and `WriteStatus` of
  `Finalize`. Receiving a batch and looking at the context are two steps of an inserter
  (`import.go:134`): `output` holds the batches that are in the channel or received and not
  yet stored, and `Room` counts one place for each inserter that still runs. An inserter
  that leaves on a cancellation drops a batch and takes its place with it, so the channel
  may have been refilled before and stays full. `StreamFails`, `WriteStatusFails`, `Cancel`,
  `Stop`, `Crash` are the endings; `endings` remembers which of them were `Harmless`: they
  met a process that was up, or `checkIndexerStatus` at a point which the next start finds
  again.
* *Lifecycle.* The steps of `Import` are taken `Within` it: they start and end the process
  for the rest too. `StopNext` is the daemon's step from one priority to the next, and
  the step that cancels the context of the import. Each worker has an action per place it
  can be at, from `AcceptedStarts` and `ApiStarts` (the `select` on `indexerInitWait` and
  the context) to `CloseDatabase`. A ledger update is one step, an accepted batch two
  (`TickBegins`, `TickEnds`): what they write is `Indexer`'s.
* *Query.* `Read` is the joined query, `ReadNothing` and `ReadStatus` the two statements of
  an empty page; `AcceptWrite` and `CommitWrite` are what the workers do meanwhile. The
  ghosts `steady` and `due` hold what a complete walk owes the client.

Operators marked `Mutant:` are not part of the models. Each is a variant of the
definition after it with a plausible mistake in it; substituted for it, TLC finds the
property `PROJECT.json` names for it violated, which shows that the property can fail.

## 3. Runs

All runs use two outputs for the core, three for the import's pipelines and for paging.
`MaxSlot` bounds what the node commits; `MaxFaults` and `MaxEndings` bound the crashes and
failing statements, as no run could be finite otherwise.

| run | specification | bounds | shows |
|---|---|---|---|
| `indexer_serial` | `SerialSpec` | 2 outputs that may both be spent, also in the slot that creates them; slots 0-2, no faults | `SerialInv`, `StrictView`, `UncommittedAreAhead`, `CreatedSlotsAreBookings`, `AcceptNeverConflicts`, `ByIDAnswersCommitted` |
| `indexer_concurrent` | `Spec` | 2 outputs that may both be spent, with two references of each to one multi address; slots 0-2, no faults, each output booked once | `OnceInv`, `CountInv`, `CommittedRowsAreLedger`, `LastCommittedIsCommitted`, `RefCountsExact`, `MultiAddressesResolvable`, `CommitSettles`, `RelaxedView` |
| `indexer_liveness` | `FairSpec` | 2 outputs, slots 0-1, 2 faults; orphans may be booked again, outputs spent in the slot that creates them | `ViewInv`, `CatchesUp`, `PendingDrains` |
| `import_pipeline` | `Spec` | 3 outputs, 2 tables, 2 workers each side, batches of 2, input channels of 2, output channels of 1; slots 0-2 with ledgers of all outputs or one; any number of stops, and one of: crash, cancellation, broken stream, lost status write | `ImportInv`, `UninterruptedIsComplete`, `ImportStartsEmpty`, `NeverFatal` |
| `lifecycle` | `FairLifeSpec` | 3 outputs, 1 table, 1 worker each side, batches and channels of 1, slots 0-2, a health threshold of 1, 1 request at a time; one of: crash, broken stream, lost status write, signal, fault of a worker, end of the node | `LifeInv`, `ServedIndexHasStatus`, `ClosedLast`, `NoRouteToClosedServer`, `HealthIsSound`, `ShutdownEnds`, `Serves` |
| `query_walk` | `FairSpec` | 3 outputs in 2 tables, slots 0-1, page limit 2, first sizes 0-3, cursor sizes 1-3 | `WalkInv`, `WalkIsComplete`, `WalkAscends`, `PagesCoverSlot`, `WalkEnds` |
| `filters` | `Spec` | every output over 2 addresses, 2 tokens, 1 tag, 1 slot; one option, or three to the combined endpoint | `FilterInv`, `CombinedIsExact`, `FoundByCountedAddress`, `CountedAddressFinds`, `DetailsAgree` |
| `late_accept`, `two_addresses`, `import_cancel`, `import_shared`, `empty_page` | | | a property the code's comments or tests state and the code breaks: section 5 |

The properties whose names end in `Inv` are the inductive invariants of the proofs
(section 4). Each contains its module's type invariant, but for `OnceInv` and `CountInv`:
these say what comes on top of `ViewInv`, which contains `IInv` and is checked where there
are faults (`indexer_liveness`, where it also stands for `CommittedRowsAreLedger`) and, as
a part of `SerialInv`, where there are two slots (`indexer_serial`).

Why these bounds are enough to meet the cases:

* *Slots.* Two slots after the first commitment let a row be created for one and marked for
  the next while the first is committed, let a batch be late, on time or early with respect
  to a commit, and let a row outlive the slot it was orphaned in. One slot and two faults
  interrupt a commit, and again the restart or the commit that follows.
* *Overlap.* `SerialSpec` is how `indexer_test.go` drives the package: one call at a
  time. `Spec` is what the component does. The strict promise holds for the first
  only, so the two are separate runs; `late_accept` is the difference.
* *Ledger.* With `SomeAtStart = TRUE` the first commitment has at least one of the two
  outputs; the histories that begin without any are those of an instance with one output
  less. `two_addresses` needs them and sets it to `FALSE`. Both outputs may be consumed: the
  last committed holder of an address must be able to go while an uncommitted one is there,
  and an orphan must be able to be older than every committed output of its chain.
* *Order.* With two slots the ticker can have chosen slot 2 while a batch for slot 1
  arrives, and so apply it first; the same in `indexer_serial`. In `indexer_liveness`, with
  one slot, what comes in between is more of the same batch, or its drop.
* *Bookings.* `Reissues` lets the node book an orphaned output again in another slot. It is
  on where it must not matter (`indexer_liveness`), and off where it does (section 5).
* *Workers of the import.* Two batchers and two inserters share each channel, batches
  hold two entries, and three outputs make one full and one partial batch. An input channel
  of two blocks `AddOutput`, an output channel of one batch blocks a sender as soon as a
  second batch is ready. The ledgers of `import_pipeline` grow and shrink from one
  commitment to the next, so a re-import must have cleared what was there, and as the
  stops are not counted the one counted ending can meet the clearing.
* *Lifecycle.* One trouble at a time, combined with every state of the import, the
  workers, the server and the request, and with the restart after it. The threshold is 2
  in the code; with 1, and slots up to 2, it is met from below, exactly and from above. What
  the pipelines carry does not matter here: their instance is the smallest in which a
  batch can be with an inserter, one in the channel behind it and one with a batcher that
  waits, which is how an import can be stuck. Two workers compete in `import_pipeline`.
* *Pages.* Three rows and a limit of two give full, partial and empty pages, a row
  that is only the cursor, and unions whose tables contribute in turn.
* *Filters.* A query looks at one row at a time, so one output suffices; columns are
  only compared for equality, against bounds or against NULL. Values equal, unequal and
  absent are there for each, and bounds below, at and above the slot.

`indexer_serial` and `indexer_concurrent` use symmetry between the two outputs, which no
definition of those instances tells apart (none holds an address, or both the same one).

*Fairness.* `Indexer!FairSpec`: each worker goes on (weak fairness of
`CommitWorker`, `AcceptWorker`, `ListenAccepted`: goroutines that are never blocked for
good, as SQLite's lock is given up at the end of each transaction and the ticker ticks
every second), a requested shutdown completes (`Stop`: the daemon waits for the workers
and they return), and a process that ended is started again (`Start`: the operator or
the container runtime). Nothing is assumed of the node, of faults or of API requests.
`Lifecycle!FairLifeSpec`: every goroutine goes on (each batcher and each inserter by itself,
the receiver, `Finalize`, the workers, the server, the handlers of requests that have
arrived); so do the daemon and the INX component's request for a shutdown when the node
has gone; calls of the node return within the timeouts the code gives them, the handler of
a tick returns, and the process is started again. Nothing is assumed of signals, faults,
the node or clients. A tick need not fail on a closed database, as there may be no batch,
and `Echo.Shutdown` need not run into its timeout: `ShutdownEnds` rests on neither.
`Query!FairSpec`: the client that has started a walk goes on with it.

*What the properties say* stands above each of them in its module. Those worth a
second look:

* `CommittedRowsAreLedger` compares the database with the node, through everything that
  can happen to the uncommitted rows in between.
* `StrictView`/`RelaxedView`: the tables implement `LedgerView`. The committed rows are
  its `ledger`, rows that are visible but not committed are `extra`, rows with
  `deleted_at_slot` are `marks`. Steps inside a transaction are stutters; a commit, an
  acceptance, a restart and an import each map to one step of the view. Strictly, an
  acceptance is about slots after the status. In the relaxed view it may be about a
  committed one, and lasts until the next commit: `CommitSettles` shows that it does not
  last longer.
* `CatchesUp` covers the restarts after conflicts, which the race of section 5 makes
  possible: none of them leaves a state that leads to the same conflict for ever.
* `ByIDAnswersCommitted` says what a look-up by ID may answer between two commits: the
  committed output of the chain, whether marked as spent or not, or an orphan that a mark
  of a later slot keeps in the table.
* `UninterruptedIsComplete`, `ImportStartsEmpty` and `NeverFatal` hold until an import is
  interrupted; section 5 has what follows then.
* `ServedIndexHasStatus` rests on `checkIndexerStatus` reading the status back after the
  import: `Finalize` would not report that it could not write it.
* `ClosedLast` exempts three troubles: a failing listener and the node's end make the
  worker close the database at once, and a request may outlive `Echo.Shutdown`'s five
  seconds. The ticker's handler is not among those it speaks of (section 5).
* `ShutdownEnds` includes the import whose receiver is blocked on a full input channel when
  the daemon cancels it, and the workers that still wait for `indexerInitWait`, which nobody
  closes then. It exempts `Stuck` alone, the deadlock of section 5, and `Stuck` is as narrow
  as that: a batcher holds a full batch, the channel is full and no inserter is left.
* `WalkIsComplete` holds the rows that are there from the first page to the last against
  what the client has seen, with page sizes that change on the way.
* `PagesCoverSlot`: what was there with the commit of the slot that the first page tells and
  stays until the end is in the walk. A client that waits for its slot relies on it.
* `FoundByCountedAddress` and `CountedAddressFinds` hold two independent extractions of
  addresses against each other, over every option of every endpoint.

## 4. Proofs

The theorems hold for every value of the constants: any finite set of outputs and of
addresses, any number of slots, faults, requests, workers, batch and channel sizes, tables
and page sizes, and for all interleavings. Some have a hypothesis on the constants, which
the third column names.

| theorem | statement | hypothesis |
|---|---|---|
| *`IndexerProofs`* | | |
| `TypeCorrectness` | `Spec => []TypeOK` | |
| `Invariance` | `Spec => []IInv` | |
| `CommittedCorrectness` | `Spec => []CommittedRowsAreLedger` | |
| `NoEarlySkip` | `Spec => []LastCommittedIsCommitted` | |
| `CommitCleansUp` | `Spec => CommitSettles` | |
| *`ViewProofs`* | | |
| `ViewInvariance` | `Spec => []ViewInv` | |
| *`SerialProofs`* | | |
| `OnceInvariance` | `Spec => []OnceInv` | |
| `CreatedSlotsCorrect` | `Spec => []CreatedSlotsAreBookings` | `~Reissues` |
| `TablesAreView` | `Spec => RelaxedView` | `~Reissues` |
| `SerialInvariance` | `SerialSpec => []SerialInv` | |
| `UncommittedAhead` | `SerialSpec => []UncommittedAreAhead` | |
| `NoConflict` | `SerialSpec => []AcceptNeverConflicts` | `~Reissues` |
| `ByIDCorrect` | `SerialSpec => []ByIDAnswersCommitted` | |
| `TablesAreStrictView` | `SerialSpec => StrictView` | `~Reissues` |
| *`MultiAddressProofs`* | | |
| `CountInvariance` | `Spec => []CountInv` | |
| `ReferencesCounted` | `Spec => []RefCountsExact` | `OneAddress`, `~SameSlotSpends` |
| `AddressesResolvable` | `Spec => []MultiAddressesResolvable` | `OneAddress`, `~SameSlotSpends` |
| *`ImportProofs`* | | |
| `ImportTypeCorrectness` | `Spec => []TypeOK` | |
| `ImportInvariance` | `Spec => []ImportInv` | |
| `ImportComplete` | `Spec => []UninterruptedIsComplete` | `KeysDistinct` |
| `ImportOnEmpty` | `Spec => []ImportStartsEmpty` | `KeysDistinct` |
| `ImportNeverFatal` | `Spec => []NeverFatal` | `KeysDistinct` |
| *`LifecycleProofs`* | | |
| `LifeInvariance` | `LifeSpec => []LifeInv` | |
| `ServedWithStatus` | `LifeSpec => []ServedIndexHasStatus` | |
| `DatabaseClosedLast` | `LifeSpec => []ClosedLast` | |
| `RouteGoesFirst` | `LifeSpec => []NoRouteToClosedServer` | |
| `HealthTells` | `LifeSpec => HealthIsSound` | |
| *`QueryProofs`* | | |
| `WalkInvariance` | `Spec => []WalkInv` | |
| `WalksAreComplete` | `Spec => []WalkIsComplete` | `0 \notin CursorSizes` |
| `WalksAscend` | `Spec => []WalkAscends` | `0 \notin CursorSizes` |
| `PagesCoverTheirSlot` | `Spec => []PagesCoverSlot` | `0 \notin CursorSizes` |
| *`FilterProofs`* | | |
| `FilterInvariance` | `Spec => []FilterInv` | |
| `CombinedAnswersAlike` | `Spec => []CombinedIsExact` | |
| `FoundAddressesAreCounted` | `Spec => []FoundByCountedAddress` | |
| `CountedAddressesFind` | `Spec => []CountedAddressFinds` | |
| `DetailsAgreeWithConditions` | `Spec => []DetailsAgree` | |

*Hypotheses.* Each is a case in which the code does not keep the promise, and section 5
says how: an orphan that is booked again (`Reissues`); an output that holds two multi
addresses (`OneAddress` excludes it; the run `two_addresses` is the counterexample), an
update that consumes what it creates (`SameSlotSpends`); two outputs of one import that
hold the same multi address (`KeysDistinct` excludes it; `import_shared`); a cursor that
carries page size 0. The calls that overlap are the difference between `SerialSpec` and
`Spec` (`late_accept`). Where a hypothesis is about the constants alone, the invariant
carries it as the premise of the parts that need it, so that the invariance itself is
without one.

*Assumptions.* The named ones of the modules. Of the core: outputs and addresses are
finite in number, the bounds are natural numbers, the switches Boolean, `NoRow` and
`NoEntry` are not rows, and an output holds a natural number of references on each
address (`HoldsAssumption`; sums of references are cardinalities of sets of them, about which
the library has the facts that a fold would need an induction for). Of `Import`: workers,
batches and channels have positive natural sizes, `DrainOrder` names each table once, and
an entry belongs to its output and to a table (`ItemsAssumption`). Of `Lifecycle`: the
threshold is a natural number. Of `Query`: IDs and page sizes are natural numbers, the
limit is positive, there are finitely many tables and at least one, and every output has
one. Of `Filters`: account addresses are addresses, clients give the combined endpoint the
options it has, and `NULL` is no value of a column. TLC evaluates all of them in every run
of their modules.

*The argument for the core.* `CommittedRowsAreLedger` alone is not inductive: in the middle of a
commit the working copy is neither the old ledger nor the new one, and what
installing it does depends on how far it has got. `IInv` adds what is needed:

* `NodeInv`: what the node has committed lies in committed slots, creations before
  consumptions. Hence the ledger of slot s+1 is the ledger of s, less the consumed and
  with the created outputs of the update (lemma `LedgerStep`), and neither acceptances
  nor commits of the node change the ledger of a slot that is committed.
* `SlotInv`: the status is the worker's slot, or one less while it is inside a commit.
* `TxOwner`: who is inside a transaction, and that nobody's working copy is the database.
* `CommitProgress`: the working copy of a commit in terms of what is left to do; with
  nothing left it is the new ledger.
* An acceptance leaves the committed rows of its working copy as they are. The INSERT
  creates an uncommitted row where there was none, the mark keeps the committed flag.
  This is why neither the lateness of a batch nor an orphan can harm the committed rows.
* `Settled` of the working copy of a commit: the clean-up establishes it, deletions and
  the upsert keep it. This is `CommitCleansUp`.

The proof that a step preserves `IInv` has one lemma per group of actions and in it
one step per conjunct the action disturbs.

*The argument for the view.* A step of `LedgerView` must be found for every step of the
tables. `IInv` knows which rows are committed in the working copy, not what the others are,
so it cannot tell what a commit makes visible. `ViewInv` adds:

* `RowsOfBookings`, `BatchesOfBookings`: a row, and an output that is announced, is of the
  output's last booking or of an earlier one. This does not depend on the order in which the
  batches are applied.
* `CommitExact`, `AcceptExact`: the working copy row by row, from the table and the outputs
  that are still to be done. At `CommitEnd` and `AcceptEnd` they are the new table, and the
  view's commit and acceptance follow; every other step inside a transaction is a stutter.

What the ticker applies need not be in the order of the slots: between its look-up and the
removal a lower slot may arrive. `ViewInv` therefore says nothing about order. The view
needs it in one place: the first clean-up statement deletes by `created_at_slot` and the
second resets `deleted_at_slot`, and a mark that is of an earlier slot than its row would
survive its spend. `SpentAfterBooked`, a part of `OnceInv`, excludes such a mark whatever
the order, because the only booking of an output is before all of its spends. With an
output that is booked again it is not excluded, and `TablesAreView` and
`TablesAreStrictView` assume `~Reissues` (section 5 has the counterexample).

*Booked once, and calls that do not overlap.* `OnceInv`, inductive together with `ViewInv`,
says for `~Reissues` that every row and announcement is of the one booking (`BookedOnce`),
that spends are not before it (`SpentAfterBooked`), and that an output is announced in one place, with a row only if it was committed in the
meantime (`AnnouncedOnce`). `SerialInv` is both, and that between two calls
`lastCommittedSlot` is the status, so that a batch that has passed the comparison is ahead
of the status when it is applied. That is exactly what fails when calls overlap. A batch
that meets a row of its own would then have met one of a committed slot: `NoConflict`.

*The argument for the counters.* `CountInv`, again with `ViewInv`, relates counters and rows
of the tables and of the working copy: an address without a row is held by no stored output;
with one, `ref_count` is the number of references committed outputs hold, and
`uncommitted_ref_count` is positive while an uncommitted output holds the address. That
counter is never lowered, only deleted with its row, which is why it needs no more than a
sign. With one address per output the upsert loop has one iteration, so what it adds is
what it later subtracts.

*The argument for the import.* `ImportInv` is an account of every entry of the ledger that is
being imported. `InOnePlace`: it is with the node, or still to be enqueued, or in the input
channel of its table, or in the batch of exactly one worker, or in exactly one batch of the
output channel, or stored; `Sorted`: in the pipeline of its table. `WorkersInv`: a worker
leaves only when there is nothing left for it, and `Finalize` goes past a pipeline only when
its workers have left. Then at the write of the status row nothing is in a pipeline, and
everything is stored. `CourseInv` carries this from one start of the process to the next:
a process that is down has left a complete database, an empty one, or one that is half
cleared (`HalfCleared`), of which the next start finds that the node has still pruned past it.

*The argument for the lifecycle.* None of the four properties is inductive: `ClosedLast`
looks at the moment at which the handle is closed, and that the others have returned by
then follows from the order in which the daemon got there. `LifeInv` adds:

* `NothingLeft`: while no process runs, none of its workers, no ticker and no trouble is
  there, so that a start begins afresh (only the route at the node may be left).
* `StatusInv`: a worker that is up has a status; `indexerInitWait` is closed only then,
  the server is there only after that, and what a request has read is not ahead of the
  status. `ServedIndexHasStatus` and `HealthIsSound` follow: between the two reads of the
  health endpoint the status can only grow.
* `ServerInv`: which places of the API worker go with which states of its server, and
  that a route outlives the call that removes it only if that call failed.
* `DaemonInv`: every worker above the daemon's level has returned, and a closed handle
  means that the level is the last, or that the listener failed or the node went away.

There is one lemma per action. Frame lemmas (`AcceptedFrame`, `ApiFrame`, `RequestFrame`)
hold what all actions of one worker leave alone. `WithinInv` covers all steps of `Import`
at once: of them it needs only that they keep `TypeOK`, that a process comes up with a
status, and that once it is up only its end follows.

*The argument for walks.* `WalkIsComplete` speaks of the end of a walk. `WalkInv` says, of
every page before, that what was received lies before the cursor, in order, and that every
row that is owed (there all along, or since the commit of the slot that was told) is in the
walk or at the cursor or beyond it. A page is the rows from the cursor on whose rank is
within the limit, where the rank of a row is the number of rows up to it. Ranks take the
place of an induction over sorted sequences: they are a bijection with an initial segment of
the numbers (lemmas about `Rank` and `InOrder`), so that a page is ascending and
whatever it leaves out lies after what it has. That each table of a union contributes no
more than the limit loses nothing: a row among the first of all is among the first of its
table.

*The argument for the filters.* There is no induction in it, but six kinds of outputs with
their own columns and names. `FilterInv` says that row, counted addresses and request are
those of the stored output. The rest are lemmas about one output and one request, without
state: what is in each column (`BasicRow` and so on), what is counted (`CountedAddresses`),
what the translations of a combined request keep (`RenamedFacts`, `WithoutTokensFacts`), and
for each kind that the translated question selects as the original one says.

*Model-checked only.* Liveness (`CatchesUp`, `PendingDrains`, `ShutdownEnds`, `Serves`,
`WalkEnds`): fairness and ENABLED are out of the prover's reach. All other
properties of the passing runs are proved.

## 5. Where the code disagrees

Checked by a run each:

* **A late batch shuts the indexer down** (`late_accept`). `AcceptLedgerUpdate`
  reads `lastCommittedSlot`, gives the lock up and then compares and writes. A commit of
  the same slot fits in between; the batch then inserts outputs that are committed, the
  INSERT fails on its primary key and the ticker calls `SelfShutdown`. The test at
  `indexer_test.go:71` expects such a batch to be skipped.
* **Two multi addresses in one output** (`two_addresses`). The upserts of
  `multiaddress.go` repeat the whole list once per address, each time with that address'
  count. A row that is new when an output is created gets its own count from the first
  upsert and the counts of the others from the later ones; `deleteMultiAddresses` subtracts
  the total of all counts from every row. If an output holds a1 twice and a2 once and a1
  comes first, its creation gives a1 3 and a2 2, and its deletion takes 3 from both. In the
  trace slot 1 creates that output and one that holds a2 once (a2 is at 3), slot 2 spends the
  first (a2 is at 0), and the row of a2 is deleted. With equal counts, or rows that are there
  already, additions and subtractions balance. An output that was imported does not balance
  either: the import counts each reference once.
* **Cancelled imports pass for complete** (`import_cancel`). When the context is cancelled
  after the stream has ended, inserters drop what they receive and `Finalize` still
  writes the status row. The next start resumes on an incomplete index.
* **An empty page and its slot** (`empty_page`). Rows and slot of a page come from one
  statement, "we know the index matches the results" (`types.go:146`), but a page without
  rows has its slot from a second one: a commit in between makes it tell a slot at which
  there is a matching row. If that statement fails the page tells slot 0, as the error is
  dropped (`types.go:162`).
* **Imports with shared multi addresses** (`import_shared`). `typeIsRefCountable` asserts
  on `new(T)`, with T already a pointer; a pointer to a pointer has no methods. The
  upsert that would add up reference counts is never used, and the second output of a
  multi address ends the process. `Indexer!Refuse` is what the lifecycle makes of it.

Seen with the same models, with no run of their own:

* An output created and consumed in one update has its references subtracted and not
  added (`indexer.go:515-528`): `RefCountsExact` fails with `SameSlotSpends = TRUE`.
* The ticker's look-up of the lowest pending slot and its removal of the batch are two
  operations (`component.go:183`, `:189`). A batch of a lower slot that arrives in between is
  applied afterwards: a spend of the higher slot whose creation is in the lower one marks no
  row, and the output is listed as unspent until the slot of the spend is committed. If an
  orphan of that output is there instead and the output is booked again, the spend marks the
  orphan: a row that a later slot created and an earlier one marks. The commit of the slot of
  the mark restores it, and the output is visible again although its spend has not been
  orphaned: `RelaxedView` fails with `Reissues = TRUE` and three slots.
* An import that is cancelled while its batchers wait for room can stay for good
  (`import.go:89`, `:134`). The inserters have received their batches and the batchers have
  refilled the channel and wait; then comes the cancellation; the inserters look at the
  context and leave, the batchers do not look at it while they send. `Finalize`, or nobody,
  waits for them, and the worker does not return. What ends the process then is the grace
  period of the daemon, outside of this repository. `ShutdownEnds` without its exemption of
  `Stuck` fails.
* A crash, a broken stream or a lost status write during an import leaves rows and no
  status row: the next start takes the index for empty (`component.go:316`) and ends in
  LogFatal on the primary keys, each time. `ImportStartsEmpty` and `NeverFatal` fail
  without their exemption of interrupted imports.
* A crash between the statements of `CreateTables` leaves the status table and not all of
  the others: the next start does not create them, and every import fails. (One between
  those of `Clear` does no harm, as the status row goes last: the next start clears again.
  The properties cover it.)
* A spend accepted while the creation of its output has been dropped for a commit that
  has not begun marks no row and is lost: the output is listed as unspent until the
  slot of the spend is committed (compare `indexer_test.go:253`).
* An orphan that a mark of a later slot keeps in the table (`indexer.go:150`), booked
  again in another slot and committed, keeps the `created_at_slot` of the orphan:
  `CreatedSlotsAreBookings` fails with `Reissues = TRUE`. Likewise
  `AcceptNeverConflicts`: the run assumes a node that books an output ID once.
* A look-up by ID has no condition on `deleted_at_slot` and takes the oldest row of the
  chain (`account.go:81` and the like): while a transition is accepted and not committed it
  answers the spent output, which every list hides, and with an orphan that is older than
  the committed output it answers the orphan.
* `ticker.Shutdown` does not wait for the handler (`component.go:208`): an accepted batch
  that is being written when the workers stop may meet the closed database, and then asks
  for the shutdown that is under way.
* When the ledger update listener fails, or the node ends its stream without an error, the
  database is closed while the API goes on answering, with errors, until the daemon gets
  to it (`component.go:123`).
* A shutdown during `RegisterAPIRoute` cancels the call, whose failure is a LogFatal: the
  process ends without closing the database (`component.go:261`).
* A cursor with page size 0 passes `parseCursorQueryParameter` and lifts the limit
  (`routes.go:886`), although `configuration.md:174` calls it the maximum number of results
  of a page: the page of one table is then as long as the list. On the combined endpoint it
  cuts the list to one row (`types.go:136`) without a cursor to go on with. That a page
  is no longer than the limit is therefore not among the properties, and the theorems on
  walks assume `0 \notin CursorSizes`.
* `nativeToken` alone on the combined endpoint does not leave out tables without tokens
  (`combined.go:95-153`, against the comment at `restapi.go:73`). `CombinedIsExact` says
  what it does.

## 6. What is not modelled

* PostgreSQL: isolation between write transactions is weaker there, and the two workers can
  lock rows crosswise. The models are of the default engine, SQLite; a transaction that
  PostgreSQL ends is one of the failures they have, what concurrent statements see of each
  other is not.
* The result of the status row's update in `CommitLedgerUpdate`, which the code ignores: a
  statement that fails and lets its transaction commit all the same.
* `DropIndexes` and `AutoMigrate` around an import, which change no row.
* The comparison of a cursor's length with `CursorLength` (`types.go:89`, `routes.go:876`):
  the server is assumed to accept the cursors it has built. They are 16 digits and the ID
  of an output in hexadecimal, and 84 characters fit IDs of 34 bytes. The length of an ID is
  the library iota.go's and not in this repository: were it another, every cursor would be
  refused and no walk get beyond its first page.
* The slots the node writes into the metadata of each output, beside that of the update.
* The grace period after which the daemon gives up on a worker.
* Parsing of IDs and addresses; HTTP codes other than health's.
* Timeouts as such: a call that has one returns or fails.
* The other values of `checkIndexerStatus`'s decision to clear (network name and database
  version differ): they lead to the same steps as pruning.
* Amounts, data, mana and other columns no filter reads.
* The Prometheus collectors and the exporter's server (its worker is in `Lifecycle`),
  application assembly, parameters, toolset, developer tools: no state of the index.

## 7. Plan

The order in which the models were and will be written:

1. *Done: models.* `Node`, `OutputTable`, `MultiAddressTable`, `Indexer` with `LedgerView`
   (serial and concurrent); `Import`; `Lifecycle`; `Query`; `Filters`.
2. *Done: proofs.* Every safety property, action property and refinement of the passing
   runs, with the inductive invariant of each module.
3. *Model.* A variant of `Indexer` with PostgreSQL's READ COMMITTED transactions, in which
   the two workers' write transactions do not exclude each other, and a restatement of
   `CommittedRowsAreLedger` for it.
4. *Proofs.* Which of the theorems about the core carry over to that variant; the
   hypotheses `~Reissues` and `~SameSlotSpends` made local, to the outputs that are
   booked again or consumed at once.
