------------------------------- MODULE Import -------------------------------
(* checkIndexerStatus, fillIndexer and pkg/indexer/import.go: how the index  *)
(* comes to hold a whole ledger before the workers start. The outputs the    *)
(* node streams go through one pipeline per table,                           *)
(*     input channel -> batchers -> output channel -> inserters,             *)
(* and Finalize drains the pipelines one after the other and writes the      *)
(* status row. Nothing is atomic: the process may end at any point, and the  *)
(* context of the daemon may be cancelled at any point.                      *)
EXTENDS Integers, Sequences, FiniteSets

CONSTANTS
  Outputs,       \* output IDs
  Tables,        \* the pipelines: one per output table, one for multiaddresses
  DrainOrder,    \* the sequence in which Finalize drains them
  ItemsOf,       \* ItemsOf[o]: the entries AddOutput enqueues for output o
  Ledgers,       \* bound: the sets of unspent outputs a commitment may have
  Workers,       \* batchers per pipeline, and inserters per pipeline
  InputCap,      \* entries the input channel of a batcher holds
  BatchSize,     \* entries per batch
  OutputCap,     \* batches the output channel of a batcher holds
  MaxSlot,       \* bound: the node commits no slot after this one
  Endings,       \* what may go wrong or end it: some of EndingKinds
  MaxEndings     \* bound: how often, but for the stop of a process that is up

\* An entry [table, key, of]: the row it becomes has primary key `key`.
Items == UNION {ItemsOf[o] : o \in Outputs}

\* The last three are Lifecycle's.
EndingKinds == {"crash", "cancel", "stop", "stream", "write",
                "signal", "fault", "node"}

ASSUME DrainOrderAssumption ==
  /\ DrainOrder \in Seq(Tables)
  /\ Len(DrainOrder) = Cardinality(Tables)
  /\ {DrainOrder[n] : n \in DOMAIN DrainOrder} = Tables
ASSUME BoundsAssumption ==
  /\ BatchSize \in Nat \ {0} /\ InputCap \in Nat \ {0} /\ OutputCap \in Nat \ {0}
  /\ MaxSlot \in Nat /\ MaxEndings \in Nat
  /\ Workers # {}
  /\ Endings \subseteq EndingKinds
ASSUME ItemsAssumption ==
  \A o \in Outputs : \A i \in ItemsOf[o] : i.of = o /\ i.table \in Tables
ASSUME LedgersAssumption == Ledgers \subseteq SUBSET Outputs

VARIABLES
  slot, ledger, pruned,   \* the node: commitment, unspent outputs, pruned up to
  tables,     \* database: "none", only the "status" table (made first), "all"
  stored,     \* database: the <<table, key>> of all rows
  status,     \* database: Status.CommittedSlot, NoSlot without the row
  snap,       \* the ledger the last import read
  pc,         \* checkIndexerStatus and fillIndexer
  cancelled,  \* ctx.Err() # nil
  unread,     \* outputs the node has still to stream
  adding,     \* entries AddOutput has still to enqueue
  readSlot,   \* their commitment
  input,      \* input channels of the batchers, by table
  closed,     \* tables whose input channel is closed
  batch,      \* what a batcher holds
  batching,   \* the batchers that still run
  output,     \* the batches sent and not yet stored: an output channel and the
              \* batch each of its inserters may have received
  inserting,  \* the inserters that still run
  draining,   \* position of Finalize in DrainOrder
  fatal,      \* how the LogFatal of an inserter ended the process last
  endings     \* what has gone wrong so far: was it harmless then?

nodeVars == <<slot, ledger, pruned>>
dbVars   == <<tables, stored, status, snap>>
pipeVars == <<input, closed, batch, batching, output, inserting>>
vars == <<nodeVars, dbVars, pc, cancelled, unread, adding, readSlot, pipeVars,
          draining, fatal, endings>>

NoSlot  == -1
Batches == SUBSET Items
Key(i)  == <<i.table, i.key>>
KeysOf(S) == {Key(i) : i \in UNION {ItemsOf[o] : o \in S}}

TypeOK ==
  /\ slot \in 0..MaxSlot /\ pruned \in 0..MaxSlot /\ ledger \in Ledgers
  /\ tables \in {"none", "status", "all"}
  /\ stored \in SUBSET {Key(i) : i \in Items}
  /\ status \in -1..MaxSlot /\ readSlot \in 0..MaxSlot
  /\ snap \in SUBSET Outputs /\ unread \in SUBSET Outputs
  /\ adding \in SUBSET Items
  /\ pc \in {"down", "clear", "create", "fill", "read", "finalize", "up"}
  /\ cancelled \in BOOLEAN
  /\ input \in [Tables -> Batches]
  /\ closed \in SUBSET Tables
  /\ batch \in [Tables \X Workers -> Batches]
  /\ batching \in SUBSET (Tables \X Workers)
  /\ output \in [Tables -> SUBSET Batches]
  /\ inserting \in SUBSET (Tables \X Workers)
  /\ draining \in 1..(Len(DrainOrder) + 1)
  /\ fatal \in {"never", "conflict", "no table"}
  /\ endings \in Seq(BOOLEAN) /\ Len(endings) <= MaxEndings

-----------------------------------------------------------------------------
(* The node, between two imports and during one. ReadUnspentOutputs serves   *)
(* one commitment however far the node gets meanwhile.                       *)

NodeMoves ==
  /\ slot < MaxSlot
  /\ slot' = slot + 1
  /\ ledger' \in Ledgers
  /\ pruned' \in pruned..slot
  /\ UNCHANGED <<dbVars, pc, cancelled, unread, adding, readSlot, pipeVars, draining,
                 fatal, endings>>

-----------------------------------------------------------------------------
(* checkIndexerStatus.                                                       *)

EmptyPipes ==
  /\ input' = [t \in Tables |-> {}] /\ closed' = {}
  /\ batch' = [w \in Tables \X Workers |-> {}]
  /\ output' = [t \in Tables |-> {}]

NoPipes == EmptyPipes /\ batching' = {} /\ inserting' = {}

\* Whatever ends the process, only the database stays.
ProcessEnds ==
  /\ pc' = "down" /\ cancelled' = FALSE
  /\ unread' = {} /\ adding' = {} /\ readSlot' = 0 /\ draining' = 1
  /\ NoPipes

InMemory == <<cancelled, unread, adding, readSlot, pipeVars, draining>>

\* No tables: create them. No status: fill. Pruned past us: clear. Else: go on.
Start ==
  /\ pc = "down"
  /\ pc' = CASE tables = "none" -> "create"
             [] tables # "none" /\ status = NoSlot -> "fill"
             [] status # NoSlot /\ pruned > status -> "clear"
             [] OTHER -> "up"
  /\ UNCHANGED <<nodeVars, dbVars, InMemory, fatal, endings>>

\* Mutant: the output tables are left as they are.
DropOutputTablesNot ==
  /\ pc = "clear" /\ tables = "all"
  /\ tables' = "status"
  /\ UNCHANGED <<nodeVars, stored, status, snap, pc, InMemory, fatal, endings>>

\* Clear drops the tables in the reverse order of their creation.
DropOutputTables ==
  /\ pc = "clear" /\ tables = "all"
  /\ tables' = "status" /\ stored' = {}
  /\ UNCHANGED <<nodeVars, status, snap, pc, InMemory, fatal, endings>>

DropStatusTable ==
  /\ pc = "clear" /\ tables = "status"
  /\ tables' = "none" /\ status' = NoSlot
  /\ pc' = "create"
  /\ UNCHANGED <<nodeVars, stored, snap, InMemory, fatal, endings>>

CreateStatusTable ==
  /\ pc = "create" /\ tables = "none"
  /\ tables' = "status"
  /\ UNCHANGED <<nodeVars, stored, status, snap, pc, InMemory, fatal, endings>>

CreateOutputTables ==
  /\ pc = "create" /\ tables = "status"
  /\ tables' = "all"
  /\ pc' = "fill"
  /\ UNCHANGED <<nodeVars, stored, status, snap, InMemory, fatal, endings>>

-----------------------------------------------------------------------------
(* fillIndexer: its receiver and the pipelines.                              *)

\* ImportTransaction starts the workers, ReadUnspentOutputs opens the stream.
OpenStream ==
  /\ pc = "fill"
  /\ pc' = "read"
  /\ unread' = ledger /\ readSlot' = slot /\ snap' = ledger
  /\ EmptyPipes
  /\ batching' = Tables \X Workers /\ inserting' = Tables \X Workers
  /\ UNCHANGED <<nodeVars, tables, stored, status, cancelled, adding, draining,
                 fatal, endings>>

\* AddOutput: the row and one entry per distinct multi address.
AddOutput(o) ==
  /\ pc = "read" /\ ~cancelled
  /\ adding = {}
  /\ o \in unread
  /\ unread' = unread \ {o}
  /\ adding' = ItemsOf[o]
  /\ UNCHANGED <<nodeVars, dbVars, pc, cancelled, readSlot, pipeVars, draining,
                 fatal, endings>>

\* Its calls of enqueue, the row's first. A full channel blocks it, for good if
\* the batchers have left: nobody but the process' end waits for it then.
IsRow(i) == i.key = i.of

Enqueue(i) ==
  /\ i \in adding
  /\ IsRow(i) \/ \A j \in adding : ~IsRow(j)
  /\ Cardinality(input[i.table]) < InputCap
  /\ adding' = adding \ {i}
  /\ input' = [input EXCEPT ![i.table] = @ \cup {i}]
  /\ UNCHANGED <<nodeVars, dbVars, pc, cancelled, unread, readSlot, closed, batch,
                 batching, output, inserting, draining, fatal, endings>>

\* The stream ends and the context is not cancelled yet: on to Finalize.
StreamEnds ==
  /\ pc = "read" /\ ~cancelled
  /\ unread = {} /\ adding = {}
  /\ pc' = "finalize"
  /\ UNCHANGED <<nodeVars, dbVars, InMemory, fatal, endings>>

\* A batcher receives an entry. It looks at the context after it has taken it.
BatcherReceives(t, w) ==
  /\ <<t, w>> \in batching
  /\ Cardinality(batch[<<t, w>>]) < BatchSize
  /\ \E i \in input[t] :
       /\ input' = [input EXCEPT ![t] = @ \ {i}]
       /\ IF cancelled
          THEN /\ batch' = [batch EXCEPT ![<<t, w>>] = {}]
               /\ batching' = batching \ {<<t, w>>}
          ELSE /\ batch' = [batch EXCEPT ![<<t, w>>] = @ \cup {i}]
               /\ UNCHANGED batching
  /\ UNCHANGED <<nodeVars, dbVars, pc, cancelled, unread, adding, readSlot, closed,
                 output, inserting, draining, fatal, endings>>

\* Between that receipt and that look the context may have been cancelled.
BatcherLeaves(t, w) ==
  /\ <<t, w>> \in batching /\ cancelled
  /\ batch[<<t, w>>] # {}
  /\ batch' = [batch EXCEPT ![<<t, w>>] = {}]
  /\ batching' = batching \ {<<t, w>>}
  /\ UNCHANGED <<nodeVars, dbVars, pc, cancelled, unread, adding, readSlot, input,
                 closed, output, inserting, draining, fatal, endings>>

\* The output channel and, with one batch each, the inserters that still run.
\* An inserter that leaves takes its place with it.
Room(t) == OutputCap + Cardinality({w \in Workers : <<t, w>> \in inserting})

\* Mutant: the batch is not replaced by a new one after it is sent.
BatcherResends(t, w) ==
  /\ <<t, w>> \in batching
  /\ Cardinality(batch[<<t, w>>]) = BatchSize \/ (t \in closed /\ input[t] = {})
  /\ Cardinality(output[t]) < Room(t)
  /\ output' = [output EXCEPT ![t] = @ \cup {batch[<<t, w>>]}]
  /\ UNCHANGED <<nodeVars, dbVars, pc, cancelled, unread, adding, readSlot, input,
                 closed, batch, batching, inserting, draining, fatal, endings>>

\* A full batch goes to the output channel, and so does the last one when the
\* input channel is closed and empty; both wait for room, and for nothing else.
LastBatch(t, w) == t \in closed /\ input[t] = {} /\ batch[<<t, w>>] # {}

Sending(t, w) == /\ <<t, w>> \in batching
                 /\ Cardinality(batch[<<t, w>>]) = BatchSize \/ LastBatch(t, w)

BatcherSends(t, w) ==
  /\ Sending(t, w)
  /\ Cardinality(output[t]) < Room(t)
  /\ output' = [output EXCEPT ![t] = @ \cup {batch[<<t, w>>]}]
  /\ batch' = [batch EXCEPT ![<<t, w>>] = {}]
  /\ UNCHANGED <<nodeVars, dbVars, pc, cancelled, unread, adding, readSlot, input,
                 closed, batching, inserting, draining, fatal, endings>>

\* Mutant: what is left in the batch when the input is closed is forgotten.
BatcherForgetsRest(t, w) ==
  /\ <<t, w>> \in batching
  /\ t \in closed /\ input[t] = {}
  /\ batching' = batching \ {<<t, w>>}
  /\ UNCHANGED <<nodeVars, dbVars, pc, cancelled, unread, adding, readSlot, input,
                 closed, batch, output, inserting, draining, fatal, endings>>

\* Mutant: its `break` leaves the select and not the loop around it.
BatcherSpins(t, w) ==
  /\ <<t, w>> \in batching
  /\ t \in closed /\ input[t] = {} /\ batch[<<t, w>>] = {}
  /\ UNCHANGED vars

BatcherEnds(t, w) ==
  /\ <<t, w>> \in batching
  /\ t \in closed /\ input[t] = {} /\ batch[<<t, w>>] = {}
  /\ batching' = batching \ {<<t, w>>}
  /\ UNCHANGED <<nodeVars, dbVars, pc, cancelled, unread, adding, readSlot, input,
                 closed, batch, output, inserting, draining, fatal, endings>>

Batching(t) == \E w \in Workers : <<t, w>> \in batching
Inserting(t) == \E w \in Workers : <<t, w>> \in inserting

\* One INSERT for the whole batch: typeIsRefCountable asserts on a pointer to
\* the pointer type, which has no methods, so the branch that would add up
\* reference counts is never taken, not for multi addresses either.
Fits(b) ==
  /\ \A i, j \in b : Key(i) = Key(j) => i = j
  /\ \A i \in b : Key(i) \notin stored

InserterStores(t, w) ==
  /\ <<t, w>> \in inserting /\ ~cancelled
  /\ tables = "all"
  /\ \E b \in output[t] :
       /\ Fits(b)
       /\ output' = [output EXCEPT ![t] = @ \ {b}]
       /\ stored' = stored \cup {Key(i) : i \in b}
  /\ UNCHANGED <<nodeVars, tables, status, snap, pc, cancelled, unread, adding, readSlot,
                 input, closed, batch, batching, inserting, draining, fatal,
                 endings>>

\* LogFatal ends the process.
InserterDies(t, w) ==
  /\ <<t, w>> \in inserting /\ ~cancelled
  /\ \E b \in output[t] : tables # "all" \/ ~Fits(b)
  /\ fatal' = IF tables = "all" THEN "conflict" ELSE "no table"
  /\ ProcessEnds
  /\ UNCHANGED <<nodeVars, dbVars, endings>>

\* It looks at the context after it has received a batch, and then drops it,
\* however long before the cancellation the batchers have refilled the channel.
\* Without a batch it ends when the batchers are done and the channel is closed.
InserterEnds(t, w) ==
  /\ <<t, w>> \in inserting
  /\ \/ /\ cancelled
        /\ \E b \in output[t] : output' = [output EXCEPT ![t] = @ \ {b}]
     \/ /\ t \in closed /\ ~Batching(t) /\ output[t] = {}
        /\ UNCHANGED output
  /\ inserting' = inserting \ {<<t, w>>}
  /\ UNCHANGED <<nodeVars, dbVars, pc, cancelled, unread, adding, readSlot, input,
                 closed, batch, batching, draining, fatal, endings>>

-----------------------------------------------------------------------------
(* Finalize: close and wait, pipeline by pipeline, then the status row.      *)

Drained == draining > Len(DrainOrder)

CloseInput ==
  LET t == DrainOrder[draining] IN
  /\ pc = "finalize" /\ ~Drained
  /\ t \notin closed
  /\ closed' = closed \cup {t}
  /\ UNCHANGED <<nodeVars, dbVars, pc, cancelled, unread, adding, readSlot, input,
                 batch, batching, output, inserting, draining, fatal, endings>>

DrainNext ==
  LET t == DrainOrder[draining] IN
  /\ pc = "finalize" /\ ~Drained
  /\ t \in closed /\ ~Batching(t) /\ ~Inserting(t)
  /\ draining' = draining + 1
  /\ UNCHANGED <<nodeVars, dbVars, pc, cancelled, unread, adding, readSlot, pipeVars,
                 fatal, endings>>

\* INSERT ... ON CONFLICT UPDATE ALL: there is a status now, and the process
\* goes on to start the workers.
WriteStatus ==
  /\ pc = "finalize" /\ Drained
  /\ status' = readSlot
  /\ pc' = "up"
  /\ UNCHANGED <<nodeVars, tables, stored, snap, InMemory, fatal, endings>>

-----------------------------------------------------------------------------
(* The ends of the process.                                                  *)

\* An ending of the process that meets no import: it is up, or checkIndexerStatus
\* is at a point that the next start finds again. A cancellation is no ending.
Harmless == \/ pc \in {"clear", "fill", "up"}
            \/ pc = "create" /\ tables = "none"

Ends(how) == /\ how \in Endings
             /\ Len(endings) < MaxEndings
             /\ endings' = Append(endings, Harmless /\ how # "cancel")

\* The stream or AddOutput returns an error and fillIndexer with it: LogFatal.
StreamFails ==
  /\ pc = "read" /\ ~cancelled
  /\ Ends("stream")
  /\ ProcessEnds
  /\ UNCHANGED <<nodeVars, dbVars, fatal>>

\* Mutant: the process goes on without reading the status row back.
WriteStatusFailsUnread ==
  /\ pc = "finalize" /\ Drained
  /\ Ends("write")
  /\ pc' = "up"
  /\ UNCHANGED <<nodeVars, dbVars, InMemory, fatal>>

\* The INSERT of the status row fails. Finalize returns i.db.Error, which is not
\* that statement's, and reports success; checkIndexerStatus then misses the
\* row: LogFatal.
WriteStatusFails ==
  /\ pc = "finalize" /\ Drained
  /\ Ends("write")
  /\ ProcessEnds
  /\ UNCHANGED <<nodeVars, dbVars, fatal>>

\* A process that has come up is stopped; what it did meanwhile is Indexer's.
Stop ==
  /\ pc = "up" /\ "stop" \in Endings
  /\ ProcessEnds
  /\ UNCHANGED <<nodeVars, dbVars, fatal, endings>>

\* The daemon cancels the context of the worker before that.
Cancel ==
  /\ pc \notin {"down", "up"} /\ ~cancelled
  /\ Ends("cancel")
  /\ cancelled' = TRUE
  /\ UNCHANGED <<nodeVars, dbVars, pc, unread, adding, readSlot, pipeVars, draining,
                 fatal>>

\* fillIndexer sees it while it waits for the stream; the workers that start
\* in spite of it leave their listeners.
CancelledEnds ==
  /\ cancelled
  /\ pc \in {"read", "up"}
  /\ ProcessEnds
  /\ UNCHANGED <<nodeVars, dbVars, fatal, endings>>

Crash ==
  /\ pc # "down"
  /\ Ends("crash")
  /\ ProcessEnds
  /\ UNCHANGED <<nodeVars, dbVars, fatal>>

\* Up, and nobody shuts it down: what follows is Indexer's.
Running == pc = "up" /\ ~cancelled /\ UNCHANGED vars

-----------------------------------------------------------------------------
Init ==
  /\ slot = 0 /\ ledger \in Ledgers /\ pruned = 0
  /\ tables = "none" /\ stored = {} /\ status = NoSlot /\ snap = {}
  /\ pc = "down" /\ cancelled = FALSE
  /\ unread = {} /\ adding = {} /\ readSlot = 0 /\ draining = 1
  /\ input = [t \in Tables |-> {}] /\ closed = {}
  /\ batch = [w \in Tables \X Workers |-> {}] /\ batching = {}
  /\ output = [t \in Tables |-> {}] /\ inserting = {}
  /\ fatal = "never" /\ endings = <<>>

Checking == \/ Start
            \/ DropOutputTables \/ DropStatusTable
            \/ CreateStatusTable \/ CreateOutputTables

Receiving == \/ OpenStream \/ StreamEnds
             \/ \E o \in Outputs : AddOutput(o)
             \/ \E i \in Items : Enqueue(i)

Batcher(t, w)  == BatcherReceives(t, w) \/ BatcherSends(t, w) \/ BatcherEnds(t, w)
Inserter(t, w) == InserterStores(t, w) \/ InserterDies(t, w) \/ InserterEnds(t, w)

Finalize == CloseInput \/ DrainNext \/ WriteStatus

Next ==
  \/ NodeMoves
  \/ Checking \/ Receiving \/ Finalize
  \/ \E t \in Tables, w \in Workers :
       Batcher(t, w) \/ BatcherLeaves(t, w) \/ Inserter(t, w)
  \/ StreamFails \/ WriteStatusFails
  \/ Stop \/ Cancel \/ CancelledEnds \/ Crash
  \/ Running

Spec == Init /\ [][Next]_vars

-----------------------------------------------------------------------------
(* Properties.                                                               *)

\* What an interrupted import leaves behind nobody cleans up: a part of the rows,
\* or the status table without the others.
Interrupted == \E n \in DOMAIN endings : ~endings[n]

\* The workers start with a status row only when the whole ledger it stands for
\* is in the tables, and nothing else: nobody compares again (Finalize is to
\* "drain all processors" before it writes the row).
StatusMeansComplete ==
  pc = "up" => status # NoSlot /\ stored = KeysOf(snap)

\* So it is while no import has been interrupted, through restarts and the
\* imports that follow when the node has pruned past the index.
UninterruptedIsComplete == Interrupted \/ StatusMeansComplete

\* An import only ever starts on empty tables (checkIndexerStatus: "Indexer is
\* empty, so import initial ledger..."), unless one was interrupted before.
ImportStartsEmpty == pc = "fill" => Interrupted \/ stored = {}

\* No entry of an import is refused by the database, so LogFatal is not called,
\* unless one was interrupted before.
NeverFatal == Interrupted \/ fatal = "never"

-----------------------------------------------------------------------------
(* The inductive invariant behind the theorems of ImportProofs.              *)

\* No two entries of a table have the same primary key: no two outputs hold the
\* same multi address.
KeysDistinct == \A i, j \in Items : Key(i) = Key(j) => i = j

\* The database before an import and after it, and the process between the two.
Blank    == stored = {} /\ status = NoSlot
Complete == tables = "all" /\ status # NoSlot /\ stored = KeysOf(snap)

\* Clear has dropped the tables of the outputs and not yet the status row.
HalfCleared == /\ tables = "status" /\ stored = {}
               /\ status # NoSlot /\ pruned > status

CourseInv ==
  /\ ~cancelled /\ fatal = "never"
  /\ pc = "down"   => Complete \/ HalfCleared \/ (Blank /\ tables # "status")
  /\ pc = "create" => Blank /\ tables # "all"
  /\ pc = "clear"  => pruned > status /\ (Complete \/ HalfCleared)
  /\ pc = "fill"   => Blank /\ tables = "all"
  /\ pc \in {"read", "finalize"} => tables = "all"
  /\ pc = "up"     => Complete

\* Where an entry of the ledger is on its way into the database.
InBatch(i, w) == i \in batch[<<i.table, w>>]
InOutput(i)   == \E b \in output[i.table] : i \in b
InPipe(i)     == i \in input[i.table] \/ (\E w \in Workers : InBatch(i, w)) \/ InOutput(i)

\* It is in exactly one place, and in none before it is read.
InOnePlace(i) ==
  /\ i.of \in unread => i \notin adding
  /\ i.of \in unread \/ i \in adding => ~InPipe(i)
  /\ i \in input[i.table] => \A w \in Workers : ~InBatch(i, w)
  /\ \A v, w \in Workers : InBatch(i, v) /\ InBatch(i, w) => v = w
  /\ i \in input[i.table] \/ (\E w \in Workers : InBatch(i, w)) => ~InOutput(i)
  /\ \A b, c \in output[i.table] : i \in b /\ i \in c => b = c
  /\ Key(i) \in stored => i.of \notin unread /\ i \notin adding /\ ~InPipe(i)
  /\ i.of \in snap <=> \/ i.of \in unread \/ i \in adding
                       \/ InPipe(i) \/ Key(i) \in stored

\* It is in the pipeline of its table.
Sorted(t) ==
  /\ \A i \in input[t] : i.table = t
  /\ \A w \in Workers : \A i \in batch[<<t, w>>] : i.table = t
  /\ \A b \in output[t] : \A i \in b : i.table = t

\* A worker leaves only an empty pipeline behind, Finalize goes past a pipeline
\* only when its workers have left, and outside of an import there are none.
WorkersInv ==
  /\ pc \notin {"read", "finalize"} => batching = {} /\ inserting = {}
  /\ pc # "read" => unread = {} /\ adding = {}
  /\ pc \notin {"finalize", "up"} => draining = 1
  /\ pc = "read" => closed = {}
  /\ pc \in {"read", "finalize"} =>
       /\ \A t \in Tables, w \in Workers :
            /\ <<t, w>> \notin batching =>
                 t \in closed /\ input[t] = {} /\ batch[<<t, w>>] = {}
            /\ <<t, w>> \notin inserting => ~Batching(t) /\ output[t] = {}
       /\ \A n \in 1..(draining - 1) : ~Inserting(DrainOrder[n])

PlacesInv ==
  pc \in {"read", "finalize"} =>
    /\ \A t \in Tables : Sorted(t)
    /\ \A i \in Items : InOnePlace(i)

ImportInv ==
  /\ TypeOK
  /\ KeysDistinct /\ ~Interrupted => CourseInv /\ WorkersInv /\ PlacesInv
=============================================================================
