---------------------------- MODULE ImportProofs -----------------------------
(* Proofs about Import, for any tables, entries, workers, capacities and     *)
(* endings: its type correctness, and that an import that is not interrupted *)
(* is complete.                                                              *)
EXTENDS Import, TLAPS

-----------------------------------------------------------------------------
(* Facts about the parts of the actions.                                     *)

\* The entries of an output are entries.
LEMMA ItemsOfOutput ==
  ASSUME NEW o \in Outputs
  PROVE  ItemsOf[o] \subseteq Items
  BY DEF Items

\* The rows of a batch are rows of entries.
LEMMA KeysOfBatch ==
  ASSUME NEW b \in Batches
  PROVE  {Key(i) : i \in b} \subseteq {Key(i) : i \in Items}
  BY DEF Batches

\* The conjuncts of TypeOK about the node, the database, the course of the
\* process, the place of its receiver and Finalize, and the pipelines.
NodeOK ==
  slot \in 0..MaxSlot /\ pruned \in 0..MaxSlot /\ ledger \in Ledgers

DatabaseOK ==
  /\ tables \in {"none", "status", "all"}
  /\ stored \in SUBSET {Key(i) : i \in Items}
  /\ status \in -1..MaxSlot
  /\ snap \in SUBSET Outputs

CourseOK ==
  /\ pc \in {"down", "clear", "create", "fill", "read", "finalize", "up"}
  /\ fatal \in {"never", "conflict", "no table"}
  /\ endings \in Seq(BOOLEAN) /\ Len(endings) <= MaxEndings

PlaceOK ==
  /\ cancelled \in BOOLEAN
  /\ unread \in SUBSET Outputs
  /\ adding \in SUBSET Items
  /\ readSlot \in 0..MaxSlot
  /\ draining \in 1..(Len(DrainOrder) + 1)

PipesOK ==
  /\ input \in [Tables -> Batches]
  /\ closed \in SUBSET Tables
  /\ batch \in [Tables \X Workers -> Batches]
  /\ batching \in SUBSET (Tables \X Workers)
  /\ output \in [Tables -> SUBSET Batches]
  /\ inserting \in SUBSET (Tables \X Workers)

LEMMA TypeParts ==
  TypeOK <=> NodeOK /\ DatabaseOK /\ CourseOK /\ PlaceOK /\ PipesOK
  BY DEF TypeOK, NodeOK, DatabaseOK, CourseOK, PlaceOK, PipesOK

LEMMA TypePartsNext ==
  NodeOK' /\ DatabaseOK' /\ CourseOK' /\ PlaceOK' /\ PipesOK' => TypeOK'
  BY DEF TypeOK, NodeOK, DatabaseOK, CourseOK, PlaceOK, PipesOK

\* A part an action leaves alone stays well-typed.
LEMMA NodeSame == NodeOK /\ UNCHANGED nodeVars => NodeOK'
  BY DEF NodeOK, nodeVars

LEMMA DatabaseSame == DatabaseOK /\ UNCHANGED dbVars => DatabaseOK'
  BY DEF DatabaseOK, dbVars

LEMMA CourseSame == CourseOK /\ UNCHANGED <<pc, fatal, endings>> => CourseOK'
  BY DEF CourseOK

LEMMA PlaceSame ==
  PlaceOK /\ UNCHANGED <<cancelled, unread, adding, readSlot, draining>> => PlaceOK'
  BY DEF PlaceOK

LEMMA PipesSame == PipesOK /\ UNCHANGED pipeVars => PipesOK'
  BY DEF PipesOK, pipeVars

\* What has gone wrong stays within its bound.
LEMMA EndsType ==
  ASSUME CourseOK, NEW how, Ends(how)
  PROVE  endings' \in Seq(BOOLEAN) /\ Len(endings') <= MaxEndings
  <1>. DEFINE e == Harmless /\ how # "cancel"
  <1>1. e \in BOOLEAN
    OBVIOUS
  <1>2. /\ endings \in Seq(BOOLEAN)
        /\ Len(endings) < MaxEndings
        /\ endings' = Append(endings, e)
        /\ MaxEndings \in Nat
    BY BoundsAssumption DEF Ends, CourseOK
  <1>. HIDE DEF e
  <1>3. Append(endings, e) \in Seq(BOOLEAN)
    BY <1>1, <1>2
  <1>4. Len(Append(endings, e)) = Len(endings) + 1 /\ Len(endings) \in Nat
    BY <1>1, <1>2
  <1>. QED
    BY <1>2, <1>3, <1>4

\* Pipelines start and end empty.
LEMMA EmptyPipesType ==
  ASSUME EmptyPipes,
         batching' \in SUBSET (Tables \X Workers),
         inserting' \in SUBSET (Tables \X Workers)
  PROVE  PipesOK'
  BY DEF EmptyPipes, PipesOK, Batches

\* A process that ends leaves a well-typed memory.
LEMMA ProcessEndsType ==
  ASSUME ProcessEnds
  PROVE  PlaceOK' /\ PipesOK' /\ pc' = "down"
  <1>1. PipesOK'
    BY EmptyPipesType DEF ProcessEnds, NoPipes
  <1>2. 1 \in 1..(Len(DrainOrder) + 1) /\ 0 \in 0..MaxSlot
    BY DrainOrderAssumption, BoundsAssumption
  <1>3. PlaceOK'
    BY <1>2 DEF ProcessEnds, PlaceOK
  <1>. QED
    BY <1>1, <1>3 DEF ProcessEnds

-----------------------------------------------------------------------------
(* The actions, group by group.                                              *)

LEMMA NodeMovesType ==
  ASSUME TypeOK, NodeMoves
  PROVE  TypeOK'
  <1>. USE TypeParts, TypePartsNext
  <1>1. NodeOK'
    BY BoundsAssumption DEF NodeMoves, NodeOK
  <1>. QED
    BY <1>1, DatabaseSame, CourseSame, PlaceSame, PipesSame DEF NodeMoves

LEMMA CheckingType ==
  ASSUME TypeOK, Checking
  PROVE  TypeOK'
  <1>. USE TypeParts, TypePartsNext
  <1>1. ASSUME UNCHANGED InMemory
        PROVE  PlaceOK' /\ PipesOK'
    BY <1>1, PlaceSame, PipesSame DEF InMemory
  <1>2. CASE Start
    <2>1. CourseOK'
      BY <1>2 DEF Start, CourseOK
    <2>. QED
      BY <1>1, <1>2, <2>1, NodeSame, DatabaseSame DEF Start
  <1>3. CASE DropOutputTables
    <2>1. DatabaseOK'
      BY <1>3 DEF DropOutputTables, DatabaseOK
    <2>. QED
      BY <1>1, <1>3, <2>1, NodeSame, CourseSame DEF DropOutputTables
  <1>4. CASE DropStatusTable
    <2>1. DatabaseOK'
      BY <1>4, BoundsAssumption DEF DropStatusTable, DatabaseOK, NoSlot
    <2>2. CourseOK'
      BY <1>4 DEF DropStatusTable, CourseOK
    <2>. QED
      BY <1>1, <1>4, <2>1, <2>2, NodeSame DEF DropStatusTable
  <1>5. CASE CreateStatusTable
    <2>1. DatabaseOK'
      BY <1>5 DEF CreateStatusTable, DatabaseOK
    <2>. QED
      BY <1>1, <1>5, <2>1, NodeSame, CourseSame DEF CreateStatusTable
  <1>6. CASE CreateOutputTables
    <2>1. DatabaseOK'
      BY <1>6 DEF CreateOutputTables, DatabaseOK
    <2>2. CourseOK'
      BY <1>6 DEF CreateOutputTables, CourseOK
    <2>. QED
      BY <1>1, <1>6, <2>1, <2>2, NodeSame DEF CreateOutputTables
  <1>. QED
    BY <1>2, <1>3, <1>4, <1>5, <1>6 DEF Checking

LEMMA ReceivingType ==
  ASSUME TypeOK, Receiving
  PROVE  TypeOK'
  <1>. USE TypeParts, TypePartsNext
  <1>1. CASE OpenStream
    <2>1. ledger \in SUBSET Outputs
      BY LedgersAssumption DEF NodeOK
    <2>2. DatabaseOK'
      BY <1>1, <2>1 DEF OpenStream, DatabaseOK
    <2>3. CourseOK'
      BY <1>1 DEF OpenStream, CourseOK
    <2>4. PlaceOK'
      BY <1>1, <2>1 DEF OpenStream, PlaceOK, NodeOK
    <2>5. PipesOK'
      BY <1>1, EmptyPipesType DEF OpenStream
    <2>. QED
      BY <1>1, <2>2, <2>3, <2>4, <2>5, NodeSame DEF OpenStream
  <1>2. CASE StreamEnds
    <2>1. CourseOK'
      BY <1>2 DEF StreamEnds, CourseOK
    <2>. QED
      BY <1>2, <2>1, NodeSame, DatabaseSame, PlaceSame, PipesSame
      DEF StreamEnds, InMemory
  <1>3. ASSUME NEW o \in Outputs, AddOutput(o)
        PROVE  TypeOK'
    <2>1. ItemsOf[o] \in SUBSET Items
      BY ItemsOfOutput
    <2>2. PlaceOK'
      BY <1>3, <2>1 DEF AddOutput, PlaceOK
    <2>. QED
      BY <1>3, <2>2, NodeSame, DatabaseSame, CourseSame, PipesSame DEF AddOutput
  <1>4. ASSUME NEW i \in Items, Enqueue(i)
        PROVE  TypeOK'
    <2>1. PlaceOK'
      BY <1>4 DEF Enqueue, PlaceOK
    <2>2. PipesOK'
      BY <1>4 DEF Enqueue, PipesOK, Batches
    <2>. QED
      BY <1>4, <2>1, <2>2, NodeSame, DatabaseSame, CourseSame DEF Enqueue
  <1>. QED
    BY <1>1, <1>2, <1>3, <1>4 DEF Receiving

LEMMA BatcherType ==
  ASSUME TypeOK, NEW t \in Tables, NEW w \in Workers, Batcher(t, w)
  PROVE  TypeOK'
  <1>. USE TypeParts, TypePartsNext
  <1>1. /\ <<t, w>> \in Tables \X Workers
        /\ batch[<<t, w>>] \in Batches
        /\ input[t] \in Batches
    BY DEF PipesOK
  <1>2. CASE BatcherReceives(t, w)
    <2>1. PICK i \in input[t] :
            /\ input' = [input EXCEPT ![t] = @ \ {i}]
            /\ IF cancelled
               THEN /\ batch' = [batch EXCEPT ![<<t, w>>] = {}]
                    /\ batching' = batching \ {<<t, w>>}
               ELSE /\ batch' = [batch EXCEPT ![<<t, w>>] = @ \cup {i}]
                    /\ UNCHANGED batching
      BY <1>2 DEF BatcherReceives
    <2>2. i \in Items
      BY <1>1 DEF Batches
    <2>3. input' \in [Tables -> Batches]
      BY <1>1, <2>1 DEF PipesOK, Batches
    <2>4. batch[<<t, w>>] \cup {i} \in Batches
      BY <1>1, <2>2 DEF Batches
    <2>5. batch' \in [Tables \X Workers -> Batches]
      BY <1>1, <2>1, <2>4 DEF PipesOK, Batches
    <2>6. batching' \in SUBSET (Tables \X Workers)
      BY <2>1 DEF PipesOK
    <2>7. PipesOK'
      BY <1>2, <2>3, <2>5, <2>6 DEF BatcherReceives, PipesOK
    <2>. QED
      BY <1>2, <2>7, NodeSame, DatabaseSame, CourseSame, PlaceSame DEF BatcherReceives
  <1>3. CASE BatcherSends(t, w)
    <2>1. output' \in [Tables -> SUBSET Batches]
      BY <1>1, <1>3 DEF BatcherSends, PipesOK
    <2>2. batch' \in [Tables \X Workers -> Batches]
      BY <1>3 DEF BatcherSends, PipesOK, Batches
    <2>3. PipesOK'
      BY <1>3, <2>1, <2>2 DEF BatcherSends, PipesOK
    <2>. QED
      BY <1>3, <2>3, NodeSame, DatabaseSame, CourseSame, PlaceSame DEF BatcherSends
  <1>4. CASE BatcherEnds(t, w)
    <2>1. PipesOK'
      BY <1>4 DEF BatcherEnds, PipesOK
    <2>. QED
      BY <1>4, <2>1, NodeSame, DatabaseSame, CourseSame, PlaceSame DEF BatcherEnds
  <1>. QED
    BY <1>2, <1>3, <1>4 DEF Batcher

LEMMA BatcherLeavesType ==
  ASSUME TypeOK, NEW t \in Tables, NEW w \in Workers, BatcherLeaves(t, w)
  PROVE  TypeOK'
  <1>. USE TypeParts, TypePartsNext
  <1>1. PipesOK'
    BY DEF BatcherLeaves, PipesOK, Batches
  <1>. QED
    BY <1>1, NodeSame, DatabaseSame, CourseSame, PlaceSame DEF BatcherLeaves

LEMMA InserterType ==
  ASSUME TypeOK, NEW t \in Tables, NEW w \in Workers, Inserter(t, w)
  PROVE  TypeOK'
  <1>. USE TypeParts, TypePartsNext
  <1>1. output[t] \in SUBSET Batches
    BY DEF PipesOK
  <1>2. CASE InserterStores(t, w)
    <2>1. PICK b \in output[t] :
            /\ output' = [output EXCEPT ![t] = @ \ {b}]
            /\ stored' = stored \cup {Key(i) : i \in b}
      BY <1>2 DEF InserterStores
    <2>2. output' \in [Tables -> SUBSET Batches]
      BY <1>1, <2>1 DEF PipesOK
    <2>3. b \in Batches
      BY <1>1
    <2>4. stored' \in SUBSET {Key(i) : i \in Items}
      BY <2>1, <2>3, KeysOfBatch DEF DatabaseOK
    <2>5. DatabaseOK'
      BY <1>2, <2>4 DEF InserterStores, DatabaseOK
    <2>6. PipesOK'
      BY <1>2, <2>2 DEF InserterStores, PipesOK
    <2>. QED
      BY <1>2, <2>5, <2>6, NodeSame, CourseSame, PlaceSame DEF InserterStores
  <1>3. CASE InserterDies(t, w)
    <2>1. CourseOK'
      BY <1>3, ProcessEndsType DEF InserterDies, CourseOK
    <2>. QED
      BY <1>3, <2>1, ProcessEndsType, NodeSame, DatabaseSame DEF InserterDies
  <1>4. CASE InserterEnds(t, w)
    <2>1. output' \in [Tables -> SUBSET Batches]
      BY <1>1, <1>4 DEF InserterEnds, PipesOK
    <2>2. PipesOK'
      BY <1>4, <2>1 DEF InserterEnds, PipesOK
    <2>. QED
      BY <1>4, <2>2, NodeSame, DatabaseSame, CourseSame, PlaceSame DEF InserterEnds
  <1>. QED
    BY <1>2, <1>3, <1>4 DEF Inserter

LEMMA FinalizeType ==
  ASSUME TypeOK, Finalize
  PROVE  TypeOK'
  <1>. USE TypeParts, TypePartsNext
  <1>1. Len(DrainOrder) \in Nat
    BY DrainOrderAssumption
  <1>2. CASE CloseInput
    <2>1. draining \in 1..Len(DrainOrder)
      BY <1>1, <1>2 DEF CloseInput, Drained, PlaceOK
    <2>2. DrainOrder[draining] \in Tables
      BY <2>1, DrainOrderAssumption
    <2>3. PipesOK'
      BY <1>2, <2>2 DEF CloseInput, PipesOK
    <2>. QED
      BY <1>2, <2>3, NodeSame, DatabaseSame, CourseSame, PlaceSame DEF CloseInput
  <1>3. CASE DrainNext
    <2>1. PlaceOK'
      BY <1>1, <1>3 DEF DrainNext, Drained, PlaceOK
    <2>. QED
      BY <1>3, <2>1, NodeSame, DatabaseSame, CourseSame, PipesSame DEF DrainNext
  <1>4. CASE WriteStatus
    <2>1. DatabaseOK'
      BY <1>4, BoundsAssumption DEF WriteStatus, PlaceOK, DatabaseOK
    <2>2. CourseOK'
      BY <1>4 DEF WriteStatus, CourseOK
    <2>. QED
      BY <1>4, <2>1, <2>2, NodeSame, PlaceSame, PipesSame DEF WriteStatus, InMemory
  <1>. QED
    BY <1>2, <1>3, <1>4 DEF Finalize

LEMMA EndingsType ==
  ASSUME TypeOK,
         StreamFails \/ WriteStatusFails \/ Stop \/ Cancel \/ CancelledEnds \/ Crash
  PROVE  TypeOK'
  <1>. USE TypeParts, TypePartsNext
  <1>1. ASSUME ProcessEnds, UNCHANGED <<nodeVars, dbVars, fatal>>,
               UNCHANGED endings \/ \E how : Ends(how)
        PROVE  TypeOK'
    <2>1. endings' \in Seq(BOOLEAN) /\ Len(endings') <= MaxEndings
      BY <1>1, EndsType DEF CourseOK
    <2>2. CourseOK'
      BY <1>1, <2>1, ProcessEndsType DEF CourseOK
    <2>. QED
      BY <1>1, <2>2, ProcessEndsType, NodeSame, DatabaseSame
  <1>2. CASE StreamFails
    BY <1>1, <1>2 DEF StreamFails
  <1>3. CASE WriteStatusFails
    BY <1>1, <1>3 DEF WriteStatusFails
  <1>4. CASE Stop
    BY <1>1, <1>4 DEF Stop
  <1>5. CASE Cancel
    <2>1. endings' \in Seq(BOOLEAN) /\ Len(endings') <= MaxEndings
      BY <1>5, EndsType DEF Cancel
    <2>2. CourseOK'
      BY <1>5, <2>1 DEF Cancel, CourseOK
    <2>3. PlaceOK'
      BY <1>5 DEF Cancel, PlaceOK
    <2>. QED
      BY <1>5, <2>2, <2>3, NodeSame, DatabaseSame, PipesSame DEF Cancel
  <1>6. CASE CancelledEnds
    BY <1>1, <1>6 DEF CancelledEnds
  <1>7. CASE Crash
    BY <1>1, <1>7 DEF Crash
  <1>. QED
    BY <1>2, <1>3, <1>4, <1>5, <1>6, <1>7

-----------------------------------------------------------------------------
LEMMA InitType ==
  ASSUME Init
  PROVE  TypeOK
  <1>1. /\ 1 \in 1..(Len(DrainOrder) + 1)
        /\ 0 \in 0..MaxSlot /\ -1 \in -1..MaxSlot
        /\ MaxEndings \in Nat
    BY DrainOrderAssumption, BoundsAssumption
  <1>2. NodeOK
    BY <1>1 DEF Init, NodeOK
  <1>3. DatabaseOK
    BY <1>1 DEF Init, DatabaseOK, NoSlot
  <1>4. CourseOK
    BY <1>1 DEF Init, CourseOK
  <1>5. PlaceOK
    BY <1>1 DEF Init, PlaceOK
  <1>6. PipesOK
    BY DEF Init, PipesOK, Batches
  <1>. QED
    BY <1>2, <1>3, <1>4, <1>5, <1>6, TypeParts

\* Every reachable state of an import, whatever goes wrong, is type correct: no
\* slot, entry or batch gets into a place it does not belong to, and Finalize
\* never drains past the last table.
THEOREM ImportTypeCorrectness == Spec => []TypeOK
  <1>1. Init => TypeOK
    BY InitType
  <1>2. TypeOK /\ [Next]_vars => TypeOK'
    <2>. SUFFICES ASSUME TypeOK, [Next]_vars
                  PROVE  TypeOK'
      OBVIOUS
    <2>1. CASE UNCHANGED vars
      BY <2>1, TypeParts, TypePartsNext, NodeSame, DatabaseSame, CourseSame, PlaceSame, PipesSame
      DEF vars
    <2>2. CASE Running
      BY <2>1, <2>2 DEF Running
    <2>. QED
      BY <2>1, <2>2, NodeMovesType, CheckingType, ReceivingType, BatcherType,
         BatcherLeavesType, InserterType, FinalizeType, EndingsType
      DEF Next
  <1>. QED
    BY <1>1, <1>2, PTL DEF Spec

-----------------------------------------------------------------------------
(* What an import achieves: unless it is interrupted, every entry of the     *)
(* ledger reaches the database once, before the status row does. First what  *)
(* stays when nothing happens to it.                                         *)

Core == CourseInv /\ WorkersInv /\ PlacesInv

\* An entry belongs to an output and to a table.
LEMMA EntryFacts ==
  ASSUME NEW i \in Items
  PROVE  i.of \in Outputs /\ i \in ItemsOf[i.of] /\ i.table \in Tables
<1>1. PICK o \in Outputs : i \in ItemsOf[o]
  BY DEF Items
<1> QED
  BY <1>1, ItemsAssumption

\* What ends a process and is not harmless interrupts an import, as does a
\* cancellation, and whatever is interrupted stays so.
LEMMA EndsInterrupts ==
  ASSUME CourseOK, NEW how, Ends(how)
  PROVE  /\ ~Harmless \/ how = "cancel" => Interrupted'
         /\ Interrupted => Interrupted'
<1> DEFINE e == Harmless /\ how # "cancel"
           n == Len(endings) + 1
<1>1. /\ endings \in Seq(BOOLEAN) /\ e \in BOOLEAN
      /\ endings' = Append(endings, e)
  BY DEF Ends, CourseOK
<1> HIDE DEF e
<1>2. /\ n \in DOMAIN endings' /\ endings'[n] = e
      /\ \A m \in DOMAIN endings : m \in DOMAIN endings' /\ endings'[m] = endings[m]
  BY <1>1
<1>3. Interrupted => Interrupted'
  BY <1>2 DEF Interrupted
<1>4. ~e => Interrupted'
  BY <1>2 DEF Interrupted
<1> QED
  BY <1>3, <1>4 DEF e

LEMMA PlacesSame ==
  ASSUME PlacesInv, UNCHANGED <<stored, snap, unread, adding, input, batch, output>>,
         pc' \in {"read", "finalize"} => pc \in {"read", "finalize"}
  PROVE  PlacesInv'
BY DEF PlacesInv, Sorted, InOnePlace, InPipe, InBatch, InOutput

LEMMA CourseSame2 ==
  ASSUME CourseInv, UNCHANGED <<dbVars, pc, cancelled, fatal>>,
         pruned > status => pruned' > status
  PROVE  CourseInv'
BY DEF CourseInv, dbVars, Blank, Complete, HalfCleared, KeysOf

\* Between imports the process has no workers, so nothing is on its way.
LEMMA OutsideStep ==
  ASSUME Core, UNCHANGED InMemory,
         pc \notin {"read", "finalize"}, pc' \notin {"read", "finalize"},
         pc = "up" => pc' = "up"
  PROVE  WorkersInv' /\ PlacesInv'
<1>1. UNCHANGED <<batching, inserting, unread, adding, draining>>
  BY DEF InMemory, pipeVars
<1>2. WorkersInv'
  BY <1>1 DEF Core, WorkersInv
<1> QED
  BY <1>2 DEF PlacesInv

\* A process that ends leaves nothing in memory.
LEMMA ProcessEndsCore ==
  ASSUME ProcessEnds
  PROVE  WorkersInv' /\ PlacesInv' /\ pc' = "down" /\ cancelled' = FALSE
<1>1. /\ pc' = "down" /\ cancelled' = FALSE /\ unread' = {} /\ adding' = {}
      /\ draining' = 1 /\ batching' = {} /\ inserting' = {}
  BY DEF ProcessEnds, NoPipes
<1>2. WorkersInv'
  BY <1>1 DEF WorkersInv
<1>3. PlacesInv'
  BY <1>1 DEF PlacesInv
<1> QED
  BY <1>1, <1>2, <1>3

-----------------------------------------------------------------------------
(* The steps outside of an import.                                           *)

\* checkIndexerStatus decides for an import on blank tables only.
LEMMA CheckingCore ==
  ASSUME TypeOK, Core, Checking
  PROVE  Core'
<1>c. CourseInv
  BY DEF Core
<1>1. CASE Start
  <2>1. /\ pc = "down" /\ UNCHANGED <<dbVars, cancelled, fatal>> /\ UNCHANGED InMemory
        /\ pc' \in {"create", "fill", "clear", "up"}
        /\ pc' = CASE tables = "none" -> "create"
                   [] tables # "none" /\ status = NoSlot -> "fill"
                   [] status # NoSlot /\ pruned > status -> "clear"
                   [] OTHER -> "up"
    BY <1>1 DEF Start, InMemory
  <2>2. WorkersInv' /\ PlacesInv'
    BY <2>1, OutsideStep
  <2>3. UNCHANGED <<tables, stored, status, snap>>
    BY <2>1 DEF dbVars
  <2>p. pruned' = pruned
    BY <1>1 DEF Start, nodeVars
  <2>4. /\ Complete => Complete' /\ tables # "none" /\ status # NoSlot
        /\ Blank => Blank'
        /\ HalfCleared => HalfCleared'
    BY <2>3, <2>p DEF Complete, Blank, HalfCleared, KeysOf
  <2>a. ASSUME tables # "none", status # NoSlot
        PROVE  \/ pruned > status /\ pc' = "clear"
               \/ ~(pruned > status) /\ pc' = "up"
    BY <2>1, <2>a
  <2>b. ASSUME tables = "none", status = NoSlot
        PROVE  pc' = "create"
    BY <2>1, <2>b
  <2>d. ASSUME tables = "all", status = NoSlot
        PROVE  pc' = "fill"
    BY <2>1, <2>d
  <2>e. tables \in {"none", "status", "all"}
    BY DEF TypeOK
  <2>5. \/ Complete' /\ pc' = "up"
        \/ (Complete' \/ HalfCleared') /\ pruned' > status' /\ pc' = "clear"
        \/ Blank' /\ tables' = "none" /\ pc' = "create"
        \/ Blank' /\ tables' = "all" /\ pc' = "fill"
    <3>1. CASE Complete
      BY <3>1, <2>3, <2>4, <2>a, <2>p
    <3>2. CASE HalfCleared
      BY <3>2, <2>3, <2>4, <2>a, <2>p DEF HalfCleared
    <3>3. CASE Blank /\ tables # "status"
      BY <3>3, <2>3, <2>4, <2>b, <2>d, <2>e DEF Blank
    <3> QED
      BY <1>c, <2>1, <3>1, <3>2, <3>3 DEF CourseInv
  <2>6. CourseInv'
    BY <1>c, <2>1, <2>5 DEF CourseInv
  <2> QED
    BY <2>2, <2>6 DEF Core
<1>2. CASE DropOutputTables
  <2>1. /\ pc = "clear" /\ pc' = "clear" /\ tables' = "status" /\ stored' = {}
        /\ UNCHANGED <<pruned, status, cancelled, fatal>> /\ UNCHANGED InMemory
        /\ tables = "all"
    BY <1>2 DEF DropOutputTables, InMemory, nodeVars
  <2>2. WorkersInv' /\ PlacesInv'
    BY <2>1, OutsideStep
  <2>c. Complete
    BY <1>c, <2>1 DEF CourseInv, HalfCleared
  <2>h. HalfCleared' /\ pruned' > status'
    BY <1>c, <2>1, <2>c DEF CourseInv, Complete, HalfCleared
  <2>3. CourseInv'
    BY <1>c, <2>1, <2>h DEF CourseInv
  <2> QED
    BY <2>2, <2>3 DEF Core
<1>3. CASE DropStatusTable
  <2>1. /\ pc = "clear" /\ pc' = "create" /\ tables = "status" /\ tables' = "none"
        /\ status' = NoSlot /\ stored' = stored
        /\ UNCHANGED <<cancelled, fatal>> /\ UNCHANGED InMemory
    BY <1>3 DEF DropStatusTable, InMemory
  <2>2. WorkersInv' /\ PlacesInv'
    BY <2>1, OutsideStep
  <2>3. stored = {}
    BY <1>c, <2>1 DEF CourseInv, Complete, HalfCleared
  <2>4. CourseInv'
    BY <1>c, <2>1, <2>3 DEF CourseInv, Blank
  <2> QED
    BY <2>2, <2>4 DEF Core
<1>4. CASE CreateStatusTable \/ CreateOutputTables
  <2>1. /\ pc = "create" /\ pc' \in {"create", "fill"}
        /\ \/ pc' = "create" /\ tables' = "status"
           \/ pc' = "fill" /\ tables' = "all"
        /\ UNCHANGED <<stored, status, cancelled, fatal>> /\ UNCHANGED InMemory
    BY <1>4 DEF CreateStatusTable, CreateOutputTables, InMemory
  <2>2. WorkersInv' /\ PlacesInv'
    BY <2>1, OutsideStep
  <2>3. CourseInv'
    BY <1>c, <2>1 DEF CourseInv, Blank
  <2> QED
    BY <2>2, <2>3 DEF Core
<1> QED
  BY <1>1, <1>2, <1>3, <1>4 DEF Checking

\* An ending that interrupts nothing leaves a complete database, one without
\* rows, or one half cleared.
LEMMA EndingsCore ==
  ASSUME TypeOK, Core, ~Interrupted', ~Interrupted,
         StreamFails \/ WriteStatusFails \/ Stop \/ Cancel \/ CancelledEnds \/ Crash
  PROVE  Core'
<1>t. CourseOK
  BY TypeParts
<1>1. CASE StreamFails \/ WriteStatusFails \/ Cancel
  BY <1>1, <1>t, EndsInterrupts DEF StreamFails, WriteStatusFails, Cancel, Harmless
<1>2. CASE CancelledEnds
  BY <1>2 DEF CancelledEnds, Core, CourseInv
<1>3. CASE Stop \/ Crash
  <2>1. /\ Harmless /\ ProcessEnds
        /\ UNCHANGED <<pruned, tables, stored, status, snap, fatal>>
    BY <1>3, <1>t, EndsInterrupts DEF Stop, Crash, Harmless, nodeVars, dbVars
  <2>2. WorkersInv' /\ PlacesInv' /\ pc' = "down" /\ cancelled' = FALSE
    BY <2>1, ProcessEndsCore
  <2>3. Complete \/ HalfCleared \/ (Blank /\ tables # "status")
    BY <2>1 DEF Core, CourseInv, Harmless
  <2>4. Complete' \/ HalfCleared' \/ (Blank' /\ tables' # "status")
    BY <2>1, <2>3 DEF Complete, HalfCleared, Blank, KeysOf
  <2>5. CourseInv'
    BY <2>1, <2>2, <2>4 DEF Core, CourseInv
  <2> QED
    BY <2>2, <2>5 DEF Core
<1> QED
  BY <1>1, <1>2, <1>3

-----------------------------------------------------------------------------
(* The receiver.                                                             *)

\* The stream opens on blank tables with all entries unread.
LEMMA OpenStreamCore ==
  ASSUME TypeOK, Core, OpenStream
  PROVE  Core'
<1>1. /\ pc = "fill" /\ pc' = "read" /\ unread' = ledger /\ snap' = ledger
      /\ UNCHANGED <<tables, stored, cancelled, fatal, adding, draining>>
      /\ input' = [t \in Tables |-> {}] /\ closed' = {}
      /\ batch' = [w \in Tables \X Workers |-> {}] /\ output' = [t \in Tables |-> {}]
      /\ batching' = Tables \X Workers /\ inserting' = Tables \X Workers
  BY DEF OpenStream, EmptyPipes
<1>2. adding' = {} /\ draining' = 1 /\ stored' = {} /\ tables' = "all"
  BY <1>1 DEF Core, WorkersInv, CourseInv, Blank
<1>3. CourseInv'
  BY <1>1, <1>2 DEF Core, CourseInv
<1>4. WorkersInv'
  BY <1>1, <1>2 DEF WorkersInv
<1>5. \A t \in Tables : Sorted(t)'
  BY <1>1 DEF Sorted
<1>6. ASSUME NEW i \in Items PROVE InOnePlace(i)'
  <2>1. i.table \in Tables
    BY EntryFacts
  <2>2. /\ input'[i.table] = {} /\ output'[i.table] = {}
        /\ \A w \in Workers : batch'[<<i.table, w>>] = {}
    BY <1>1, <2>1
  <2> QED
    BY <1>1, <1>2, <2>2 DEF InOnePlace, InPipe, InBatch, InOutput
<1> QED
  BY <1>3, <1>4, <1>5, <1>6 DEF Core, PlacesInv

\* An output is taken from the stream with all its entries.
LEMMA AddOutputCore ==
  ASSUME TypeOK, Core, NEW o \in Outputs, AddOutput(o)
  PROVE  Core'
<1>1. /\ pc = "read" /\ adding = {} /\ o \in unread
      /\ unread' = unread \ {o} /\ adding' = ItemsOf[o]
      /\ UNCHANGED <<dbVars, pc, cancelled, pipeVars, draining, fatal>>
  BY DEF AddOutput
<1>2. UNCHANGED <<tables, stored, snap, input, closed, batch, batching, output, inserting>>
  BY <1>1 DEF dbVars, pipeVars
<1>p. pruned' = pruned
  BY DEF AddOutput, nodeVars
<1>3. CourseInv'
  BY <1>1, <1>p, CourseSame2 DEF Core
<1>4. WorkersInv'
  BY <1>1, <1>2 DEF Core, WorkersInv, Batching, Inserting
<1>5. \A t \in Tables : Sorted(t)'
  BY <1>1, <1>2 DEF Core, PlacesInv, Sorted
<1>6. ASSUME NEW i \in Items PROVE InOnePlace(i)'
  <2>1. InOnePlace(i)
    BY <1>1 DEF Core, PlacesInv
  <2>2. i \in adding' <=> i.of = o
    BY <1>1, EntryFacts, ItemsAssumption
  <2>3. /\ i.of \in unread' <=> i.of \in unread /\ i.of # o
        /\ i \notin adding
    BY <1>1
  <2>4. /\ InPipe(i)' <=> InPipe(i)
        /\ InOutput(i)' <=> InOutput(i)
        /\ \A w \in Workers : InBatch(i, w)' <=> InBatch(i, w)
    BY <1>2 DEF InPipe, InOutput, InBatch
  <2> QED
    BY <1>1, <1>2, <2>1, <2>2, <2>3, <2>4 DEF InOnePlace
<1> QED
  BY <1>3, <1>4, <1>5, <1>6 DEF Core, PlacesInv

\* An entry goes to the input channel of its table.
LEMMA EnqueueCore ==
  ASSUME TypeOK, Core, NEW e \in Items, Enqueue(e)
  PROVE  Core'
<1>1. /\ e \in adding
      /\ adding' = adding \ {e} /\ input' = [input EXCEPT ![e.table] = @ \cup {e}]
      /\ UNCHANGED <<dbVars, pc, cancelled, unread, closed, batch, batching, output,
                     inserting, draining, fatal>>
  BY DEF Enqueue
<1>2. UNCHANGED <<tables, stored, snap>>
  BY <1>1 DEF dbVars
<1>3. pc = "read" /\ closed = {}
  BY <1>1 DEF Core, WorkersInv
<1>t. input \in [Tables -> Batches] /\ e.table \in Tables
  BY EntryFacts DEF TypeOK
<1>4. /\ \A t \in Tables : t # e.table => input'[t] = input[t]
      /\ input'[e.table] = input[e.table] \cup {e}
  BY <1>1, <1>t
<1>p. pruned' = pruned
  BY DEF Enqueue, nodeVars
<1>5. CourseInv'
  BY <1>1, <1>p, CourseSame2 DEF Core
<1>6. WorkersInv'
  BY <1>1, <1>3 DEF Core, WorkersInv, Batching, Inserting
<1>7. \A t \in Tables : Sorted(t)'
  BY <1>1, <1>3, <1>4 DEF Core, PlacesInv, Sorted
<1>8. ASSUME NEW i \in Items PROVE InOnePlace(i)'
  <2>1. InOnePlace(i) /\ InOnePlace(e) /\ i.table \in Tables
    BY <1>3, EntryFacts DEF Core, PlacesInv
  <2>2. /\ i \in adding' <=> i \in adding /\ i # e
        /\ i \in input'[i.table] <=> i \in input[i.table] \/ i = e
    BY <1>1, <1>4, <2>1
  <2>3. /\ InOutput(i)' <=> InOutput(i)
        /\ \A w \in Workers : InBatch(i, w)' <=> InBatch(i, w)
    BY <1>1 DEF InOutput, InBatch
  <2>4. InPipe(i)' <=> InPipe(i) \/ i = e
    BY <2>2, <2>3 DEF InPipe
  <2>5. CASE i = e
    <3>1. i.of \notin unread /\ ~InPipe(i) /\ Key(i) \notin stored
      BY <1>1, <2>1, <2>5 DEF InOnePlace
    <3>2. i \in adding /\ i.of \in snap
      BY <1>1, <2>1, <2>5 DEF InOnePlace
    <3>3. ~InOutput(i) /\ \A w \in Workers : ~InBatch(i, w)
      BY <3>1 DEF InPipe
    <3> QED
      BY <1>1, <1>2, <2>1, <2>2, <2>3, <2>4, <2>5, <3>1, <3>2, <3>3 DEF InOnePlace
  <2>6. CASE i # e
    BY <1>1, <1>2, <2>1, <2>2, <2>3, <2>4, <2>6 DEF InOnePlace
  <2> QED
    BY <2>5, <2>6
<1> QED
  BY <1>5, <1>6, <1>7, <1>8 DEF Core, PlacesInv

\* The stream ends with nothing unread.
LEMMA StreamEndsCore ==
  ASSUME TypeOK, Core, StreamEnds
  PROVE  Core'
<1>1. /\ pc = "read" /\ pc' = "finalize" /\ unread = {} /\ adding = {}
      /\ UNCHANGED <<dbVars, InMemory, fatal>>
  BY DEF StreamEnds
<1>2. UNCHANGED <<tables, stored, snap, cancelled, unread, adding, draining, input, closed,
                  batch, batching, output, inserting>>
  BY <1>1 DEF dbVars, InMemory, pipeVars
<1>3. CourseInv'
  BY <1>1, <1>2 DEF Core, CourseInv
<1>4. WorkersInv'
  BY <1>1, <1>2 DEF Core, WorkersInv, Batching, Inserting
<1>5. PlacesInv'
  BY <1>1, <1>2, PlacesSame DEF Core
<1> QED
  BY <1>3, <1>4, <1>5 DEF Core

-----------------------------------------------------------------------------
(* The pipelines.                                                            *)

\* Workers run only during an import, and not on a cancelled context.
LEMMA WorkersRun ==
  ASSUME Core, batching # {} \/ inserting # {}
  PROVE  /\ pc \in {"read", "finalize"} /\ ~cancelled /\ tables = "all"
         /\ \A t \in Tables : Sorted(t)
         /\ \A i \in Items : InOnePlace(i)
BY DEF Core, WorkersInv, CourseInv, PlacesInv

\* A batcher moves an entry from the channel to its batch.
LEMMA BatcherReceivesCore ==
  ASSUME TypeOK, Core, NEW t \in Tables, NEW w \in Workers, BatcherReceives(t, w)
  PROVE  Core'
<1>w. /\ pc \in {"read", "finalize"} /\ ~cancelled
      /\ \A u \in Tables : Sorted(u)
      /\ \A i \in Items : InOnePlace(i)
      /\ <<t, w>> \in batching
  BY WorkersRun DEF BatcherReceives
<1>1. PICK e \in input[t] :
        /\ input' = [input EXCEPT ![t] = @ \ {e}]
        /\ batch' = [batch EXCEPT ![<<t, w>>] = @ \cup {e}]
        /\ batching' = batching
  BY <1>w DEF BatcherReceives
<1>2. UNCHANGED <<dbVars, pc, cancelled, unread, adding, closed, output, inserting,
                  draining, fatal>>
  BY DEF BatcherReceives
<1>3. UNCHANGED <<tables, stored, snap>>
  BY <1>2 DEF dbVars
<1>t. /\ input \in [Tables -> Batches] /\ batch \in [Tables \X Workers -> Batches]
      /\ <<t, w>> \in Tables \X Workers
  BY DEF TypeOK
<1>4. e \in Items /\ e.table = t
  BY <1>t, <1>w DEF Batches, Sorted
<1>5. /\ \A u \in Tables : input'[u] = IF u = t THEN input[u] \ {e} ELSE input[u]
      /\ \A u \in Tables, v \in Workers :
           batch'[<<u, v>>] = IF u = t /\ v = w THEN batch[<<u, v>>] \cup {e}
                                                ELSE batch[<<u, v>>]
  BY <1>1, <1>t
<1>p. pruned' = pruned
  BY DEF BatcherReceives, nodeVars
<1>6. CourseInv'
  BY <1>2, <1>p, CourseSame2 DEF Core
<1>7. WorkersInv'
  <2>1. ASSUME NEW u \in Tables, NEW v \in Workers, <<u, v>> \notin batching'
        PROVE  u \in closed' /\ input'[u] = {} /\ batch'[<<u, v>>] = {}
    <3>1. u \in closed /\ input[u] = {} /\ batch[<<u, v>>] = {}
      BY <1>1, <1>w, <2>1 DEF Core, WorkersInv
    <3>2. ~(u = t /\ v = w)
      BY <1>1, <1>w, <2>1
    <3> QED
      BY <1>2, <1>5, <3>1, <3>2
  <2> QED
    BY <1>1, <1>2, <1>w, <2>1 DEF Core, WorkersInv, Batching, Inserting
<1>8. ASSUME NEW u \in Tables PROVE Sorted(u)'
  <2>1. Sorted(u)
    BY <1>w
  <2>2. \A i \in input'[u] : i.table = u
    BY <1>5, <2>1 DEF Sorted
  <2>3. ASSUME NEW v \in Workers, NEW i \in batch'[<<u, v>>] PROVE i.table = u
    <3>1. CASE u = t /\ v = w
      <4>1. batch'[<<u, v>>] = batch[<<u, v>>] \cup {e}
        BY <1>5, <3>1
      <4>2. i \in batch[<<u, v>>] \/ i = e
        BY <2>3, <4>1
      <4> QED
        BY <1>4, <2>1, <3>1, <4>2 DEF Sorted
    <3>2. CASE ~(u = t /\ v = w)
      BY <1>5, <2>1, <2>3, <3>2 DEF Sorted
    <3> QED
      BY <3>1, <3>2
  <2> QED
    BY <1>2, <2>1, <2>2, <2>3 DEF Sorted
<1>9. ASSUME NEW i \in Items PROVE InOnePlace(i)'
  <2>1. InOnePlace(i) /\ i.table \in Tables /\ e \in input[e.table]
    BY <1>1, <1>4, <1>w, EntryFacts
  <2>a. i \in input'[i.table] <=> i \in input[i.table] /\ i # e
    BY <1>4, <1>5, <2>1
  <2>b. ASSUME NEW v \in Workers
        PROVE  InBatch(i, v)' <=> InBatch(i, v) \/ (i = e /\ v = w)
    <3>1. batch'[<<i.table, v>>] = IF i.table = t /\ v = w
                                   THEN batch[<<i.table, v>>] \cup {e}
                                   ELSE batch[<<i.table, v>>]
      BY <1>5, <2>1
    <3> QED
      BY <1>4, <3>1 DEF InBatch
  <2>2. /\ i \in input'[i.table] <=> i \in input[i.table] /\ i # e
        /\ \A v \in Workers : InBatch(i, v)' <=> InBatch(i, v) \/ (i = e /\ v = w)
    BY <2>a, <2>b
  <2>3. InOutput(i)' <=> InOutput(i)
    BY <1>2 DEF InOutput
  <2>4. InPipe(i)' <=> InPipe(i)
    BY <2>1, <2>2, <2>3 DEF InPipe
  <2>5. CASE i = e
    <3>1. i \in input[i.table] /\ ~InOutput(i) /\ \A v \in Workers : ~InBatch(i, v)
      BY <2>1, <2>5 DEF InOnePlace
    <3>2. \A u, v \in Workers : InBatch(i, u)' /\ InBatch(i, v)' => u = v
      BY <2>2, <3>1
    <3>3. i \notin input'[i.table] /\ ~InOutput(i)'
      BY <2>2, <2>3, <2>5, <3>1
    <3> QED
      BY <1>2, <1>3, <2>1, <2>4, <3>2, <3>3 DEF InOnePlace
  <2>6. CASE i # e
    BY <1>2, <1>3, <2>1, <2>2, <2>3, <2>4, <2>6 DEF InOnePlace
  <2> QED
    BY <2>5, <2>6
<1> QED
  BY <1>6, <1>7, <1>8, <1>9 DEF Core, PlacesInv

\* A batcher moves its batch to the output channel.
LEMMA BatcherSendsCore ==
  ASSUME TypeOK, Core, NEW t \in Tables, NEW w \in Workers, BatcherSends(t, w)
  PROVE  Core'
<1> DEFINE b0 == batch[<<t, w>>]
<1>w. /\ pc \in {"read", "finalize"} /\ ~cancelled
      /\ \A u \in Tables : Sorted(u)
      /\ \A i \in Items : InOnePlace(i)
      /\ <<t, w>> \in batching
  BY WorkersRun DEF BatcherSends, Sending
<1>1. /\ output' = [output EXCEPT ![t] = @ \cup {b0}]
      /\ batch' = [batch EXCEPT ![<<t, w>>] = {}]
      /\ UNCHANGED <<dbVars, pc, cancelled, unread, adding, input, closed, batching,
                     inserting, draining, fatal>>
  BY DEF BatcherSends
<1>3. UNCHANGED <<tables, stored, snap>>
  BY <1>1 DEF dbVars
<1>t. /\ output \in [Tables -> SUBSET Batches] /\ batch \in [Tables \X Workers -> Batches]
      /\ <<t, w>> \in Tables \X Workers
  BY DEF TypeOK
<1>4. \A i \in b0 : i \in Items /\ i.table = t
  BY <1>t, <1>w DEF Batches, Sorted
<1>5. /\ \A u \in Tables : output'[u] = IF u = t THEN output[u] \cup {b0} ELSE output[u]
      /\ \A u \in Tables, v \in Workers :
           batch'[<<u, v>>] = IF u = t /\ v = w THEN {} ELSE batch[<<u, v>>]
  BY <1>1, <1>t
<1> HIDE DEF b0
<1>p. pruned' = pruned
  BY DEF BatcherSends, nodeVars
<1>6. CourseInv'
  BY <1>1, <1>p, CourseSame2 DEF Core
<1>7. WorkersInv'
  <2>1. ASSUME NEW u \in Tables, NEW v \in Workers, <<u, v>> \notin batching'
        PROVE  u \in closed' /\ input'[u] = {} /\ batch'[<<u, v>>] = {}
    <3>1. u \in closed /\ input[u] = {} /\ batch[<<u, v>>] = {}
      BY <1>1, <1>w, <2>1 DEF Core, WorkersInv
    <3> QED
      BY <1>1, <1>5, <3>1
  <2>2. ASSUME NEW u \in Tables, NEW v \in Workers, <<u, v>> \notin inserting'
        PROVE  ~Batching(u)' /\ output'[u] = {}
    <3>1. ~Batching(u) /\ output[u] = {}
      BY <1>1, <1>w, <2>2 DEF Core, WorkersInv
    <3>2. u # t
      BY <1>w, <3>1 DEF Batching
    <3> QED
      BY <1>1, <1>5, <3>1, <3>2 DEF Batching
  <2> QED
    BY <1>1, <1>w, <2>1, <2>2 DEF Core, WorkersInv, Inserting
<1>8. ASSUME NEW u \in Tables PROVE Sorted(u)'
  <2>1. Sorted(u)
    BY <1>w
  <2>2. \A v \in Workers : \A i \in batch'[<<u, v>>] : i.table = u
    BY <1>5, <2>1 DEF Sorted
  <2>3. ASSUME NEW b \in output'[u], NEW i \in b PROVE i.table = u
    <3>1. b \in output[u] \/ (u = t /\ b = b0)
      BY <1>5, <2>3
    <3> QED
      BY <1>4, <2>1, <2>3, <3>1 DEF Sorted
  <2> QED
    BY <1>1, <2>1, <2>2, <2>3 DEF Sorted
<1>9. ASSUME NEW i \in Items PROVE InOnePlace(i)'
  <2>1. InOnePlace(i) /\ i.table \in Tables
    BY <1>w, EntryFacts
  <2>2. \A v \in Workers : InBatch(i, v)' <=> InBatch(i, v) /\ ~(i.table = t /\ v = w)
    BY <1>5, <2>1 DEF InBatch
  <2>3. output'[i.table] = IF i.table = t THEN output[i.table] \cup {b0}
                                          ELSE output[i.table]
    BY <1>5, <2>1
  <2>4. i \in b0 <=> i.table = t /\ InBatch(i, w)
    BY <1>4 DEF InBatch, b0
  <2>5. InOutput(i)' <=> InOutput(i) \/ i \in b0
    BY <2>3, <2>4 DEF InOutput
  <2>6. InPipe(i)' <=> InPipe(i)
    BY <1>1, <2>2, <2>4, <2>5 DEF InPipe
  <2>7. \A b, c \in output'[i.table] : i \in b /\ i \in c => b = c
    <3>1. i \in b0 => ~InOutput(i)
      BY <2>1, <2>4 DEF InOnePlace
    <3>2. \A b, c \in output[i.table] : i \in b /\ i \in c => b = c
      BY <2>1 DEF InOnePlace
    <3> QED
      BY <2>3, <3>1, <3>2 DEF InOutput
  <2>8. \A u, v \in Workers : InBatch(i, u)' /\ InBatch(i, v)' => u = v
    BY <2>1, <2>2 DEF InOnePlace
  <2>9. i \in input'[i.table] => ~InOutput(i)' /\ \A v \in Workers : ~InBatch(i, v)'
    BY <1>1, <2>1, <2>2, <2>4, <2>5 DEF InOnePlace
  <2>10. (\E v \in Workers : InBatch(i, v)') => ~InOutput(i)'
    <3>1. SUFFICES ASSUME NEW v \in Workers, InBatch(i, v)' PROVE ~InOutput(i)'
      OBVIOUS
    <3>2. InBatch(i, v) /\ ~(i.table = t /\ v = w)
      BY <2>2, <3>1
    <3>3. ~InOutput(i)
      BY <2>1, <3>2 DEF InOnePlace
    <3>4. i \notin b0
      BY <2>1, <2>4, <3>2 DEF InOnePlace
    <3> QED
      BY <2>5, <3>3, <3>4
  <2> QED
    BY <1>1, <1>3, <2>1, <2>6, <2>7, <2>8, <2>9, <2>10 DEF InOnePlace
<1> QED
  BY <1>6, <1>7, <1>8, <1>9 DEF Core, PlacesInv

\* A batcher leaves an empty channel and an empty batch.
LEMMA BatcherEndsCore ==
  ASSUME TypeOK, Core, NEW t \in Tables, NEW w \in Workers, BatcherEnds(t, w)
  PROVE  Core'
<1>1. /\ <<t, w>> \in batching
      /\ t \in closed /\ input[t] = {} /\ batch[<<t, w>>] = {}
      /\ batching' = batching \ {<<t, w>>}
      /\ UNCHANGED <<dbVars, pc, cancelled, unread, adding, input, closed, batch,
                     output, inserting, draining, fatal>>
  BY DEF BatcherEnds
<1>2. pc \in {"read", "finalize"}
  BY <1>1, WorkersRun
<1>p. pruned' = pruned
  BY DEF BatcherEnds, nodeVars
<1>3. CourseInv'
  BY <1>1, <1>p, CourseSame2 DEF Core
<1>4. PlacesInv'
  BY <1>1, PlacesSame DEF Core, dbVars
<1>5. WorkersInv'
  <2>1. ASSUME NEW u \in Tables, NEW v \in Workers, <<u, v>> \notin batching'
        PROVE  u \in closed' /\ input'[u] = {} /\ batch'[<<u, v>>] = {}
    <3>1. CASE u = t /\ v = w
      BY <1>1, <3>1
    <3>2. CASE ~(u = t /\ v = w)
      BY <1>1, <1>2, <2>1, <3>2 DEF Core, WorkersInv
    <3> QED
      BY <3>1, <3>2
  <2>2. ASSUME NEW u \in Tables, NEW v \in Workers, <<u, v>> \notin inserting'
        PROVE  ~Batching(u)' /\ output'[u] = {}
    BY <1>1, <1>2, <2>2 DEF Core, WorkersInv, Batching
  <2> QED
    BY <1>1, <1>2, <2>1, <2>2 DEF Core, WorkersInv, Inserting
<1> QED
  BY <1>3, <1>4, <1>5 DEF Core

\* An inserter moves a batch from the channel into the database.
LEMMA InserterStoresCore ==
  ASSUME TypeOK, KeysDistinct, Core, NEW t \in Tables, NEW w \in Workers,
         InserterStores(t, w)
  PROVE  Core'
<1>w. /\ pc \in {"read", "finalize"} /\ ~cancelled /\ tables = "all"
      /\ \A u \in Tables : Sorted(u)
      /\ \A i \in Items : InOnePlace(i)
  BY WorkersRun DEF InserterStores
<1>1. PICK b0 \in output[t] :
        /\ output' = [output EXCEPT ![t] = @ \ {b0}]
        /\ stored' = stored \cup {Key(i) : i \in b0}
  BY DEF InserterStores
<1>2. UNCHANGED <<tables, status, snap, pc, cancelled, unread, adding, input, closed,
                  batch, batching, inserting, draining, fatal>>
  BY DEF InserterStores
<1>t. output \in [Tables -> SUBSET Batches]
  BY DEF TypeOK
<1>4. \A i \in b0 : i \in Items /\ i.table = t
  BY <1>t, <1>w DEF Batches, Sorted
<1>5. \A u \in Tables : output'[u] = IF u = t THEN output[u] \ {b0} ELSE output[u]
  BY <1>1, <1>t
<1>6. CourseInv'
  BY <1>2, <1>w DEF Core, CourseInv
<1>7. WorkersInv'
  BY <1>2, <1>5, <1>w DEF Core, WorkersInv, Batching, Inserting
<1>8. ASSUME NEW u \in Tables PROVE Sorted(u)'
  BY <1>2, <1>5, <1>w DEF Sorted
<1>9. ASSUME NEW i \in Items PROVE InOnePlace(i)'
  <2>1. InOnePlace(i) /\ i.table \in Tables
    BY <1>w, EntryFacts
  <2>2. \A v \in Workers : InBatch(i, v)' <=> InBatch(i, v)
    BY <1>2 DEF InBatch
  <2>3. Key(i) \in stored' <=> Key(i) \in stored \/ i \in b0
    <3>1. \A j \in b0 : Key(j) = Key(i) => j = i
      BY <1>4 DEF KeysDistinct
    <3> QED
      BY <1>1, <3>1
  <2>4. output'[i.table] \subseteq output[i.table]
    BY <1>5, <2>1
  <2>5. i \in b0 => InOutput(i) /\ ~InOutput(i)'
    <3>1. SUFFICES ASSUME i \in b0 PROVE InOutput(i) /\ ~InOutput(i)'
      OBVIOUS
    <3>2. i.table = t /\ b0 \in output[i.table]
      BY <1>1, <1>4, <3>1
    <3>3. \A c \in output[i.table] : i \in c => c = b0
      BY <2>1, <3>1, <3>2 DEF InOnePlace
    <3>4. output'[i.table] = output[i.table] \ {b0}
      BY <1>5, <3>2
    <3> QED
      BY <3>1, <3>2, <3>3, <3>4 DEF InOutput
  <2>6. i \notin b0 => (InOutput(i)' <=> InOutput(i))
    <3>1. \A c : i \in c /\ i \notin b0 =>
                   (c \in output'[i.table] <=> c \in output[i.table])
      BY <1>5, <2>1
    <3> QED
      BY <3>1 DEF InOutput
  <2>7. CASE i \in b0
    <3>1. /\ i \notin input[i.table] /\ \A v \in Workers : ~InBatch(i, v)
          /\ i.of \notin unread /\ i \notin adding /\ i.of \in snap
      BY <2>1, <2>5, <2>7 DEF InOnePlace, InPipe
    <3>2. ~InPipe(i)'
      BY <1>2, <2>2, <2>5, <2>7, <3>1 DEF InPipe
    <3> QED
      BY <1>2, <2>1, <2>2, <2>3, <2>4, <2>5, <2>7, <3>1, <3>2 DEF InOnePlace
  <2>8. CASE i \notin b0
    <3>1. InPipe(i)' <=> InPipe(i)
      BY <1>2, <2>2, <2>6, <2>8 DEF InPipe
    <3> QED
      BY <1>2, <2>1, <2>2, <2>3, <2>4, <2>6, <2>8, <3>1 DEF InOnePlace
  <2> QED
    BY <2>7, <2>8
<1> QED
  BY <1>6, <1>7, <1>8, <1>9 DEF Core, PlacesInv

\* No batch is refused by the database.
LEMMA BatchesFit ==
  ASSUME TypeOK, KeysDistinct, Core, NEW t \in Tables, NEW w \in Workers
  PROVE  ~InserterDies(t, w)
<1>1. SUFFICES ASSUME InserterDies(t, w) PROVE FALSE
  OBVIOUS
<1>2. PICK b \in output[t] : tables # "all" \/ ~Fits(b)
  BY <1>1 DEF InserterDies
<1>w. /\ tables = "all"
      /\ \A u \in Tables : Sorted(u)
      /\ \A i \in Items : InOnePlace(i)
  BY <1>1, WorkersRun DEF InserterDies
<1>3. \A i \in b : i \in Items /\ i.table = t
  <2>1. output[t] \subseteq Batches /\ Sorted(t)
    BY <1>w DEF TypeOK
  <2> QED
    BY <1>2, <2>1 DEF Batches, Sorted
<1>4. \A i, j \in b : Key(i) = Key(j) => i = j
  BY <1>3 DEF KeysDistinct
<1>5. ASSUME NEW i \in b PROVE Key(i) \notin stored
  <2>1. InOutput(i) /\ InOnePlace(i)
    BY <1>2, <1>3, <1>5, <1>w DEF InOutput
  <2> QED
    BY <2>1 DEF InOnePlace, InPipe
<1> QED
  BY <1>2, <1>4, <1>5, <1>w DEF Fits

\* An inserter leaves an empty channel whose batchers have left.
LEMMA InserterEndsCore ==
  ASSUME TypeOK, Core, NEW t \in Tables, NEW w \in Workers, InserterEnds(t, w)
  PROVE  Core'
<1>w. pc \in {"read", "finalize"} /\ ~cancelled
  BY WorkersRun DEF InserterEnds
<1>1. /\ t \in closed /\ ~Batching(t) /\ output[t] = {}
      /\ inserting' = inserting \ {<<t, w>>}
      /\ UNCHANGED <<dbVars, pc, cancelled, unread, adding, input, closed, batch,
                     batching, output, draining, fatal>>
  BY <1>w DEF InserterEnds
<1>p. pruned' = pruned
  BY DEF InserterEnds, nodeVars
<1>3. CourseInv'
  BY <1>1, <1>p, CourseSame2 DEF Core
<1>4. PlacesInv'
  BY <1>1, PlacesSame DEF Core, dbVars
<1>5. WorkersInv'
  <2>1. ASSUME NEW u \in Tables, NEW v \in Workers, <<u, v>> \notin inserting'
        PROVE  ~Batching(u)' /\ output'[u] = {}
    <3>1. CASE u = t /\ v = w
      BY <1>1, <3>1 DEF Batching
    <3>2. CASE ~(u = t /\ v = w)
      BY <1>1, <1>w, <2>1, <3>2 DEF Core, WorkersInv, Batching
    <3> QED
      BY <3>1, <3>2
  <2>2. \A u \in Tables : ~Inserting(u) => ~Inserting(u)'
    BY <1>1 DEF Inserting
  <2>3. \A n \in 1..(draining - 1) : ~Inserting(DrainOrder[n])'
    BY <1>1, <1>w DEF Core, WorkersInv, Inserting
  <2> QED
    BY <1>1, <1>w, <2>1, <2>3 DEF Core, WorkersInv
<1> QED
  BY <1>3, <1>4, <1>5 DEF Core

-----------------------------------------------------------------------------
(* Finalize.                                                                 *)

LEMMA DrainingNat ==
  ASSUME NEW d \in 1..(Len(DrainOrder) + 1)
  PROVE  d \in Nat
<1>1. Len(DrainOrder) \in Nat
  BY DrainOrderAssumption
<1> QED
  BY <1>1

LEMMA CloseInputCore ==
  ASSUME TypeOK, Core, CloseInput
  PROVE  Core'
<1>1. /\ pc = "finalize" /\ closed \subseteq closed'
      /\ UNCHANGED <<dbVars, pc, cancelled, unread, adding, input, batch, batching,
                     output, inserting, draining, fatal>>
  BY DEF CloseInput
<1>p. pruned' = pruned
  BY DEF CloseInput, nodeVars
<1>3. CourseInv'
  BY <1>1, <1>p, CourseSame2 DEF Core
<1>4. PlacesInv'
  BY <1>1, PlacesSame DEF Core, dbVars
<1>5. WorkersInv'
  BY <1>1 DEF Core, WorkersInv, Batching, Inserting
<1> QED
  BY <1>3, <1>4, <1>5 DEF Core

LEMMA DrainNextCore ==
  ASSUME TypeOK, Core, DrainNext
  PROVE  Core'
<1>1. /\ pc = "finalize" /\ draining' = draining + 1
      /\ ~Inserting(DrainOrder[draining])
      /\ UNCHANGED <<dbVars, pc, cancelled, unread, adding, input, closed, batch,
                     batching, output, inserting, fatal>>
  BY DEF DrainNext, pipeVars
<1>p. pruned' = pruned
  BY DEF DrainNext, nodeVars
<1>3. CourseInv'
  BY <1>1, <1>p, CourseSame2 DEF Core
<1>4. PlacesInv'
  BY <1>1, PlacesSame DEF Core, dbVars
<1>5. \A n \in 1..(draining' - 1) : ~Inserting(DrainOrder[n])'
  <2>1. draining \in Nat
    BY DrainingNat DEF TypeOK
  <2>2. \A n \in 1..(draining' - 1) : n \in 1..(draining - 1) \/ n = draining
    BY <1>1, <2>1
  <2> QED
    BY <1>1, <2>2 DEF Core, WorkersInv, Inserting
<1>6. WorkersInv'
  BY <1>1, <1>5 DEF Core, WorkersInv, Batching
<1> QED
  BY <1>3, <1>4, <1>6 DEF Core

\* When every pipeline has been drained nothing is on its way any more, so the
\* status row stands for the whole ledger.
LEMMA WriteStatusCore ==
  ASSUME TypeOK, Core, WriteStatus
  PROVE  Core'
<1>1. /\ pc = "finalize" /\ pc' = "up" /\ Drained
      /\ status' = readSlot
      /\ UNCHANGED <<tables, stored, snap, InMemory, fatal>>
  BY DEF WriteStatus
<1>2. UNCHANGED <<cancelled, unread, adding, draining, batching, inserting>>
  BY <1>1 DEF InMemory, pipeVars
<1>3. unread = {} /\ adding = {}
  BY <1>1 DEF Core, WorkersInv
<1>4. ASSUME NEW t \in Tables PROVE ~Inserting(t)
  <2>1. PICK n \in DOMAIN DrainOrder : DrainOrder[n] = t
    BY DrainOrderAssumption
  <2>2. n \in 1..Len(DrainOrder) /\ Len(DrainOrder) \in Nat
    BY DrainOrderAssumption
  <2>3. draining > Len(DrainOrder) /\ draining \in Nat
    BY <1>1, DrainingNat DEF Drained, TypeOK
  <2>4. n \in 1..(draining - 1)
    BY <2>2, <2>3
  <2> QED
    BY <1>1, <2>1, <2>4 DEF Core, WorkersInv
<1>5. ASSUME NEW t \in Tables
      PROVE  /\ \A w \in Workers : <<t, w>> \notin inserting /\ <<t, w>> \notin batching
             /\ input[t] = {} /\ output[t] = {}
             /\ \A w \in Workers : batch[<<t, w>>] = {}
  <2>1. \A w \in Workers : <<t, w>> \notin inserting
    BY <1>4 DEF Inserting
  <2>2. ~Batching(t) /\ output[t] = {}
    BY <1>1, <2>1, BoundsAssumption DEF Core, WorkersInv
  <2>3. \A w \in Workers : <<t, w>> \notin batching
    BY <2>2 DEF Batching
  <2>4. input[t] = {} /\ \A w \in Workers : batch[<<t, w>>] = {}
    BY <1>1, <2>3, BoundsAssumption DEF Core, WorkersInv
  <2> QED
    BY <2>1, <2>2, <2>3, <2>4
<1>6. batching = {} /\ inserting = {}
  <2>1. batching \subseteq Tables \X Workers /\ inserting \subseteq Tables \X Workers
    BY DEF TypeOK
  <2>2. \A t \in Tables, w \in Workers : <<t, w>> \notin batching /\ <<t, w>> \notin inserting
    BY <1>5
  <2> QED
    BY <2>1, <2>2
<1>7. ASSUME NEW i \in Items PROVE i.of \in snap <=> Key(i) \in stored
  <2>1. i.table \in Tables /\ InOnePlace(i)
    BY <1>1, EntryFacts DEF Core, PlacesInv
  <2>2. ~InPipe(i)
    BY <1>5, <2>1 DEF InPipe, InBatch, InOutput
  <2> QED
    BY <1>3, <2>1, <2>2 DEF InOnePlace
<1>8. stored = KeysOf(snap)
  <2>1. ASSUME NEW k \in stored PROVE k \in KeysOf(snap)
    <3>1. PICK i \in Items : k = Key(i)
      BY DEF TypeOK
    <3>2. i.of \in snap /\ i \in ItemsOf[i.of]
      BY <1>7, <3>1, EntryFacts
    <3> QED
      BY <3>1, <3>2 DEF KeysOf
  <2>2. ASSUME NEW k \in KeysOf(snap) PROVE k \in stored
    <3>1. PICK i \in UNION {ItemsOf[o] : o \in snap} : k = Key(i)
      BY DEF KeysOf
    <3>2. PICK o \in snap : i \in ItemsOf[o]
      BY <3>1
    <3>3. o \in Outputs
      BY DEF TypeOK
    <3>4. i \in Items /\ i.of = o
      BY <3>2, <3>3, ItemsOfOutput, ItemsAssumption
    <3> QED
      BY <1>7, <3>1, <3>2, <3>4
  <2> QED
    BY <2>1, <2>2
<1>9. Complete'
  <2>1. tables = "all"
    BY <1>1 DEF Core, CourseInv
  <2>2. status' # NoSlot
    <3>1. readSlot \in 0..MaxSlot /\ MaxSlot \in Nat
      BY BoundsAssumption DEF TypeOK
    <3> QED
      BY <1>1, <3>1 DEF NoSlot
  <2> QED
    BY <1>1, <1>8, <2>1, <2>2 DEF Complete, KeysOf
<1>10. CourseInv'
  BY <1>1, <1>2, <1>9 DEF Core, CourseInv
<1>11. WorkersInv' /\ PlacesInv'
  BY <1>1, <1>2, <1>3, <1>6 DEF WorkersInv, PlacesInv
<1> QED
  BY <1>10, <1>11 DEF Core

-----------------------------------------------------------------------------
(* The whole.                                                                *)

\* What the node does meanwhile is no concern of an import.
LEMMA NodeMovesCore ==
  ASSUME TypeOK, Core, NodeMoves
  PROVE  Core'
<1>1. UNCHANGED <<dbVars, pc, cancelled, unread, adding, pipeVars, draining, fatal>>
  BY DEF NodeMoves
<1>p. pruned > status => pruned' > status
  <2>1. /\ pruned' \in pruned..slot
        /\ pruned \in 0..MaxSlot /\ slot \in 0..MaxSlot /\ status \in -1..MaxSlot
        /\ MaxSlot \in Nat
    BY BoundsAssumption DEF NodeMoves, TypeOK
  <2> QED
    BY <2>1
<1>2. CourseInv'
  BY <1>1, <1>p, CourseSame2 DEF Core
<1>3. PlacesInv'
  BY <1>1, PlacesSame DEF Core, dbVars, pipeVars
<1>4. WorkersInv'
  BY <1>1 DEF Core, WorkersInv, Batching, Inserting, pipeVars
<1> QED
  BY <1>2, <1>3, <1>4 DEF Core

\* A step that is not an ending of the process keeps the invariant.
LEMMA StepCore ==
  ASSUME TypeOK, KeysDistinct, Core,
         \/ NodeMoves \/ Checking \/ Receiving \/ Finalize
         \/ \E t \in Tables, w \in Workers : Batcher(t, w) \/ Inserter(t, w)
  PROVE  Core'
<1>1. CASE NodeMoves \/ Checking
  BY <1>1, NodeMovesCore, CheckingCore
<1>2. CASE Receiving
  BY <1>2, OpenStreamCore, StreamEndsCore, AddOutputCore, EnqueueCore DEF Receiving
<1>3. CASE Finalize
  BY <1>3, CloseInputCore, DrainNextCore, WriteStatusCore DEF Finalize
<1>4. ASSUME NEW t \in Tables, NEW w \in Workers, Batcher(t, w)
      PROVE  Core'
  BY <1>4, BatcherReceivesCore, BatcherSendsCore, BatcherEndsCore DEF Batcher
<1>5. ASSUME NEW t \in Tables, NEW w \in Workers, Inserter(t, w)
      PROVE  Core'
  BY <1>5, InserterStoresCore, BatchesFit, InserterEndsCore DEF Inserter
<1> QED
  BY <1>1, <1>2, <1>3, <1>4, <1>5

\* In the beginning there is nothing.
LEMMA InitCore ==
  ASSUME Init
  PROVE  Core
<1>1. /\ pc = "down" /\ ~cancelled /\ fatal = "never"
      /\ tables = "none" /\ stored = {} /\ status = NoSlot
      /\ unread = {} /\ adding = {} /\ draining = 1 /\ batching = {} /\ inserting = {}
  BY DEF Init
<1>2. CourseInv
  BY <1>1 DEF CourseInv, Blank
<1>3. WorkersInv
  BY <1>1 DEF WorkersInv
<1>4. PlacesInv
  BY <1>1 DEF PlacesInv
<1> QED
  BY <1>2, <1>3, <1>4 DEF Core

\* The endings are the ends' alone.
LEMMA EndingsSame ==
  ASSUME \/ NodeMoves \/ Checking \/ Receiving \/ Finalize \/ Running
         \/ \E t \in Tables, w \in Workers : Batcher(t, w) \/ Inserter(t, w)
         \/ UNCHANGED vars
  PROVE  Interrupted' <=> Interrupted
<1>1. endings' = endings
  <2>1. CASE NodeMoves \/ Running \/ UNCHANGED vars
    BY <2>1 DEF NodeMoves, Running, vars
  <2>2. CASE Checking
    BY <2>2 DEF Checking, Start, DropOutputTables, DropStatusTable,
                CreateStatusTable, CreateOutputTables
  <2>3. CASE Receiving
    BY <2>3 DEF Receiving, OpenStream, StreamEnds, AddOutput, Enqueue
  <2>4. CASE Finalize
    BY <2>4 DEF Finalize, CloseInput, DrainNext, WriteStatus
  <2>5. ASSUME NEW t \in Tables, NEW w \in Workers, Batcher(t, w) \/ Inserter(t, w)
        PROVE  endings' = endings
    BY <2>5 DEF Batcher, Inserter, BatcherReceives, BatcherSends, BatcherEnds,
                InserterStores, InserterDies, InserterEnds
  <2> QED
    BY <2>1, <2>2, <2>3, <2>4, <2>5
<1> QED
  BY <1>1 DEF Interrupted

\* As long as nothing has interrupted an import and no two entries share a
\* primary key, every entry of the ledger being imported is in exactly one
\* place - still in the stream, in AddOutput's hands, in an input channel, with
\* one batcher, in one batch of an output channel, or in the database - and a
\* worker, a table of Finalize and an import leave only empty places behind.
THEOREM ImportInvariance == Spec => []ImportInv
<1>1. Init => ImportInv
  BY InitType, InitCore DEF ImportInv, Core
<1>2. TypeOK /\ ImportInv /\ TypeOK' /\ [Next]_vars => ImportInv'
  <2> SUFFICES ASSUME TypeOK, ImportInv, TypeOK', [Next]_vars,
                      KeysDistinct, ~Interrupted'
               PROVE  Core'
    BY DEF ImportInv, Core, KeysDistinct
  <2> DEFINE Ending == StreamFails \/ WriteStatusFails \/ Stop \/ Cancel
                       \/ CancelledEnds \/ Crash
  <2>1. CASE Ending
    <3>1. ~Interrupted
      <4>1. CourseOK
        BY TypeParts
      <4>2. UNCHANGED endings \/ \E how : Ends(how)
        BY <2>1 DEF StreamFails, WriteStatusFails, Stop, Cancel, CancelledEnds, Crash
      <4>3. UNCHANGED endings => (Interrupted <=> Interrupted')
        BY DEF Interrupted
      <4> QED
        BY <4>1, <4>2, <4>3, EndsInterrupts
    <3>2. Core
      BY <3>1 DEF ImportInv, Core
    <3> QED
      BY <2>1, <3>1, <3>2, EndingsCore
  <2>2. CASE Running \/ UNCHANGED vars
    <3>1. UNCHANGED vars
      BY <2>2 DEF Running
    <3>2. Core
      BY <2>2, EndingsSame DEF ImportInv, Core
    <3>3. UNCHANGED <<dbVars, pc, cancelled, unread, adding, pipeVars, draining, fatal>>
      BY <3>1 DEF vars
    <3>p. pruned' = pruned
      BY <3>1 DEF vars, nodeVars
    <3>4. CourseInv'
      BY <3>2, <3>3, <3>p, CourseSame2 DEF Core
    <3>5. PlacesInv'
      BY <3>2, <3>3, PlacesSame DEF Core, dbVars, pipeVars
    <3>6. WorkersInv'
      BY <3>2, <3>3 DEF Core, WorkersInv, Batching, Inserting, pipeVars
    <3> QED
      BY <3>4, <3>5, <3>6 DEF Core
  <2>3. CASE \/ NodeMoves \/ Checking \/ Receiving \/ Finalize
             \/ \E t \in Tables, w \in Workers : Batcher(t, w) \/ Inserter(t, w)
    <3>1. Core
      BY <2>3, EndingsSame DEF ImportInv, Core
    <3> QED
      BY <2>3, <3>1, StepCore
  <2>4. ASSUME NEW t \in Tables, NEW w \in Workers, BatcherLeaves(t, w)
        PROVE  FALSE
    <3>1. cancelled /\ UNCHANGED endings
      BY <2>4 DEF BatcherLeaves
    <3> QED
      BY <3>1 DEF Interrupted, ImportInv, CourseInv
  <2> QED
    BY <2>1, <2>2, <2>3, <2>4 DEF Next
<1> QED
  BY <1>1, <1>2, ImportTypeCorrectness, PTL DEF Spec

\* Unless an import was interrupted, a process that comes up has a status row
\* and in its tables the rows of exactly the ledger that row stands for: of all
\* its outputs and of nothing else, however the batchers and the inserters of
\* the pipelines interleave, through restarts and repeated imports.
THEOREM ImportComplete ==
  ASSUME KeysDistinct
  PROVE  Spec => []UninterruptedIsComplete
<1>1. ImportInv => UninterruptedIsComplete
  BY DEF ImportInv, CourseInv, Complete, UninterruptedIsComplete, StatusMeansComplete
<1> QED
  BY <1>1, ImportInvariance, PTL

\* Unless an import was interrupted, fillIndexer starts on empty tables.
THEOREM ImportOnEmpty ==
  ASSUME KeysDistinct
  PROVE  Spec => []ImportStartsEmpty
<1>1. ImportInv => ImportStartsEmpty
  BY DEF ImportInv, CourseInv, Blank, ImportStartsEmpty
<1> QED
  BY <1>1, ImportInvariance, PTL

\* Unless an import was interrupted, no inserter ends the process: every batch
\* finds its table and no row of it is there already.
THEOREM ImportNeverFatal ==
  ASSUME KeysDistinct
  PROVE  Spec => []NeverFatal
<1>1. ImportInv => NeverFatal
  BY DEF ImportInv, CourseInv, NeverFatal
<1> QED
  BY <1>1, ImportInvariance, PTL
=============================================================================
