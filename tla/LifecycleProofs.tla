--------------------------- MODULE LifecycleProofs ---------------------------
(* Proofs about Lifecycle: what holds of the process for any import, any     *)
(* number of requests and any number of endings, in every order the daemon,  *)
(* the workers and the node can act in.                                      *)
EXTENDS Lifecycle, ImportProofs

Places == {"off", "wait", "check", "listen", "close", "register", "serve",
           "drain", "done"}
Troubles == {"updates", "accepted", "route", "drain", "node"}

-----------------------------------------------------------------------------
(* The parts of the invariant.                                               *)

\* The conjuncts of LifeTypeOK about the process and about the API.
ProcessOK ==
  /\ level \in Priorities \cup {NotStopping}
  /\ asked \in BOOLEAN /\ initialized \in BOOLEAN
  /\ worker \in [Priorities -> Places]
  /\ tick \in {"none", "idle", "writing"}
  /\ database \in {"open", "closed"}
  /\ trouble \in SUBSET Troubles

ApiOK ==
  /\ server \in {"none", "starting", "listening", "closed"}
  /\ route \in BOOLEAN

RequestsOK ==
  /\ request \in [Requests -> {"none", "asked", "read", "ok", "unavailable"}]
  /\ seen \in [Requests -> -1..MaxSlot]

LEMMA LifeParts ==
  LifeInv <=> /\ TypeOK /\ ProcessOK /\ ApiOK /\ RequestsOK
              /\ NothingLeft /\ StatusInv /\ ServerInv /\ DaemonInv
  BY DEF LifeInv, LifeTypeOK, ProcessOK, ApiOK, RequestsOK, Places, Troubles

LEMMA LifePartsNext ==
  /\ TypeOK' /\ ProcessOK' /\ ApiOK' /\ RequestsOK'
  /\ NothingLeft' /\ StatusInv' /\ ServerInv' /\ DaemonInv'
  => LifeInv'
  BY DEF LifeInv, LifeTypeOK, ProcessOK, ApiOK, RequestsOK, Places, Troubles

\* A part of which an action leaves everything alone, or almost, is kept.
LEMMA ProcessSame ==
  ProcessOK /\ UNCHANGED <<flags, initialized, worker, tick, database>> => ProcessOK'
  BY DEF ProcessOK, flags

LEMMA ApiSame == ApiOK /\ UNCHANGED apiVars => ApiOK'
  BY DEF ApiOK, apiVars

LEMMA RequestsSame == RequestsOK /\ UNCHANGED reqVars => RequestsOK'
  BY DEF RequestsOK, reqVars

LEMMA StatusSame ==
  StatusInv /\ UNCHANGED <<pc, status, initialized, server, reqVars>> => StatusInv'
  BY DEF StatusInv, reqVars

LEMMA ServerSame ==
  /\ ServerInv /\ UNCHANGED <<apiVars, request>>
  /\ worker'[API] = worker[API] /\ trouble' \in {trouble, trouble \cup {"node"},
       trouble \cup {"updates"}, trouble \cup {"accepted"}}
  => ServerInv'
  BY DEF ServerInv, apiVars, InFlight, At

LEMMA DaemonSame ==
  /\ DaemonInv /\ UNCHANGED <<pc, level, database>>
  /\ trouble \subseteq trouble'
  /\ worker'[Indexer] = worker[Indexer]
  /\ \A p \in Priorities : worker[p] = "done" => worker'[p] = "done"
  => DaemonInv'
  BY DEF DaemonInv, At, Alive

\* While the process lives nothing has to be as at its start.
LEMMA AliveNothing == Alive /\ UNCHANGED pc => NothingLeft'
  BY DEF Alive, NothingLeft

\* The workers have different priorities.
LEMMA PriorityFacts ==
  /\ Indexer \in Priorities /\ Accepted \in Priorities
  /\ API \in Priorities /\ Exporter \in Priorities
  /\ Indexer = 1 /\ Accepted = 2 /\ API = 3 /\ Exporter = 4
  /\ Priorities = {1, 2, 3, 4} /\ NotStopping = 5 /\ PriorityStopIndexer = 1
  BY DEF Priorities, Indexer, Accepted, API, Exporter, NotStopping,
         PriorityStopIndexer, PriorityStopIndexerAcceptedTransactions,
         PriorityStopIndexerAPI, PriorityStopPrometheus

\* A worker that goes somewhere is there, and the others stay.
LEMMA GoesFacts ==
  ASSUME ProcessOK, NEW p \in Priorities, NEW place \in Places, Goes(p, place)
  PROVE  /\ worker' \in [Priorities -> Places]
         /\ worker'[p] = place
         /\ \A q \in Priorities : q # p => worker'[q] = worker[q]
  BY DEF Goes, ProcessOK

\* Wherever a worker is, and whatever ticks, the process is alive.
LEMMA AliveFacts ==
  ASSUME LifeInv
  PROVE  /\ \A p \in Priorities : worker[p] # "off" => Alive
         /\ tick # "none" \/ asked \/ trouble # {} \/ level # NotStopping => Alive
         /\ server # "none" => Alive /\ pc = "up" /\ initialized
         /\ InFlight # {} => server # "none"
         /\ initialized => Alive
  <1>. USE LifeParts
  <1>1. pc = "down" => \A p \in Priorities : worker[p] = "off"
    BY DEF NothingLeft
  <1>. QED
    BY <1>1 DEF NothingLeft, StatusInv, ServerInv, Alive

\* With Import idle, its part stays well-typed.
LEMMA AsideType ==
  ASSUME TypeOK, Aside, UNCHANGED endings \/ \E how : Ends(how)
  PROVE  TypeOK' /\ UNCHANGED <<pc, status, slot>>
  <1>. USE TypeParts, TypePartsNext
  <1>1. CourseOK'
    <2>1. endings' \in Seq(BOOLEAN) /\ Len(endings') <= MaxEndings
      BY EndsType DEF CourseOK
    <2>. QED
      BY <2>1 DEF Aside, CourseOK
  <1>2. UNCHANGED <<nodeVars, dbVars, pipeVars, cancelled, unread, adding, readSlot, draining>>
    BY DEF Aside, InMemory
  <1>. QED
    BY <1>1, <1>2, NodeSame, DatabaseSame, PlaceSame, PipesSame
    DEF Aside, nodeVars, dbVars

LEMMA QuietType ==
  ASSUME TypeOK, Quietly
  PROVE  TypeOK' /\ UNCHANGED <<pc, status, slot>>
  BY AsideType DEF Quietly

\* A process that has ended leaves nothing but its database and its route.
LEMMA DiesInv ==
  ASSUME LifeInv, TypeOK', pc' = "down", Dies, route' \in BOOLEAN
  PROVE  LifeInv'
  <1>. USE LifePartsNext, PriorityFacts
  <1>1. ProcessOK'
    BY DEF Dies, ProcessOK, Places, Troubles
  <1>2. ApiOK' /\ RequestsOK'
    <2>1. -1 \in -1..MaxSlot
      BY BoundsAssumption
    <2>. QED
      BY <2>1 DEF Dies, ApiOK, RequestsOK, NoRequests, NoSlot
  <1>3. NothingLeft'
    BY DEF Dies, NothingLeft
  <1>4. InFlight' = {} /\ \A r \in Requests : request'[r] = "none"
    BY DEF Dies, NoRequests, InFlight
  <1>5. StatusInv'
    BY <1>4 DEF Dies, StatusInv
  <1>6. worker'[API] = "off"
    BY DEF Dies
  <1>7. ServerInv'
    BY <1>4, <1>6 DEF Dies, ServerInv, At
  <1>8. DaemonInv'
    BY DEF Dies, DaemonInv, Alive, At
  <1>. QED
    BY <1>1, <1>2, <1>3, <1>5, <1>7, <1>8

LEMMA OverInv ==
  ASSUME LifeInv, Over, UNCHANGED endings \/ \E how : Ends(how), route' \in BOOLEAN
  PROVE  LifeInv'
  <1>. USE LifeParts, TypeParts, TypePartsNext
  <1>1. pc' = "down" /\ Dies
    BY ProcessEndsType DEF Over
  <1>2. CourseOK'
    <2>1. endings' \in Seq(BOOLEAN) /\ Len(endings') <= MaxEndings
      BY EndsType DEF CourseOK
    <2>. QED
      BY <1>1, <2>1 DEF Over, CourseOK
  <1>3. TypeOK'
    BY <1>2, ProcessEndsType, NodeSame, DatabaseSame DEF Over
  <1>. QED
    BY <1>1, <1>3, DiesInv

-----------------------------------------------------------------------------
(* The steps of Import.                                                      *)

ImportStep ==
  \/ NodeMoves \/ Checking \/ Receiving \/ Finalize
  \/ \E t \in Tables, w \in Workers :
       Batcher(t, w) \/ BatcherLeaves(t, w) \/ Inserter(t, w)
  \/ CancelledEnds \/ Crash \/ StreamFails \/ WriteStatusFails

LEMMA ImportStepType ==
  ASSUME TypeOK, ImportStep
  PROVE  TypeOK'
  BY NodeMovesType, CheckingType, ReceivingType, BatcherType, BatcherLeavesType, InserterType,
     FinalizeType, EndingsType
  DEF ImportStep

LEMMA ProcessEndsDown == ProcessEnds => pc' = "down"
  BY DEF ProcessEnds

\* A process comes up with a status, and once it is up Import changes nothing
\* of the status, and nothing but its end follows.
LEMMA ImportStepStatus ==
  ASSUME TypeOK, pc = "up" => status # NoSlot, ImportStep
  PROVE  /\ pc' = "up" => status' # NoSlot
         /\ pc = "up" /\ pc' # "down" => pc' = "up" /\ status' = status
  <1>. USE ProcessEndsDown
  <1>1. CASE NodeMoves
    BY <1>1 DEF NodeMoves, dbVars
  <1>2. CASE Checking
    <2>1. CASE Start
      BY <2>1 DEF Start, dbVars
    <2>2. CASE DropOutputTables \/ DropStatusTable
      BY <2>2 DEF DropOutputTables, DropStatusTable
    <2>3. CASE CreateStatusTable \/ CreateOutputTables
      BY <2>3 DEF CreateStatusTable, CreateOutputTables
    <2>. QED
      BY <1>2, <2>1, <2>2, <2>3 DEF Checking
  <1>3. CASE Receiving
    <2>1. CASE OpenStream \/ StreamEnds
      BY <2>1 DEF OpenStream, StreamEnds, dbVars
    <2>2. ASSUME NEW o \in Outputs, AddOutput(o)
          PROVE  UNCHANGED <<pc, status, endings>>
      BY <2>2 DEF AddOutput, dbVars
    <2>3. ASSUME NEW i \in Items, Enqueue(i)
          PROVE  UNCHANGED <<pc, status, endings>>
      BY <2>3 DEF Enqueue, dbVars
    <2>. QED
      BY <1>3, <2>1, <2>2, <2>3 DEF Receiving
  <1>4. CASE Finalize
    <2>1. CASE CloseInput \/ DrainNext
      BY <2>1 DEF CloseInput, DrainNext, dbVars
    <2>2. CASE WriteStatus
      <3>1. readSlot \in 0..MaxSlot
        BY TypeParts DEF PlaceOK
      <3>2. readSlot # -1
        BY <3>1, BoundsAssumption
      <3>. QED
        BY <2>2, <3>2 DEF WriteStatus, NoSlot
    <2>. QED
      BY <1>4, <2>1, <2>2 DEF Finalize
  <1>5. ASSUME NEW t \in Tables, NEW w \in Workers, Batcher(t, w) \/ BatcherLeaves(t, w)
        PROVE  UNCHANGED <<pc, status, endings>>
    BY <1>5 DEF Batcher, BatcherLeaves, BatcherReceives, BatcherSends, BatcherEnds, dbVars
  <1>6. ASSUME NEW t \in Tables, NEW w \in Workers, Inserter(t, w)
        PROVE  /\ pc' = "down" \/ pc' = pc
               /\ UNCHANGED <<status, endings>>
    BY <1>6 DEF Inserter, InserterStores, InserterDies, InserterEnds, dbVars
  <1>7. CASE CancelledEnds \/ Crash \/ StreamFails \/ WriteStatusFails
    BY <1>7 DEF CancelledEnds, Crash, StreamFails, WriteStatusFails
  <1>. QED
    BY <1>1, <1>2, <1>3, <1>4, <1>5, <1>6, <1>7 DEF ImportStep

\* A step of Import keeps the invariant, whether it starts the process, ends it
\* or leaves the rest of it alone.
LEMMA WithinInv ==
  ASSUME LifeInv, Within(ImportStep)
  PROVE  LifeInv'
  <1>. USE LifeParts, LifePartsNext, PriorityFacts
  <1>1. ImportStep
    BY DEF Within
  <1>2. TypeOK'
    BY <1>1, ImportStepType
  <1>3. pc = "up" => status # NoSlot
    BY DEF StatusInv
  <1>4. /\ pc' = "up" => status' # NoSlot
        /\ pc = "up" /\ pc' # "down" => pc' = "up" /\ status' = status
    BY <1>1, <1>3, ImportStepStatus
  <1>5. CASE pc = "down" /\ pc' # "down"
    <2>1. Starts
      BY <1>5 DEF Within
    <2>2. /\ level = NotStopping /\ trouble = {} /\ ~initialized
          /\ server = "none" /\ InFlight = {}
      BY <1>5 DEF NothingLeft, StatusInv, ServerInv
    <2>3. /\ worker' \in [Priorities -> Places]
          /\ worker'[Indexer] = "check" /\ worker'[API] = "wait"
      BY <2>1 DEF Starts, Places
    <2>4. ProcessOK'
      BY <2>1, <2>3 DEF Starts, ProcessOK, flags
    <2>5. ApiOK' /\ RequestsOK'
      BY <2>1, ApiSame, RequestsSame DEF Starts
    <2>6. NothingLeft'
      BY <1>5 DEF NothingLeft
    <2>7. InFlight' = {}
      BY <2>1, <2>2 DEF Starts, InFlight, reqVars
    <2>8. StatusInv'
      BY <1>4, <2>1, <2>2, <2>7 DEF Starts, StatusInv, apiVars, InFlight
    <2>9. ServerInv'
      BY <2>1, <2>2, <2>3, <2>7 DEF Starts, ServerInv, apiVars, At
    <2>10. DaemonInv'
      BY <2>1, <2>2, <2>3 DEF Starts, DaemonInv, flags
    <2>. QED
      BY <1>2, <2>4, <2>5, <2>6, <2>8, <2>9, <2>10
  <1>6. CASE pc # "down" /\ pc' = "down"
    BY <1>2, <1>6, DiesInv DEF Within, ApiOK
  <1>7. CASE ~(pc = "down" /\ pc' # "down") /\ ~(pc # "down" /\ pc' = "down")
    <2>1. UNCHANGED lifeVars
      BY <1>7 DEF Within
    <2>2. ProcessOK' /\ ApiOK' /\ RequestsOK'
      BY <2>1, ProcessSame, ApiSame, RequestsSame DEF lifeVars
    <2>3. NothingLeft'
      BY <1>7, <2>1 DEF NothingLeft, lifeVars, flags
    <2>4. initialized => pc' = "up" /\ status' = status
      BY <1>4, <1>7 DEF StatusInv
    <2>5. InFlight # {} => initialized
      BY DEF ServerInv, StatusInv
    <2>6. StatusInv'
      BY <1>4, <2>1, <2>4, <2>5 DEF StatusInv, lifeVars, apiVars, reqVars, InFlight
    <2>7. ServerInv'
      BY <2>1, ServerSame DEF lifeVars, flags, reqVars
    <2>8. DaemonInv'
      BY <1>7, <2>1 DEF DaemonInv, At, Alive, lifeVars, flags
    <2>. QED
      BY <1>2, <2>2, <2>3, <2>6, <2>7, <2>8
  <1>. QED
    BY <1>5, <1>6, <1>7

-----------------------------------------------------------------------------
(* The daemon and the exporter.                                              *)

LEMMA ShutdownInv ==
  ASSUME LifeInv, Alive, Shutdown, UNCHANGED endings \/ \E how : Ends(how)
  PROVE  LifeInv'
  <1>. USE LifeParts, LifePartsNext, PriorityFacts
  <1>1. TypeOK' /\ UNCHANGED <<pc, status, slot>>
    BY AsideType DEF Shutdown
  <1>2. level = 5 /\ level' = 4
    BY DEF Shutdown, PriorityStopPrometheus
  <1>3. ProcessOK'
    BY <1>2 DEF Shutdown, ProcessOK
  <1>4. StatusInv' /\ ServerInv'
    BY <1>1, StatusSame, ServerSame DEF Shutdown, apiVars, reqVars
  <1>5. DaemonInv'
    BY <1>1, <1>2 DEF Shutdown, DaemonInv, At, Alive
  <1>. QED
    BY <1>1, <1>3, <1>4, <1>5, AliveNothing, ApiSame, RequestsSame DEF Shutdown

LEMMA StopNextInv ==
  ASSUME LifeInv, StopNext
  PROVE  LifeInv'
  <1>. USE LifeParts, LifePartsNext, PriorityFacts
  <1>1. /\ level \in {2, 3, 4} /\ level' = level - 1
        /\ At(level, "done")
    BY DEF StopNext
  <1>2. Alive
    BY <1>1, AliveFacts
  <1>3. TypeOK'
    <2>1. cancelled' \in BOOLEAN
      BY DEF StopNext
    <2>2. PlaceOK'
      BY <2>1, TypeParts DEF StopNext, PlaceOK
    <2>. QED
      BY <2>2, TypeParts, TypePartsNext, NodeSame, DatabaseSame, CourseSame, PipesSame
      DEF StopNext
  <1>4. ProcessOK'
    BY <1>1 DEF StopNext, ProcessOK
  <1>5. UNCHANGED <<pc, status>>
    BY DEF StopNext, dbVars
  <1>6. StatusInv' /\ ServerInv'
    BY <1>5, StatusSame, ServerSame DEF StopNext, apiVars, reqVars
  <1>7. DaemonInv'
    <2>1. ASSUME NEW p \in Priorities, p > level'
          PROVE  At(p, "done")'
      BY <1>1, <2>1 DEF StopNext, DaemonInv, At
    <2>2. level # PriorityStopIndexer
      BY <1>1
    <2>3. Alive' /\ (worker'[Indexer] \in {"close", "done"} \/ database' = "closed") =>
            trouble' \cap {"updates", "node"} # {}
      BY <1>5, <2>2 DEF StopNext, DaemonInv, Alive
    <2>. QED
      BY <2>1, <2>3 DEF DaemonInv
  <1>. QED
    BY <1>2, <1>3, <1>4, <1>5, <1>6, <1>7, AliveNothing, ApiSame, RequestsSame DEF StopNext

LEMMA ExporterStopsInv ==
  ASSUME LifeInv, ExporterStops
  PROVE  LifeInv'
  <1>. USE LifeParts, LifePartsNext, PriorityFacts
  <1>1. TypeOK' /\ UNCHANGED <<pc, status, slot>>
    BY QuietType DEF ExporterStops
  <1>2. Alive
    BY AliveFacts DEF ExporterStops, At
  <1>3. /\ worker' \in [Priorities -> Places] /\ worker'[Exporter] = "done"
        /\ \A q \in Priorities : q # Exporter => worker'[q] = worker[q]
    BY GoesFacts DEF ExporterStops, Places
  <1>4. ProcessOK'
    BY <1>3 DEF ExporterStops, ProcessOK, flags
  <1>5. StatusInv' /\ ServerInv' /\ DaemonInv'
    <2>1. StatusInv'
      BY <1>1, StatusSame DEF ExporterStops, apiVars
    <2>2. /\ worker'[API] = worker[API] /\ worker'[Indexer] = worker[Indexer]
          /\ \A p \in Priorities : worker[p] = "done" => worker'[p] = "done"
      BY <1>3
    <2>3. ServerInv'
      BY <2>2, ServerSame DEF ExporterStops, flags, reqVars
    <2>4. DaemonInv'
      BY <1>1, <2>2, DaemonSame DEF ExporterStops, flags
    <2>. QED
      BY <2>1, <2>3, <2>4
  <1>. QED
    BY <1>1, <1>2, <1>4, <1>5, AliveNothing, ApiSame, RequestsSame DEF ExporterStops

LEMMA NodeGoesInv ==
  ASSUME LifeInv, NodeGoes \/ InxAsks
  PROVE  LifeInv'
  <1>. USE LifeParts, LifePartsNext, PriorityFacts
  <1>1. TypeOK' /\ UNCHANGED <<pc, status, slot>>
    BY AsideType, QuietType DEF NodeGoes, InxAsks
  <1>2. Alive
    BY AliveFacts DEF NodeGoes, InxAsks
  <1>3. trouble' \in {trouble, trouble \cup {"node"}}
    BY DEF NodeGoes, InxAsks
  <1>4. ProcessOK'
    BY <1>3 DEF NodeGoes, InxAsks, ProcessOK, Troubles
  <1>5. StatusInv' /\ ServerInv' /\ DaemonInv'
    <2>1. StatusInv'
      BY <1>1, StatusSame DEF NodeGoes, InxAsks, apiVars
    <2>2. ServerInv'
      BY <1>3, ServerSame DEF NodeGoes, InxAsks, reqVars
    <2>3. DaemonInv'
      BY <1>1, <1>3, DaemonSame DEF NodeGoes, InxAsks
    <2>. QED
      BY <2>1, <2>2, <2>3
  <1>. QED
    BY <1>1, <1>2, <1>4, <1>5, AliveNothing, ApiSame, RequestsSame DEF NodeGoes, InxAsks

-----------------------------------------------------------------------------
(* The worker "Indexer".                                                     *)

LEMMA InitializedInv ==
  ASSUME LifeInv, Initialized
  PROVE  LifeInv'
  <1>. USE LifeParts, LifePartsNext, PriorityFacts
  <1>1. TypeOK' /\ UNCHANGED <<pc, status, slot>>
    BY QuietType DEF Initialized
  <1>2. Alive /\ pc = "up"
    BY DEF Initialized, Alive
  <1>3. /\ worker' \in [Priorities -> Places] /\ worker'[Indexer] = "listen"
        /\ \A q \in Priorities : q # Indexer => worker'[q] = worker[q]
    BY GoesFacts DEF Initialized, Places
  <1>4. ProcessOK'
    BY <1>3 DEF Initialized, ProcessOK, flags
  <1>5. StatusInv'
    BY <1>1, <1>2 DEF Initialized, StatusInv, apiVars, reqVars
  <1>6. ServerInv'
    BY <1>3, ServerSame DEF Initialized, flags, reqVars
  <1>7. DaemonInv'
    <2>1. worker[Indexer] = "check"
      BY DEF Initialized, At
    <2>2. ASSUME NEW p \in Priorities, p > level'
          PROVE  At(p, "done")'
      BY <1>3, <2>1, <2>2 DEF Initialized, DaemonInv, At, flags
    <2>3. Alive' /\ (worker'[Indexer] \in {"close", "done"} \/ database' = "closed") =>
            level' = PriorityStopIndexer \/ trouble' \cap {"updates", "node"} # {}
      BY <1>1, <1>3 DEF Initialized, DaemonInv, Alive, flags
    <2>. QED
      BY <2>2, <2>3 DEF DaemonInv
  <1>. QED
    BY <1>1, <1>2, <1>4, <1>5, <1>6, <1>7, AliveNothing, ApiSame, RequestsSame DEF Initialized

LEMMA LedgerUpdateInv ==
  ASSUME LifeInv, LedgerUpdate
  PROVE  LifeInv'
  <1>. USE LifeParts, LifePartsNext, PriorityFacts
  <1>1. /\ status \in -1..MaxSlot /\ slot \in 0..MaxSlot /\ MaxSlot \in Nat
        /\ status < slot /\ status' = status + 1
    BY BoundsAssumption, TypeParts DEF LedgerUpdate, NodeOK, DatabaseOK
  <1>2. DatabaseOK'
    BY <1>1, TypeParts DEF LedgerUpdate, DatabaseOK
  <1>3. TypeOK'
    BY <1>2, TypeParts, TypePartsNext, NodeSame, CourseSame, PlaceSame, PipesSame
    DEF LedgerUpdate, InMemory
  <1>4. Alive
    BY AliveFacts DEF LedgerUpdate, At
  <1>5. UNCHANGED pc /\ UNCHANGED lifeVars
    BY DEF LedgerUpdate
  <1>6. StatusInv'
    <2>1. status' # NoSlot
      BY <1>1 DEF NoSlot
    <2>2. \A r \in Requests : request[r] = "read" => seen[r] <= status'
      BY <1>1, BoundsAssumption DEF StatusInv, RequestsOK
    <2>. QED
      BY <1>5, <2>1, <2>2 DEF StatusInv, lifeVars, apiVars, reqVars
  <1>7. ServerInv' /\ DaemonInv'
    BY <1>5, ServerSame, DaemonSame DEF lifeVars, flags, reqVars
  <1>. QED
    BY <1>3, <1>4, <1>5, <1>6, <1>7, AliveNothing, ProcessSame, ApiSame, RequestsSame
    DEF lifeVars

\* The listener ends because the daemon has got to it, or with a trouble.
LEMMA ListenerInv ==
  ASSUME LifeInv, UpdatesFail \/ UpdatesEnd
  PROVE  LifeInv'
  <1>. USE LifeParts, LifePartsNext, PriorityFacts
  <1>1. TypeOK' /\ UNCHANGED <<pc, status, slot>>
    BY AsideType, QuietType DEF UpdatesFail, UpdatesEnd
  <1>2. worker[Indexer] = "listen" /\ Alive
    BY AliveFacts DEF UpdatesFail, UpdatesEnd, At
  <1>3. /\ worker' \in [Priorities -> Places] /\ worker'[Indexer] = "close"
        /\ \A q \in Priorities : q # Indexer => worker'[q] = worker[q]
    BY GoesFacts DEF UpdatesFail, UpdatesEnd, Places
  <1>4. trouble' \in {trouble, trouble \cup {"updates"}} /\ UNCHANGED level
    BY DEF UpdatesFail, UpdatesEnd, flags
  <1>5. ProcessOK'
    BY <1>3, <1>4 DEF UpdatesFail, UpdatesEnd, ProcessOK, Troubles, flags
  <1>6. StatusInv' /\ ServerInv'
    <2>1. StatusInv'
      BY <1>1, StatusSame DEF UpdatesFail, UpdatesEnd, apiVars
    <2>2. worker'[API] = worker[API]
      BY <1>3
    <2>3. ServerInv'
      BY <1>4, <2>2, ServerSame DEF UpdatesFail, UpdatesEnd, reqVars
    <2>. QED
      BY <2>1, <2>3
  <1>7. level' = PriorityStopIndexer \/ trouble' \cap {"updates", "node"} # {}
    <2>1. CASE UpdatesFail
      BY <2>1 DEF UpdatesFail
    <2>2. CASE UpdatesEnd
      BY <2>2 DEF UpdatesEnd, Done, flags, ProcessOK
    <2>. QED
      BY <2>1, <2>2
  <1>8. DaemonInv'
    BY <1>2, <1>3, <1>4, <1>7 DEF DaemonInv, At
  <1>. QED
    BY <1>1, <1>2, <1>5, <1>6, <1>8, AliveNothing, ApiSame, RequestsSame
    DEF UpdatesFail, UpdatesEnd

LEMMA CloseDatabaseInv ==
  ASSUME LifeInv, CloseDatabase
  PROVE  LifeInv'
  <1>. USE LifeParts, LifePartsNext, PriorityFacts
  <1>1. TypeOK' /\ UNCHANGED <<pc, status, slot>>
    BY QuietType DEF CloseDatabase
  <1>2. worker[Indexer] = "close" /\ Alive
    BY AliveFacts DEF CloseDatabase, At
  <1>3. /\ worker' \in [Priorities -> Places] /\ worker'[Indexer] = "done"
        /\ \A q \in Priorities : q # Indexer => worker'[q] = worker[q]
    BY GoesFacts DEF CloseDatabase, Places
  <1>4. ProcessOK'
    BY <1>3 DEF CloseDatabase, ProcessOK, flags
  <1>5. StatusInv' /\ ServerInv'
    <2>1. StatusInv'
      BY <1>1, StatusSame DEF CloseDatabase, apiVars
    <2>2. worker'[API] = worker[API]
      BY <1>3
    <2>3. ServerInv'
      BY <2>2, ServerSame DEF CloseDatabase, flags, reqVars
    <2>. QED
      BY <2>1, <2>3
  <1>6. DaemonInv'
    BY <1>2, <1>3 DEF CloseDatabase, DaemonInv, At, flags
  <1>. QED
    BY <1>1, <1>2, <1>4, <1>5, <1>6, AliveNothing, ApiSame, RequestsSame DEF CloseDatabase

-----------------------------------------------------------------------------
(* The worker of the accepted transactions and its ticker.                   *)

\* What the worker and its ticker do is nothing to the others.
LEMMA AcceptedFrame ==
  ASSUME LifeInv, TypeOK', ProcessOK', Alive,
         UNCHANGED <<pc, status, level, initialized, database, apiVars, reqVars>>,
         trouble' \in {trouble, trouble \cup {"accepted"}},
         \A p \in Priorities : p # Accepted => worker'[p] = worker[p],
         worker[Accepted] # "done" \/ worker'[Accepted] = "done"
  PROVE  LifeInv'
  <1>. USE LifeParts, LifePartsNext, PriorityFacts
  <1>1. StatusInv'
    BY StatusSame DEF apiVars
  <1>2. /\ worker'[API] = worker[API] /\ worker'[Indexer] = worker[Indexer]
        /\ \A p \in Priorities : worker[p] = "done" => worker'[p] = "done"
    OBVIOUS
  <1>3. ServerInv'
    BY <1>2, ServerSame DEF reqVars
  <1>4. DaemonInv'
    BY <1>2, DaemonSame
  <1>. QED
    BY <1>1, <1>3, <1>4, AliveNothing, ApiSame, RequestsSame

LEMMA AcceptedStartsInv ==
  ASSUME LifeInv, AcceptedStarts
  PROVE  LifeInv'
  <1>. USE LifeParts, PriorityFacts
  <1>1. TypeOK' /\ UNCHANGED <<pc, status, slot>>
    BY QuietType DEF AcceptedStarts
  <1>2. worker[Accepted] = "wait" /\ Alive
    BY AliveFacts DEF AcceptedStarts, At
  <1>3. PICK place \in {"done", "listen"} : Goes(Accepted, place)
    BY DEF AcceptedStarts
  <1>4. /\ worker' \in [Priorities -> Places]
        /\ \A q \in Priorities : q # Accepted => worker'[q] = worker[q]
    BY <1>3, GoesFacts DEF Places
  <1>5. ProcessOK'
    BY <1>4 DEF AcceptedStarts, ProcessOK, flags
  <1>. QED
    BY <1>1, <1>2, <1>4, <1>5, AcceptedFrame DEF AcceptedStarts, flags

LEMMA TickInv ==
  ASSUME LifeInv, TickBegins \/ TickEnds \/ TickFails
  PROVE  LifeInv'
  <1>. USE LifeParts, PriorityFacts
  <1>1. TypeOK' /\ UNCHANGED <<pc, status, slot>>
    BY QuietType, AsideType DEF TickBegins, TickEnds, TickFails
  <1>2. Alive
    BY AliveFacts DEF TickBegins, TickEnds, TickFails
  <1>3. UNCHANGED <<level, trouble, initialized, worker, database, apiVars, reqVars>>
    BY DEF TickBegins, TickEnds, TickFails, flags
  <1>4. tick' \in {"none", "idle", "writing"} /\ asked' \in BOOLEAN
    BY DEF TickBegins, TickEnds, TickFails, flags, ProcessOK
  <1>5. ProcessOK'
    BY <1>3, <1>4 DEF ProcessOK
  <1>. QED
    BY <1>1, <1>2, <1>3, <1>5, AcceptedFrame

LEMMA AcceptedEndsInv ==
  ASSUME LifeInv, AcceptedEnds
  PROVE  LifeInv'
  <1>. USE LifeParts, PriorityFacts
  <1>1. TypeOK' /\ UNCHANGED <<pc, status, slot>>
    BY AsideType DEF AcceptedEnds
  <1>2. Alive
    BY AliveFacts DEF AcceptedEnds, At
  <1>3. /\ worker' \in [Priorities -> Places] /\ worker'[Accepted] = "done"
        /\ \A q \in Priorities : q # Accepted => worker'[q] = worker[q]
    BY GoesFacts DEF AcceptedEnds, Places
  <1>4. trouble' \in {trouble, trouble \cup {"accepted"}} /\ asked' \in BOOLEAN
    BY DEF AcceptedEnds, ProcessOK
  <1>5. ProcessOK'
    BY <1>3, <1>4 DEF AcceptedEnds, ProcessOK, Troubles
  <1>. QED
    BY <1>1, <1>2, <1>3, <1>4, <1>5, AcceptedFrame DEF AcceptedEnds

-----------------------------------------------------------------------------
(* The API worker and its server.                                            *)

\* What they do is nothing to the others but for the server and the route.
LEMMA ApiFrame ==
  ASSUME LifeInv, TypeOK', ProcessOK', ApiOK', ServerInv', Alive,
         UNCHANGED <<pc, status, level, initialized, database, reqVars>>,
         server' # "none" => initialized,
         trouble \subseteq trouble',
         \A p \in Priorities : p # API => worker'[p] = worker[p],
         worker[API] # "done" \/ worker'[API] = "done"
  PROVE  LifeInv'
  <1>. USE LifeParts, LifePartsNext, PriorityFacts
  <1>1. StatusInv'
    BY DEF StatusInv, reqVars
  <1>2. /\ worker'[Indexer] = worker[Indexer]
        /\ \A p \in Priorities : worker[p] = "done" => worker'[p] = "done"
    OBVIOUS
  <1>3. DaemonInv'
    BY <1>2, DaemonSame
  <1>. QED
    BY <1>1, <1>3, AliveNothing, RequestsSame

\* The API worker at one place goes to another.
LEMMA ApiGoes ==
  ASSUME LifeInv, NEW from \in Places \ {"off"}, NEW to \in Places,
         At(API, from), Goes(API, to), Quietly
  PROVE  /\ TypeOK' /\ UNCHANGED <<pc, status>> /\ Alive
         /\ worker' \in [Priorities -> Places]
         /\ worker[API] = from /\ worker'[API] = to
         /\ \A q \in Priorities : q # API => worker'[q] = worker[q]
  BY LifeParts, QuietType, AliveFacts, GoesFacts, PriorityFacts DEF At

LEMMA ApiStartsInv ==
  ASSUME LifeInv, ApiStarts
  PROVE  LifeInv'
  <1>. USE LifeParts, PriorityFacts
  <1>1. CASE Goes(API, "done") /\ UNCHANGED server
    <2>1. /\ TypeOK' /\ UNCHANGED <<pc, status>> /\ Alive
          /\ worker' \in [Priorities -> Places]
          /\ worker[API] = "wait" /\ worker'[API] = "done"
          /\ \A q \in Priorities : q # API => worker'[q] = worker[q]
      BY <1>1, ApiGoes DEF ApiStarts, Places
    <2>2. server = "none" /\ InFlight = {}
      BY <2>1 DEF ServerInv, ApiOK
    <2>3. ProcessOK' /\ ApiOK'
      BY <1>1, <2>1 DEF ApiStarts, ProcessOK, ApiOK, flags
    <2>4. ServerInv'
      BY <1>1, <2>1, <2>2 DEF ApiStarts, ServerInv, InFlight, At, reqVars
    <2>. QED
      BY <1>1, <2>1, <2>2, <2>3, <2>4, ApiFrame DEF ApiStarts, flags
  <1>2. CASE initialized /\ Goes(API, "register") /\ server' = "starting"
    <2>1. /\ TypeOK' /\ UNCHANGED <<pc, status>> /\ Alive
          /\ worker' \in [Priorities -> Places]
          /\ worker[API] = "wait" /\ worker'[API] = "register"
          /\ \A q \in Priorities : q # API => worker'[q] = worker[q]
      BY <1>2, ApiGoes DEF ApiStarts, Places
    <2>2. server = "none" /\ InFlight = {}
      BY <2>1 DEF ServerInv, ApiOK
    <2>3. ProcessOK' /\ ApiOK'
      BY <1>2, <2>1 DEF ApiStarts, ProcessOK, ApiOK, flags
    <2>4. ServerInv'
      BY <1>2, <2>1, <2>2 DEF ApiStarts, ServerInv, InFlight, At, reqVars
    <2>. QED
      BY <1>2, <2>1, <2>3, <2>4, ApiFrame DEF ApiStarts, flags
  <1>. QED
    BY <1>1, <1>2 DEF ApiStarts

LEMMA ServerListensInv ==
  ASSUME LifeInv, ServerListens
  PROVE  LifeInv'
  <1>. USE LifeParts, PriorityFacts
  <1>1. TypeOK' /\ UNCHANGED <<pc, status, slot>>
    BY QuietType DEF ServerListens
  <1>2. Alive /\ initialized
    BY AliveFacts DEF ServerListens
  <1>3. ProcessOK' /\ ApiOK'
    BY ProcessSame DEF ServerListens, ApiOK
  <1>4. ServerInv'
    BY DEF ServerListens, ServerInv, InFlight, At, flags, reqVars
  <1>. QED
    BY <1>1, <1>2, <1>3, <1>4, ApiFrame DEF ServerListens, flags

LEMMA RegisterAPIRouteInv ==
  ASSUME LifeInv, RegisterAPIRoute
  PROVE  LifeInv'
  <1>. USE LifeParts, PriorityFacts
  <1>1. /\ TypeOK' /\ UNCHANGED <<pc, status>> /\ Alive
        /\ worker' \in [Priorities -> Places]
        /\ worker[API] = "register" /\ worker'[API] = "serve"
        /\ \A q \in Priorities : q # API => worker'[q] = worker[q]
    BY ApiGoes DEF RegisterAPIRoute, Places
  <1>2. ProcessOK' /\ ApiOK'
    BY <1>1 DEF RegisterAPIRoute, ProcessOK, ApiOK, flags
  <1>3. ServerInv'
    BY <1>1 DEF RegisterAPIRoute, ServerInv, InFlight, At, reqVars
  <1>4. server' # "none" => initialized
    BY AliveFacts DEF RegisterAPIRoute
  <1>. QED
    BY <1>1, <1>2, <1>3, <1>4, ApiFrame DEF RegisterAPIRoute, flags

LEMMA UnregisterAPIRouteInv ==
  ASSUME LifeInv, UnregisterAPIRoute
  PROVE  LifeInv'
  <1>. USE LifeParts, PriorityFacts
  <1>1. /\ TypeOK' /\ UNCHANGED <<pc, status>> /\ Alive
        /\ worker' \in [Priorities -> Places]
        /\ worker[API] = "serve" /\ worker'[API] = "close"
        /\ \A q \in Priorities : q # API => worker'[q] = worker[q]
    BY ApiGoes DEF UnregisterAPIRoute, Places
  <1>2. /\ trouble' \in {trouble, trouble \cup {"route"}}
        /\ route' \in BOOLEAN
        /\ route' => "route" \in trouble'
    BY DEF UnregisterAPIRoute, ApiOK
  <1>3. ProcessOK' /\ ApiOK'
    BY <1>1, <1>2 DEF UnregisterAPIRoute, ProcessOK, ApiOK, Troubles
  <1>4. ServerInv'
    BY <1>1, <1>2 DEF UnregisterAPIRoute, ServerInv, InFlight, At, reqVars
  <1>5. server' # "none" => initialized
    BY AliveFacts DEF UnregisterAPIRoute
  <1>. QED
    BY <1>1, <1>2, <1>3, <1>4, <1>5, ApiFrame DEF UnregisterAPIRoute

LEMMA CloseServerInv ==
  ASSUME LifeInv, CloseServer
  PROVE  LifeInv'
  <1>. USE LifeParts, PriorityFacts
  <1>1. /\ TypeOK' /\ UNCHANGED <<pc, status>> /\ Alive
        /\ worker' \in [Priorities -> Places]
        /\ worker[API] = "close" /\ worker'[API] = "drain"
        /\ \A q \in Priorities : q # API => worker'[q] = worker[q]
    BY ApiGoes DEF CloseServer, Places
  <1>2. ProcessOK' /\ ApiOK'
    BY <1>1 DEF CloseServer, ProcessOK, ApiOK, flags
  <1>3. server # "none"
    BY <1>1 DEF ServerInv
  <1>4. ServerInv'
    BY <1>1, <1>3 DEF CloseServer, ServerInv, InFlight, At, flags, reqVars
  <1>5. initialized
    BY <1>3, AliveFacts
  <1>. QED
    BY <1>1, <1>2, <1>4, <1>5, ApiFrame DEF CloseServer, flags

\* The wait for the requests is over: there are none, or it has timed out.
LEMMA DrainInv ==
  ASSUME LifeInv, RequestsDrain \/ DrainTimesOut
  PROVE  LifeInv'
  <1>. USE LifeParts, PriorityFacts
  <1>1. At(API, "drain") /\ Goes(API, "done") /\ Quietly
    BY DEF RequestsDrain, DrainTimesOut
  <1>2. /\ TypeOK' /\ UNCHANGED <<pc, status>> /\ Alive
        /\ worker' \in [Priorities -> Places]
        /\ worker[API] = "drain" /\ worker'[API] = "done"
        /\ \A q \in Priorities : q # API => worker'[q] = worker[q]
    BY <1>1, ApiGoes DEF Places
  <1>3. /\ trouble' \in {trouble, trouble \cup {"drain"}}
        /\ InFlight = {} \/ "drain" \in trouble'
        /\ UNCHANGED <<level, asked, initialized, tick, database, apiVars, reqVars>>
    BY DEF RequestsDrain, DrainTimesOut, flags
  <1>4. ProcessOK'
    BY <1>2, <1>3 DEF ProcessOK, Troubles
  <1>5. ApiOK'
    BY <1>3, ApiSame
  <1>6. ServerInv'
    BY <1>2, <1>3 DEF ServerInv, InFlight, At, apiVars, reqVars
  <1>7. server' # "none" => initialized
    BY <1>3, AliveFacts DEF apiVars
  <1>. QED
    BY <1>2, <1>3, <1>4, <1>5, <1>6, <1>7, ApiFrame

-----------------------------------------------------------------------------
(* The requests.                                                             *)

\* A request moves on. One that has read a status has read the present one.
LEMMA RequestFrame ==
  ASSUME LifeInv, NEW r \in Requests,
         NEW s \in {"none", "asked", "read", "ok", "unavailable"},
         Answers(r, s), server \in {"listening", "closed"},
         request[r] # "none" \/ server = "listening",
         seen' \in [Requests -> -1..MaxSlot],
         \A q \in Requests : q # r => seen'[q] = seen[q],
         s = "read" => seen'[r] <= status
  PROVE  LifeInv'
  <1>. USE LifeParts, LifePartsNext, PriorityFacts
  <1>1. TypeOK' /\ UNCHANGED <<pc, status, slot>>
    BY QuietType DEF Answers
  <1>2. Alive
    BY AliveFacts
  <1>3. /\ request' \in [Requests -> {"none", "asked", "read", "ok", "unavailable"}]
        /\ request'[r] = s
        /\ \A q \in Requests : q # r => request'[q] = request[q]
    BY DEF Answers, RequestsOK
  <1>4. UNCHANGED <<flags, initialized, worker, tick, database, apiVars>>
    BY DEF Answers
  <1>5. ProcessOK' /\ ApiOK' /\ RequestsOK'
    BY <1>3, <1>4, ProcessSame, ApiSame DEF RequestsOK
  <1>6. StatusInv'
    <2>1. \A q \in Requests : request'[q] = "read" => seen'[q] <= status'
      BY <1>1, <1>3 DEF StatusInv
    <2>. QED
      BY <1>1, <1>4, <2>1 DEF StatusInv, apiVars
  <1>7. ServerInv'
    <2>1. InFlight' # {} => server \in {"listening", "closed"}
      OBVIOUS
    <2>2. At(API, "done") => InFlight' = {} \/ InFlight # {}
      <3>1. At(API, "done") => server # "listening"
        BY DEF ServerInv, At
      <3>. QED
        BY <3>1 DEF InFlight
    <2>. QED
      BY <1>4, <2>1, <2>2 DEF ServerInv, At, apiVars, flags
  <1>8. DaemonInv'
    BY <1>1, <1>4, DaemonSame DEF flags
  <1>. QED
    BY <1>1, <1>2, <1>5, <1>6, <1>7, <1>8, AliveNothing

LEMMA RequestInv ==
  ASSUME LifeInv, NEW r \in Requests, Arrives(r) \/ Handler(r)
  PROVE  LifeInv'
  <1>. USE LifeParts
  <1>1. /\ seen \in [Requests -> -1..MaxSlot]
        /\ status \in -1..MaxSlot
        /\ -1 \in -1..MaxSlot
    BY BoundsAssumption, TypeParts DEF RequestsOK, DatabaseOK
  <1>2. request[r] # "none" => server \in {"listening", "closed"}
    BY DEF ServerInv, InFlight
  <1>3. CASE Arrives(r)
    BY <1>1, <1>3, RequestFrame DEF Arrives
  <1>4. CASE ReadStatus(r)
    <2>1. CASE Answers(r, "read") /\ seen' = [seen EXCEPT ![r] = status]
      <3>1. status <= status
        BY <1>1
      <3>. QED
        BY <1>1, <1>2, <1>4, <2>1, <3>1, RequestFrame DEF ReadStatus
    <2>2. CASE Answers(r, "unavailable") /\ UNCHANGED seen
      BY <1>1, <1>2, <1>4, <2>2, RequestFrame DEF ReadStatus
    <2>. QED
      BY <1>4, <2>1, <2>2 DEF ReadStatus
  <1>5. CASE Answer(r)
    <2>1. PICK s \in {"ok", "unavailable"} : Answers(r, s)
      BY <1>5 DEF Answer
    <2>2. /\ seen' \in [Requests -> -1..MaxSlot]
          /\ \A q \in Requests : q # r => seen'[q] = seen[q]
      BY <1>1, <1>5 DEF Answer, NoSlot
    <2>. QED
      BY <1>2, <1>5, <2>1, <2>2, RequestFrame DEF Answer
  <1>6. CASE Leaves(r)
    BY <1>1, <1>2, <1>6, RequestFrame DEF Leaves
  <1>. QED
    BY <1>3, <1>4, <1>5, <1>6 DEF Handler

-----------------------------------------------------------------------------
(* The steps of the process, and its ends.                                   *)

LEMMA EndsInv ==
  ASSUME LifeInv, Exit \/ ServerFails \/ RegisterFails
  PROVE  LifeInv'
  <1>1. Over /\ (UNCHANGED endings \/ \E how : Ends(how))
    BY DEF Exit, ServerFails, RegisterFails
  <1>2. route' \in BOOLEAN
    BY LifeParts DEF Exit, ServerFails, RegisterFails, ApiOK
  <1>. QED
    BY <1>1, <1>2, OverInv

\* Every step of Import that the process takes is taken within it.
LEMMA WithinSteps ==
  ASSUME \/ Within(NodeMoves) \/ Within(Checking) \/ Within(Receiving) \/ Within(Finalize)
         \/ \E t \in Tables, w \in Workers : Importing(t, w)
         \/ FillCancelled
         \/ Within(Crash) \/ Within(StreamFails) \/ Within(WriteStatusFails)
  PROVE  Within(ImportStep)
  BY DEF Within, Importing, FillCancelled, ImportStep

LEMMA LifeNextInv ==
  ASSUME LifeInv, LifeNext
  PROVE  LifeInv'
  <1>1. CASE \/ Within(NodeMoves) \/ Within(Checking) \/ Within(Receiving) \/ Within(Finalize)
             \/ \E t \in Tables, w \in Workers : Importing(t, w)
             \/ FillCancelled
             \/ Within(Crash) \/ Within(StreamFails) \/ Within(WriteStatusFails)
    BY <1>1, WithinSteps, WithinInv
  <1>2. CASE Daemon \/ Signal \/ ExporterStops \/ NodeGoes \/ InxAsks
    <2>1. CASE ShutdownAsked
      BY <2>1, ShutdownInv, AliveFacts DEF ShutdownAsked
    <2>2. CASE Signal
      BY <2>2, ShutdownInv DEF Signal
    <2>. QED
      BY <1>2, <2>1, <2>2, StopNextInv, EndsInv, ExporterStopsInv, NodeGoesInv DEF Daemon
  <1>3. CASE IndexerWorker \/ UpdatesFail
    BY <1>3, InitializedInv, LedgerUpdateInv, ListenerInv, CloseDatabaseInv DEF IndexerWorker
  <1>4. CASE AcceptedWorker \/ TickBegins \/ TickEnds \/ TickFails \/ AcceptedEnds
    BY <1>4, AcceptedStartsInv, TickInv, AcceptedEndsInv DEF AcceptedWorker
  <1>5. CASE ApiWorker \/ ServerListens \/ ServerFails \/ RegisterFails \/ DrainTimesOut
    BY <1>5, ApiStartsInv, ServerListensInv, RegisterAPIRouteInv, UnregisterAPIRouteInv,
       CloseServerInv, DrainInv, EndsInv
    DEF ApiWorker
  <1>6. ASSUME NEW r \in Requests, Arrives(r) \/ Handler(r)
        PROVE  LifeInv'
    BY <1>6, RequestInv
  <1>. QED
    BY <1>1, <1>2, <1>3, <1>4, <1>5, <1>6 DEF LifeNext

LEMMA LifeStutterInv ==
  ASSUME LifeInv, UNCHANGED allVars
  PROVE  LifeInv'
  <1>. USE LifeParts, LifePartsNext
  <1>1. UNCHANGED vars /\ UNCHANGED lifeVars
    BY DEF allVars
  <1>2. UNCHANGED <<pc, status>>
    BY <1>1 DEF vars, dbVars
  <1>3. TypeOK'
    BY <1>1, TypeParts, TypePartsNext, NodeSame, DatabaseSame, CourseSame, PlaceSame,
       PipesSame
    DEF vars
  <1>4. ProcessOK' /\ ApiOK' /\ RequestsOK'
    BY <1>1, ProcessSame, ApiSame, RequestsSame DEF lifeVars
  <1>5. NothingLeft'
    BY <1>1, <1>2 DEF NothingLeft, lifeVars, flags
  <1>6. StatusInv' /\ ServerInv'
    BY <1>1, <1>2, StatusSame, ServerSame DEF lifeVars, flags, apiVars, reqVars
  <1>7. DaemonInv'
    BY <1>1, <1>2, DaemonSame DEF lifeVars, flags
  <1>. QED
    BY <1>3, <1>4, <1>5, <1>6, <1>7

LEMMA LifeInitInv ==
  ASSUME LifeInit
  PROVE  LifeInv
  <1>. USE PriorityFacts
  <1>1. TypeOK /\ pc = "down"
    BY InitType DEF LifeInit, Init
  <1>2. worker \in [Priorities -> Places] /\ worker[API] = "off"
    BY DEF LifeInit, Places
  <1>3. ProcessOK /\ ApiOK
    BY <1>2 DEF LifeInit, ProcessOK, ApiOK
  <1>4. RequestsOK
    <2>1. -1 \in -1..MaxSlot
      BY BoundsAssumption
    <2>. QED
      BY <2>1 DEF LifeInit, RequestsOK, NoSlot
  <1>5. NothingLeft
    BY DEF LifeInit, NothingLeft
  <1>6. InFlight = {}
    BY DEF LifeInit, InFlight
  <1>7. StatusInv
    BY <1>1 DEF LifeInit, StatusInv
  <1>8. ServerInv
    BY <1>2, <1>6 DEF LifeInit, ServerInv, At
  <1>9. DaemonInv
    BY <1>1 DEF LifeInit, DaemonInv, Alive
  <1>. QED
    BY <1>1, <1>3, <1>4, <1>5, <1>7, <1>8, <1>9, LifeParts

-----------------------------------------------------------------------------
(* The theorems.                                                             *)

\* The invariant: what the daemon, the workers, the server, the route and the
\* requests know of each other.
THEOREM LifeInvariance == LifeSpec => []LifeInv
  <1>1. LifeInit => LifeInv
    BY LifeInitInv
  <1>2. LifeInv /\ [LifeNext]_allVars => LifeInv'
    BY LifeNextInv, LifeStutterInv
  <1>. QED
    BY <1>1, <1>2, PTL DEF LifeSpec

\* The API is never served from an index without a status row: whoever asks it
\* asks a ledger (indexerInitWait, checkIndexerStatus).
THEOREM ServedWithStatus == LifeSpec => []ServedIndexHasStatus
  <1>1. LifeInv => ServedIndexHasStatus
    BY LifeParts DEF StatusInv, ServedIndexHasStatus
  <1>. QED
    BY <1>1, LifeInvariance, PTL

\* In an orderly shutdown the database is closed after every other worker has
\* returned and every request has been answered (pkg/daemon/shutdown.go).
THEOREM DatabaseClosedLast == LifeSpec => []ClosedLast
  <1>1. LifeInv => ClosedLast
    <2>. SUFFICES ASSUME LifeInv, Alive, database = "closed",
                         trouble \cap {"updates", "drain", "node"} = {}
                  PROVE  /\ InFlight = {} /\ server # "listening"
                         /\ At(Accepted, "done") /\ At(API, "done") /\ At(Exporter, "done")
      BY DEF ClosedLast
    <2>. USE LifeParts, PriorityFacts
    <2>1. level = 1
      BY DEF DaemonInv
    <2>2. At(Accepted, "done") /\ At(API, "done") /\ At(Exporter, "done")
      BY <2>1 DEF DaemonInv
    <2>3. InFlight = {} /\ server # "listening"
      BY <2>2 DEF ServerInv, At
    <2>. QED
      BY <2>2, <2>3
  <1>. QED
    BY <1>1, LifeInvariance, PTL

\* The node forwards no request to a server that has been closed, unless it could
\* not be told (UnregisterAPIRoute before Echo.Shutdown).
THEOREM RouteGoesFirst == LifeSpec => []NoRouteToClosedServer
  <1>1. LifeInv => NoRouteToClosedServer
    BY LifeParts DEF ServerInv, NoRouteToClosedServer
  <1>. QED
    BY <1>1, LifeInvariance, PTL

-----------------------------------------------------------------------------
(* What health answers.                                                      *)

\* The handlers are the only ones that answer; an end drops every request.
LEMMA OnlyHandlersAnswer ==
  ASSUME [LifeNext]_allVars
  PROVE  \/ request' = request
         \/ request' = [r \in Requests |-> "none"]
         \/ \E r \in Requests : Arrives(r) \/ Handler(r)
  <1>. DEFINE Kept == request' = request \/ request' = [r \in Requests |-> "none"]
  <1>1. CASE UNCHANGED allVars
    BY <1>1 DEF allVars, lifeVars, reqVars
  <1>2. Over => Kept
    BY DEF Over, Dies, NoRequests
  <1>3. CASE Within(ImportStep)
    BY <1>3 DEF Within, Starts, Dies, NoRequests, lifeVars, reqVars
  <1>4. CASE Daemon \/ Signal \/ ExporterStops \/ NodeGoes \/ InxAsks
    BY <1>2, <1>4
    DEF Daemon, ShutdownAsked, StopNext, Exit, Signal, Shutdown, ExporterStops,
        NodeGoes, InxAsks, reqVars
  <1>5. CASE IndexerWorker \/ UpdatesFail
    BY <1>5
    DEF IndexerWorker, Initialized, LedgerUpdate, UpdatesEnd, CloseDatabase,
        UpdatesFail, lifeVars, reqVars
  <1>6. CASE AcceptedWorker \/ TickBegins \/ TickEnds \/ TickFails \/ AcceptedEnds
    BY <1>6
    DEF AcceptedWorker, AcceptedStarts, TickBegins, TickEnds, TickFails, AcceptedEnds,
        reqVars
  <1>7. CASE ApiWorker \/ ServerListens \/ ServerFails \/ RegisterFails \/ DrainTimesOut
    BY <1>2, <1>7
    DEF ApiWorker, ApiStarts, ServerListens, ServerFails, RegisterAPIRoute, RegisterFails,
        UnregisterAPIRoute, CloseServer, RequestsDrain, DrainTimesOut, reqVars
  <1>. QED
    BY <1>1, <1>3, <1>4, <1>5, <1>6, <1>7, WithinSteps DEF LifeNext

\* Health says OK only if the index is within the threshold of the node at that
\* moment: the status it has read is not ahead of the present one (RouteHealth).
THEOREM HealthTells == LifeSpec => HealthIsSound
  <1>1. ASSUME LifeInv, [LifeNext]_allVars, NEW r \in Requests,
               request[r] # "ok", request'[r] = "ok"
        PROVE  status + IsNodeAlmostSyncedThreshold >= slot
    <2>. USE LifeParts
    <2>1. PICK q \in Requests : Arrives(q) \/ Handler(q)
      BY <1>1, OnlyHandlersAnswer
    <2>2. /\ request \in [Requests -> {"none", "asked", "read", "ok", "unavailable"}]
          /\ seen \in [Requests -> -1..MaxSlot]
      BY <1>1 DEF RequestsOK
    <2>3. Answer(r) /\ AlmostSynced(seen[r])
      BY <1>1, <2>1, <2>2
      DEF Handler, Arrives, ReadStatus, Answer, Leaves, Answers
    <2>4. seen[r] <= status
      BY <1>1, <2>3 DEF Answer, StatusInv
    <2>5. /\ status \in Int /\ slot \in Int /\ seen[r] \in Int
          /\ IsNodeAlmostSyncedThreshold \in Int
      BY <1>1, <2>2, BoundsAssumption, ThresholdAssumption, TypeParts
      DEF DatabaseOK, NodeOK
    <2>. QED
      BY <2>3, <2>4, <2>5 DEF AlmostSynced
  <1>2. LifeInv /\ [LifeNext]_allVars =>
          [\A r \in Requests :
             request[r] # "ok" /\ request'[r] = "ok" =>
               status + IsNodeAlmostSyncedThreshold >= slot]_allVars
    BY <1>1
  <1>. QED
    BY <1>2, LifeInvariance, PTL DEF LifeSpec, HealthIsSound
=============================================================================
