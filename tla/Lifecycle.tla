----------------------------- MODULE Lifecycle ------------------------------
(* The process around the index. The daemon runs the workers that            *)
(* components/indexer/component.go and components/prometheus register and,   *)
(* when it shuts down, cancels the context of one after the other and waits  *)
(* for it. The worker "Indexer" is checkIndexerStatus, which is Import's,    *)
(* and then the listener for ledger updates; two others wait until it has    *)
(* closed indexerInitWait. The API worker registers its route at the node    *)
(* and starts and stops the server, whose health endpoint is modelled as     *)
(* the example of a request that reads the database. What the two workers    *)
(* of the index write is Indexer's: a ledger update is one step here.        *)
EXTENDS Import

CONSTANTS
  Requests,                   \* API requests that can be in flight
  IsNodeAlmostSyncedThreshold \* 2 in the code

ASSUME ThresholdAssumption == IsNodeAlmostSyncedThreshold \in Nat

VARIABLES
  level,        \* the daemon stops the workers from this priority on
  asked,        \* SelfShutdown has been called
  initialized,  \* indexerInitWait is closed
  worker,       \* where each background worker is, by its priority
  tick,         \* the ticker of the accepted transactions worker
  database,     \* the handle of the database
  server,       \* the API server
  route,        \* the node forwards the API's route to this process
  request,      \* the health requests
  seen,         \* the status each of them has read
  trouble       \* what has gone wrong in this process

PriorityStopIndexer == 1
PriorityStopIndexerAcceptedTransactions == 2
PriorityStopIndexerAPI == 3
PriorityStopPrometheus == 4

Indexer  == PriorityStopIndexer
Accepted == PriorityStopIndexerAcceptedTransactions
API      == PriorityStopIndexerAPI
Exporter == PriorityStopPrometheus

Priorities == {Indexer, Accepted, API, Exporter}
NotStopping == 5

flags    == <<level, asked, trouble>>
apiVars  == <<server, route>>
reqVars  == <<request, seen>>
lifeVars == <<flags, initialized, worker, tick, database, apiVars, reqVars>>
allVars  == <<vars, lifeVars>>

LifeTypeOK ==
  /\ TypeOK
  /\ level \in Priorities \cup {NotStopping}
  /\ asked \in BOOLEAN /\ initialized \in BOOLEAN
  /\ worker \in [Priorities -> {"off", "wait", "check", "listen", "close",
                                "register", "serve", "drain", "done"}]
  /\ tick \in {"none", "idle", "writing"}
  /\ database \in {"open", "closed"}
  /\ server \in {"none", "starting", "listening", "closed"}
  /\ route \in BOOLEAN
  /\ request \in [Requests -> {"none", "asked", "read", "ok", "unavailable"}]
  /\ seen \in [Requests -> -1..MaxSlot]
  /\ trouble \in SUBSET {"updates", "accepted", "route", "drain", "node"}

-----------------------------------------------------------------------------
(* The process.                                                              *)

At(p, place) == worker[p] = place
Goes(p, place) == worker' = [worker EXCEPT ![p] = place]

\* The context of a worker.
Done(p) == level <= p

NoRequests == request' = [r \in Requests |-> "none"] /\ seen' = [r \in Requests |-> NoSlot]

\* The process starts with every worker registered and the database open.
Starts ==
  /\ worker' = [p \in Priorities |-> CASE p = Indexer -> "check"
                                       [] p = Exporter -> "serve"
                                       [] OTHER -> "wait"]
  /\ database' = "open"
  /\ UNCHANGED <<flags, initialized, tick, apiVars, reqVars>>

\* Nothing of the process stays but the route at the node.
Dies ==
  /\ level' = NotStopping /\ asked' = FALSE /\ trouble' = {}
  /\ initialized' = FALSE
  /\ worker' = [p \in Priorities |-> "off"]
  /\ tick' = "none" /\ database' = "closed" /\ server' = "none"
  /\ NoRequests

\* A step of Import, with what it means for the rest of the process.
Within(step) ==
  /\ step
  /\ CASE pc = "down" /\ pc' # "down"  -> Starts
       [] pc # "down" /\ pc' = "down"  -> Dies /\ UNCHANGED route
       [] OTHER                        -> UNCHANGED lifeVars

\* A step of the rest, with Import idle.
Aside == UNCHANGED <<nodeVars, dbVars, pc, InMemory, fatal>>
Quietly == Aside /\ UNCHANGED endings

Alive == pc # "down"

\* It ends with main, or with LogFatal in a worker or the server.
Over == ProcessEnds /\ Dies /\ UNCHANGED <<nodeVars, dbVars, fatal>>

-----------------------------------------------------------------------------
(* The daemon.                                                               *)

Shutdown ==
  /\ level = NotStopping
  /\ level' = PriorityStopPrometheus
  /\ Aside
  /\ UNCHANGED <<asked, trouble, initialized, worker, tick, database, apiVars,
                 reqVars>>

\* SelfShutdown has been called; or the operator asks for it.
ShutdownAsked == asked /\ Shutdown /\ UNCHANGED endings
Signal == Alive /\ Ends("signal") /\ Shutdown

\* Mutant: it goes on below the last one.
StopNextBelow ==
  /\ level \in Priorities
  /\ At(level, "done")
  /\ level' = level - 1
  /\ cancelled' = (level' = PriorityStopIndexer)
  /\ UNCHANGED <<nodeVars, dbVars, pc, unread, adding, readSlot, pipeVars,
                 draining, fatal, endings, asked, trouble, initialized, worker,
                 tick, database, apiVars, reqVars>>

\* The workers of a priority have returned: on to the next lower one. The
\* context of the last is the one checkIndexerStatus and the import look at.
StopNext ==
  /\ level \in Priorities \ {PriorityStopIndexer}
  /\ At(level, "done")
  /\ level' = level - 1
  /\ cancelled' = (level' = PriorityStopIndexer)
  /\ UNCHANGED <<nodeVars, dbVars, pc, unread, adding, readSlot, pipeVars,
                 draining, fatal, endings, asked, trouble, initialized, worker,
                 tick, database, apiVars, reqVars>>

\* All workers have returned: main returns.
Exit ==
  /\ level = PriorityStopIndexer /\ At(Indexer, "done")
  /\ Over
  /\ UNCHANGED <<route, endings>>

\* The worker of components/prometheus: it serves until its context ends.
ExporterStops ==
  /\ At(Exporter, "serve") /\ Done(Exporter)
  /\ Goes(Exporter, "done")
  /\ Quietly
  /\ UNCHANGED <<flags, initialized, tick, database, apiVars, reqVars>>

\* The node goes away: its streams end without an error, and the INX component
\* of the application asks for a shutdown.
NodeGoes ==
  /\ Alive
  /\ Ends("node")
  /\ trouble' = trouble \cup {"node"}
  /\ Aside
  /\ UNCHANGED <<level, asked, initialized, worker, tick, database, apiVars,
                 reqVars>>

InxAsks ==
  /\ "node" \in trouble /\ ~asked
  /\ asked' = TRUE
  /\ Quietly
  /\ UNCHANGED <<level, trouble, initialized, worker, tick, database, apiVars,
                 reqVars>>

-----------------------------------------------------------------------------
(* The worker "Indexer".                                                     *)

\* checkIndexerStatus has returned a status.
Initialized ==
  /\ pc = "up" /\ At(Indexer, "check")
  /\ Goes(Indexer, "listen")
  /\ initialized' = TRUE
  /\ Quietly
  /\ UNCHANGED <<flags, tick, database, apiVars, reqVars>>

\* CommitLedgerUpdate for the next slot.
LedgerUpdate ==
  /\ At(Indexer, "listen") /\ ~Done(Indexer)
  /\ status < slot
  /\ status' = status + 1
  /\ UNCHANGED <<nodeVars, tables, stored, snap, pc, InMemory, fatal, endings,
                 lifeVars>>

\* Mutant: the listener's error is logged and nothing else.
UpdatesFailQuietly ==
  /\ At(Indexer, "listen")
  /\ Ends("fault")
  /\ trouble' = trouble \cup {"updates"}
  /\ Goes(Indexer, "close")
  /\ Aside
  /\ UNCHANGED <<level, asked, initialized, tick, database, apiVars, reqVars>>

\* ListenToLedgerUpdates returns: with an error, or without one.
UpdatesFail ==
  /\ At(Indexer, "listen")
  /\ Ends("fault")
  /\ asked' = TRUE /\ trouble' = trouble \cup {"updates"}
  /\ Goes(Indexer, "close")
  /\ Aside
  /\ UNCHANGED <<level, initialized, tick, database, apiVars, reqVars>>

UpdatesEnd ==
  /\ At(Indexer, "listen")
  /\ Done(Indexer) \/ "node" \in trouble
  /\ Goes(Indexer, "close")
  /\ Quietly
  /\ UNCHANGED <<flags, initialized, tick, database, apiVars, reqVars>>

\* The deferred CloseDatabase.
CloseDatabase ==
  /\ At(Indexer, "close")
  /\ database' = "closed"
  /\ Goes(Indexer, "done")
  /\ Quietly
  /\ UNCHANGED <<flags, initialized, tick, apiVars, reqVars>>

-----------------------------------------------------------------------------
(* The worker "Indexer - AcceptedTransactions" and its ticker.               *)

\* select: of two ready cases, either one.
AcceptedStarts ==
  /\ At(Accepted, "wait")
  /\ \/ Done(Accepted) /\ Goes(Accepted, "done") /\ UNCHANGED tick
     \/ initialized /\ Goes(Accepted, "listen") /\ tick' = "idle"
  /\ Quietly
  /\ UNCHANGED <<flags, initialized, database, apiVars, reqVars>>

\* The handler is inside AcceptLedgerUpdate.
TickBegins ==
  /\ tick = "idle" /\ database = "open"
  /\ tick' = "writing"
  /\ Quietly
  /\ UNCHANGED <<flags, initialized, worker, database, apiVars, reqVars>>

TickEnds ==
  /\ tick = "writing"
  /\ tick' = IF At(Accepted, "done") THEN "none" ELSE "idle"
  /\ Quietly
  /\ UNCHANGED <<flags, initialized, worker, database, apiVars, reqVars>>

\* AcceptLedgerUpdate returns an error, as it always does on a closed database.
\* Nobody waits for that: there may be no pending batch.
TickFails ==
  /\ \/ tick = "idle" /\ database = "closed" /\ UNCHANGED endings
     \/ tick # "none" /\ Ends("fault")
  /\ asked' = TRUE
  /\ tick' = IF At(Accepted, "done") THEN "none" ELSE "idle"
  /\ Aside
  /\ UNCHANGED <<level, trouble, initialized, worker, database, apiVars, reqVars>>

\* ListenToAcceptedTransactions returns. Ticker.Shutdown stops further ticks and
\* waits for none.
AcceptedEnds ==
  /\ At(Accepted, "listen")
  /\ \/ (Done(Accepted) \/ "node" \in trouble) /\ UNCHANGED <<asked, trouble, endings>>
     \/ Ends("fault") /\ asked' = TRUE /\ trouble' = trouble \cup {"accepted"}
  /\ Goes(Accepted, "done")
  /\ tick' = IF tick = "writing" THEN tick ELSE "none"
  /\ Aside
  /\ UNCHANGED <<level, initialized, database, apiVars, reqVars>>

-----------------------------------------------------------------------------
(* The worker "API" and its server.                                          *)

ApiStarts ==
  /\ At(API, "wait")
  /\ \/ Done(API) /\ Goes(API, "done") /\ UNCHANGED server
     \/ initialized /\ Goes(API, "register") /\ server' = "starting"
  /\ Quietly
  /\ UNCHANGED <<flags, initialized, tick, database, route, reqVars>>

\* Echo.Start, in a goroutine of its own.
ServerListens ==
  /\ server = "starting"
  /\ server' = "listening"
  /\ Quietly
  /\ UNCHANGED <<flags, initialized, worker, tick, database, route, reqVars>>

ServerFails ==
  /\ server = "starting"
  /\ Ends("fault")
  /\ Over
  /\ UNCHANGED route

RegisterAPIRoute ==
  /\ At(API, "register")
  /\ route' = TRUE
  /\ Goes(API, "serve")
  /\ Quietly
  /\ UNCHANGED <<flags, initialized, tick, database, server, reqVars>>

\* The call fails, on its timeout or because the context it derives from ends;
\* the node may have registered the route all the same.
RegisterFails ==
  /\ At(API, "register")
  /\ \/ Done(API) /\ UNCHANGED endings
     \/ Ends("fault")
  /\ route' \in {route, TRUE}
  /\ Over

\* Mutant: the route is left to the node.
UnregisterNothing ==
  /\ At(API, "serve") /\ Done(API)
  /\ Goes(API, "close")
  /\ Quietly
  /\ UNCHANGED <<flags, initialized, tick, database, apiVars, reqVars>>

\* The worker's context has ended. A failure is only logged.
UnregisterAPIRoute ==
  /\ At(API, "serve") /\ Done(API)
  /\ \/ route' = FALSE /\ UNCHANGED trouble
     \/ trouble' = trouble \cup {"route"} /\ UNCHANGED route
  /\ Goes(API, "close")
  /\ Quietly
  /\ UNCHANGED <<level, asked, initialized, tick, database, server, reqVars>>

\* Echo.Shutdown closes the listener at once and then waits for the requests, ...
CloseServer ==
  /\ At(API, "close")
  /\ server' = "closed"
  /\ Goes(API, "drain")
  /\ Quietly
  /\ UNCHANGED <<flags, initialized, tick, database, route, reqVars>>

InFlight == {r \in Requests : request[r] # "none"}

\* Mutant: it does not wait for them.
RequestsAbandoned ==
  /\ At(API, "drain")
  /\ Goes(API, "done")
  /\ Quietly
  /\ UNCHANGED <<flags, initialized, tick, database, apiVars, reqVars>>

RequestsDrain ==
  /\ At(API, "drain") /\ InFlight = {}
  /\ Goes(API, "done")
  /\ Quietly
  /\ UNCHANGED <<flags, initialized, tick, database, apiVars, reqVars>>

\* ... but for five seconds at most.
DrainTimesOut ==
  /\ At(API, "drain") /\ InFlight # {}
  /\ trouble' = trouble \cup {"drain"}
  /\ Goes(API, "done")
  /\ Quietly
  /\ UNCHANGED <<level, asked, initialized, tick, database, apiVars, reqVars>>

-----------------------------------------------------------------------------
(* The health endpoint.                                                      *)

Answers(r, s) ==
  /\ request' = [request EXCEPT ![r] = s]
  /\ Quietly
  /\ UNCHANGED <<flags, initialized, worker, tick, database, apiVars>>

Arrives(r) ==
  /\ server = "listening" /\ request[r] = "none"
  /\ Answers(r, "asked")
  /\ UNCHANGED seen

\* Status() on an open database, with a row there; else an error.
ReadStatus(r) ==
  /\ request[r] = "asked"
  /\ IF database = "open" /\ status # NoSlot
     THEN Answers(r, "read") /\ seen' = [seen EXCEPT ![r] = status]
     ELSE Answers(r, "unavailable") /\ UNCHANGED seen

\* Mutant: the threshold is off by one.
AlmostSyncedOffByOne(s) ==
  slot >= IsNodeAlmostSyncedThreshold /\ s + 1 >= slot - IsNodeAlmostSyncedThreshold

\* Slots are unsigned: the subtraction is only made where it does not wrap.
AlmostSynced(s) ==
  /\ slot >= IsNodeAlmostSyncedThreshold
  /\ s >= slot - IsNodeAlmostSyncedThreshold

\* The node's commitment is read after the status.
Answer(r) ==
  /\ request[r] = "read"
  /\ Answers(r, IF AlmostSynced(seen[r]) THEN "ok" ELSE "unavailable")
  /\ seen' = [seen EXCEPT ![r] = NoSlot]

Leaves(r) ==
  /\ request[r] \in {"ok", "unavailable"}
  /\ Answers(r, "none")
  /\ UNCHANGED seen

-----------------------------------------------------------------------------
LifeInit ==
  /\ Init
  /\ level = NotStopping /\ asked = FALSE /\ trouble = {}
  /\ initialized = FALSE
  /\ worker = [p \in Priorities |-> "off"]
  /\ tick = "none" /\ database = "closed" /\ server = "none" /\ route = FALSE
  /\ request = [r \in Requests |-> "none"] /\ seen = [r \in Requests |-> NoSlot]

Importing(t, w) ==
  Within(Batcher(t, w)) \/ Within(BatcherLeaves(t, w)) \/ Within(Inserter(t, w))

\* fillIndexer sees the cancellation; checkIndexerStatus fails.
FillCancelled == Within(CancelledEnds /\ pc = "read")

Daemon == ShutdownAsked \/ StopNext \/ Exit

IndexerWorker == Initialized \/ LedgerUpdate \/ UpdatesEnd \/ CloseDatabase

AcceptedWorker == \/ AcceptedStarts
                  \/ (Done(Accepted) \/ "node" \in trouble) /\ AcceptedEnds

ApiWorker ==
  \/ ApiStarts \/ RegisterAPIRoute \/ (Done(API) /\ RegisterFails)
  \/ UnregisterAPIRoute \/ CloseServer \/ RequestsDrain

Handler(r) == ReadStatus(r) \/ Answer(r) \/ Leaves(r)

LifeNext ==
  \/ Within(NodeMoves) \/ Within(Checking) \/ Within(Receiving) \/ Within(Finalize)
  \/ \E t \in Tables, w \in Workers : Importing(t, w)
  \/ FillCancelled
  \/ Within(Crash) \/ Within(StreamFails) \/ Within(WriteStatusFails)
  \/ Daemon \/ Signal \/ ExporterStops \/ NodeGoes \/ InxAsks
  \/ IndexerWorker \/ UpdatesFail
  \/ AcceptedWorker \/ TickBegins \/ TickEnds \/ TickFails \/ AcceptedEnds
  \/ ApiWorker \/ ServerListens \/ ServerFails \/ RegisterFails \/ DrainTimesOut
  \/ \E r \in Requests : Arrives(r) \/ Handler(r)

LifeSpec == LifeInit /\ [][LifeNext]_allVars

\* Goroutines go on, calls of the node return within their timeouts, a process
\* that ended is started again. The node, signals, faults and clients owe nothing.
FairLifeSpec ==
  /\ LifeSpec
  /\ WF_allVars(Within(Checking)) /\ WF_allVars(Within(Receiving)) /\ WF_allVars(Within(Finalize))
  /\ WF_allVars(FillCancelled)
  /\ \A t \in Tables, w \in Workers :
       WF_allVars(Within(Batcher(t, w))) /\ WF_allVars(Within(Inserter(t, w)))
  /\ WF_allVars(Daemon) /\ WF_allVars(ExporterStops) /\ WF_allVars(InxAsks)
  /\ WF_allVars(IndexerWorker) /\ WF_allVars(AcceptedWorker) /\ WF_allVars(TickEnds)
  /\ WF_allVars(ApiWorker)
  /\ WF_allVars(ServerListens)
  /\ \A r \in Requests : WF_allVars(Handler(r))

-----------------------------------------------------------------------------
(* Properties.                                                               *)

\* Whoever asks the API asks an index with a ledger in it, although Finalize
\* does not report that it could not write the status row, and the API worker
\* starts concurrently with the import (indexerInitWait, checkIndexerStatus).
ServedIndexHasStatus == server = "listening" => status # NoSlot

\* The database is closed last: in a shutdown in which no listener fails and no
\* request outlives Echo.Shutdown, nothing but the ticker's handler can meet a
\* closed database (the priorities of pkg/daemon/shutdown.go).
ClosedLast ==
  Alive /\ database = "closed" /\ trouble \cap {"updates", "drain", "node"} = {} =>
    /\ InFlight = {} /\ server # "listening"
    /\ At(Accepted, "done") /\ At(API, "done") /\ At(Exporter, "done")

\* The node does not forward requests to a server that has been closed, unless
\* it could not be told (UnregisterAPIRoute before Echo.Shutdown).
NoRouteToClosedServer ==
  route /\ server = "closed" => "route" \in trouble

\* A health request is answered with OK only if the index is within the threshold
\* of the node at that moment, though the two are read one after the other.
HealthIsSound ==
  [][\A r \in Requests :
       request[r] # "ok" /\ request'[r] = "ok" =>
         status + IsNodeAlmostSyncedThreshold >= slot]_allVars

(* The invariant behind the theorems of LifecycleProofs.                     *)

\* Nothing of the last process is there when the next one starts.
NothingLeft ==
  pc = "down" =>
    /\ level = NotStopping /\ ~asked /\ trouble = {}
    /\ worker = [p \in Priorities |-> "off"]
    /\ tick = "none"

\* A worker that is up has a status; those that waited for it have one too.
StatusInv ==
  /\ pc = "up" => status # NoSlot
  /\ initialized => pc = "up"
  /\ server # "none" => initialized
  /\ \A r \in Requests : request[r] = "read" => seen[r] <= status

\* Where the API worker is when its server runs, and has been closed.
ServerInv ==
  /\ server \in {"starting", "listening"} <=> worker[API] \in {"register", "serve", "close"}
  /\ server = "closed" => worker[API] \in {"drain", "done"}
  /\ InFlight # {} => server \in {"listening", "closed"}
  /\ At(API, "done") /\ "drain" \notin trouble => InFlight = {}
  /\ route /\ worker[API] \in {"close", "drain", "done"} /\ server # "none" =>
       "route" \in trouble

\* How far the daemon is, and why the database is closed.
DaemonInv ==
  /\ \A p \in Priorities : p > level => At(p, "done")
  /\ Alive /\ (worker[Indexer] \in {"close", "done"} \/ database = "closed") =>
       level = PriorityStopIndexer \/ trouble \cap {"updates", "node"} # {}

LifeInv ==
  /\ LifeTypeOK
  /\ NothingLeft
  /\ StatusInv
  /\ ServerInv
  /\ DaemonInv

\* A cancelled import may not end: the inserters of a pipeline look at the
\* context after they have received a batch and leave, the batchers may have
\* refilled the channel and wait for room in it, and Finalize waits for them.
Stuck ==
  /\ pc = "finalize" /\ cancelled
  /\ \E t \in Tables :
       /\ ~Inserting(t) /\ Cardinality(output[t]) >= OutputCap
       /\ \E w \in Workers : Sending(t, w)

\* A shutdown ends, whatever the import, the workers and the requests are in the
\* middle of, but for that deadlock; and once the handle is closed, also by a
\* failing listener or because the node went away, the process does not linger on
\* without it.
ShutdownEnds ==
  Alive /\ (level # NotStopping \/ database = "closed") ~> ~Alive \/ Stuck

\* With nothing going wrong the import ends, the workers start and the API is
\* served, for good.
Serves == [](endings = <<>>) => <>[](server = "listening" /\ route)
=============================================================================
