------------------------------- MODULE Query --------------------------------
(* pkg/indexer/types.go as pkg/server/routes.go calls it: a client reads a   *)
(* list of outputs page by page, by cursor, while the workers go on writing. *)
(* Every page is one SQL statement, so one snapshot; the pages of a walk     *)
(* are not.                                                                  *)
EXTENDS OutputsAndSlots, Sequences

CONSTANTS
  Tables,        \* the output tables
  TableOf,       \* TableOf[o]: the table of output o
  MaxResults,    \* restAPI.limits.maxPageSize
  PageSizes,     \* values of the parameter pageSize, 0 when it is absent
  CursorSizes    \* page sizes a client puts into the cursors it returns

\* Output IDs are compared as byte strings: here, as numbers.
ASSUME OutputIDsAssumption == Outputs \subseteq Nat
ASSUME TablesAssumption ==
  IsFiniteSet(Tables) /\ Tables # {} /\ TableOf \in [Outputs -> Tables]
ASSUME SizesAssumption ==
  /\ MaxResults \in Nat \ {0}
  /\ PageSizes \subseteq Nat /\ CursorSizes \subseteq Nat

VARIABLES
  index,      \* created_at_slot of the outputs a filter matches, else NoSlot
  pc,         \* the client's request
  from,       \* the tables it asks for: one, or several by the combined query
  size,       \* its page size
  cursor,     \* its cursor
  page,       \* the last page it received
  walk,       \* all it has received so far
  told,       \* the slot its first page told, NoSlot before
  slot,       \* database: Status.CommittedSlot
  steady,     \* ghost: the rows that were there all along
  due         \* ghost: the rows there since the commit of the slot that is told

clientVars == <<from, size, cursor, page, walk, told>>
ghostVars  == <<steady, due>>
vars == <<index, slot, pc, clientVars, ghostVars>>

\* A cursor is the sort key of a row: its slot, then its ID.
Keys     == Slots \X Outputs
NoCursor == <<NoSlot, -1>>

Before(k, l) == k[1] < l[1] \/ (k[1] = l[1] /\ k[2] < l[2])

\* Of a set of keys, those in the tables the client asks for.
Asked(S, tables) == {k \in S : TableOf[k[2]] \in tables}

RowsOf(ix) == {<<ix[o], o>> : o \in {p \in Outputs : ix[p] # NoSlot}}

TypeOK ==
  /\ index \in [Outputs -> Slots \cup {NoSlot}]
  /\ pc \in {"idle", "read", "status", "turn", "done", "failed"}
  /\ from \in SUBSET Tables
  /\ size \in Nat
  /\ cursor \in Keys \cup {NoCursor}
  /\ page \in Seq(Keys) /\ walk \in Seq(Keys)
  /\ told \in Slots \cup {NoSlot} /\ slot \in Slots
  /\ steady \in SUBSET Keys /\ due \in SUBSET Keys

-----------------------------------------------------------------------------
(* The query.                                                                *)

\* ORDER BY created_at_slot, output_id: how many rows of S come before k, the
\* sequence of all of them, and LIMIT n of it.
Rank(k, S)    == Cardinality({l \in S : Before(l, k)})
InOrder(S)    == [n \in 1..Cardinality(S) |-> CHOOSE k \in S : Rank(k, S) = n - 1]
Limited(S, n) == {k \in S : Rank(k, S) < n}

\* Mutant: one row per page is taken off the limit of each table.
FilteredQueryShort(t) ==
  Limited({k \in RowsOf(index) : TableOf[k[2]] = t /\ ~Before(k, cursor)}, size)

\* filteredQuery: the cursor and the limit count only with a page size. A cursor
\* of a length other than CursorLength is an error: one of ReadFails.
FilteredQuery(t) ==
  LET matching == {k \in RowsOf(index) : TableOf[k[2]] = t}
  IN  IF size = 0 THEN matching
      ELSE Limited({k \in matching : ~Before(k, cursor)}, size + 1)

\* One table, or the UNION of several with a limit of its own. A combined query
\* whose options leave one table over (combined.go) has the same rows: its limit
\* is that table's.
Results ==
  LET union == UNION {FilteredQuery(t) : t \in from}
  IN  IF Cardinality(from) = 1 THEN union ELSE Limited(union, size + 1)

\* Mutant: a full page is taken for one with a row beyond it.
HasNextAtFullPage(results) == size > 0 /\ Cardinality(results) >= size

\* resultsForQuery: the row beyond the page is the next cursor.
HasNext(results) == size > 0 /\ Cardinality(results) > size

LastOf(results) == CHOOSE k \in results : \A l \in results : ~Before(k, l)

PageOf(results) ==
  InOrder(IF HasNext(results) THEN results \ {LastOf(results)} ELSE results)

\* Mutant: the cursor points to the slot after the row's.
CursorOfNextSlot(results) ==
  IF HasNext(results) THEN <<LastOf(results)[1] + 1, LastOf(results)[2]>>
                      ELSE NoCursor

CursorOf(results) ==
  IF HasNext(results) THEN LastOf(results) ELSE NoCursor

\* pageSizeFromContext
PageSize(n) == IF n \in 1..(MaxResults - 1) THEN n ELSE MaxResults

\* parseCursorQueryParameter
CursorSize(n) == IF n > MaxResults THEN MaxResults ELSE n

-----------------------------------------------------------------------------
(* A write transaction of either worker, as far as the filter can see it: a  *)
(* row comes, goes or moves. One that changes several rows is several steps: *)
(* the pages a client can read then include those of the code. What was      *)
(* written before the walk is in its initial state, what is written after    *)
(* it changes nothing of it.                                                 *)

Write ==
  /\ pc \in {"read", "status", "turn"}
  /\ \E o \in Outputs, s \in Slots \cup {NoSlot} : index' = [index EXCEPT ![o] = s]
  /\ steady' = steady \cap RowsOf(index')
  /\ UNCHANGED <<pc, clientVars>>

AcceptWrite == Write /\ due' = due \cap RowsOf(index') /\ UNCHANGED slot

\* The last change of a commit takes the status row with it.
CommitWrite ==
  /\ slot < MaxSlot
  /\ slot' = slot + 1
  /\ Write
  /\ due' = IF told = NoSlot THEN RowsOf(index') ELSE due \cap RowsOf(index')

-----------------------------------------------------------------------------
(* The client.                                                               *)

Ask(tables, n) ==
  /\ pc = "idle"
  /\ pc' = "read"
  /\ from' = tables /\ size' = PageSize(n) /\ cursor' = NoCursor
  /\ steady' = Asked(RowsOf(index), tables)
  /\ UNCHANGED <<index, slot, page, walk, told, due>>

\* The page is taken with the slot the database is at.
TellSlot ==
  /\ told' = IF told = NoSlot THEN slot ELSE told
  /\ due'  = IF told = NoSlot THEN Asked(due, from) ELSE due

EndRequest(next) == pc' = IF next = NoCursor THEN "done" ELSE "turn"

\* Mutant: the cursor is the last row of the page, not the one after it.
ReadFromLast ==
  /\ pc = "read" /\ Results # {}
  /\ page' = PageOf(Results)
  /\ walk' = walk \o page'
  /\ cursor' = IF HasNext(Results) THEN page'[Len(page')] ELSE NoCursor
  /\ TellSlot /\ EndRequest(cursor')
  /\ UNCHANGED <<index, slot, from, size, steady>>

\* Mutant: the status is read by a statement of its own.
ReadWithoutStatus ==
  /\ pc = "read" /\ Results # {}
  /\ page' = PageOf(Results)
  /\ walk' = walk \o page'
  /\ cursor' = CursorOf(Results)
  /\ pc' = "status"
  /\ UNCHANGED <<index, slot, from, size, told, ghostVars>>

\* The joined query with at least one row: the rows and the status are of one
\* snapshot.
Read ==
  /\ pc = "read"
  /\ Results # {}
  /\ page' = PageOf(Results)
  /\ walk' = walk \o page'
  /\ cursor' = CursorOf(Results)
  /\ TellSlot /\ EndRequest(cursor')
  /\ UNCHANGED <<index, slot, from, size, steady>>

\* An empty result has no status in it, and there is no next page.
ReadNothing ==
  /\ pc = "read"
  /\ Results = {}
  /\ pc' = "status"
  /\ page' = <<>>
  /\ cursor' = NoCursor
  /\ UNCHANGED <<index, slot, from, size, walk, told, ghostVars>>

\* Status(), a second statement: the slot of whatever moment.
ReadStatus ==
  /\ pc = "status"
  /\ TellSlot /\ EndRequest(cursor)
  /\ UNCHANGED <<index, slot, from, size, cursor, page, walk, steady>>

\* Status() fails: nobody looks at its error, the page tells slot 0, of which
\* nothing is due.
StatusFails ==
  /\ pc = "status"
  /\ told' = IF told = NoSlot THEN 0 ELSE told
  /\ due'  = IF told = NoSlot THEN {} ELSE due
  /\ EndRequest(cursor)
  /\ UNCHANGED <<index, slot, from, size, cursor, page, walk, steady>>

\* The query or its cursor is refused, or the statement fails: no page.
ReadFails ==
  /\ pc = "read"
  /\ pc' = "failed"
  /\ UNCHANGED <<index, slot, clientVars, ghostVars>>

\* The client comes back with the cursor and a page size of its choice in it.
\* That the server accepts it is assumed: a cursor is built from the slot and the
\* output ID and refused unless it has CursorLength characters.
Turn(n) ==
  /\ pc = "turn"
  /\ pc' = "read"
  /\ size' = CursorSize(n)
  /\ UNCHANGED <<index, slot, from, cursor, page, walk, told, ghostVars>>

-----------------------------------------------------------------------------
Init ==
  /\ index \in [Outputs -> Slots \cup {NoSlot}]
  /\ pc = "idle" /\ from = {} /\ size = 0 /\ cursor = NoCursor
  /\ page = <<>> /\ walk = <<>> /\ told = NoSlot
  /\ slot = 0
  /\ steady = {} /\ due \in SUBSET RowsOf(index)

Client ==
  \/ \E tables \in (SUBSET Tables) \ {{}}, n \in PageSizes : Ask(tables, n)
  \/ Read \/ ReadNothing \/ ReadStatus
  \/ \E n \in CursorSizes : Turn(n)

\* The walk is over.
Terminating == pc \in {"done", "failed"} /\ UNCHANGED vars

Next ==
  \/ AcceptWrite \/ CommitWrite
  \/ Client \/ ReadFails \/ StatusFails
  \/ Terminating

Spec == Init /\ [][Next]_vars

\* A client that has started goes on until there is no cursor; the database
\* owes it neither a failure nor a write.
FairSpec == Spec /\ WF_vars(Client)

-----------------------------------------------------------------------------
(* Properties.                                                               *)

\* No walk misses or repeats a row that is there from its first page to its
\* last, whatever is written between the pages and however the page size
\* changes (filteredQuery, combineOutputIDFilteredQueries, resultsForQuery), as
\* long as the server accepts the cursors it has returned.
WalkIsComplete ==
  pc = "done" =>
    \A k \in steady : Cardinality({n \in DOMAIN walk : walk[n] = k}) = 1

\* The rows of a walk come in ascending order, across its pages.
WalkAscends ==
  \A m, n \in DOMAIN walk : m < n => Before(walk[m], walk[n])

\* "we know the index matches the results": an answer that tells a slot has
\* everything that was there with that slot's commit and stays until the walk
\* ends. A client that waits for its slot and then misses its output may conclude
\* that it was spent.
AnswersCoverSlot ==
  pc = "done" => \A k \in due : \E n \in DOMAIN walk : walk[n] = k

\* The code promises it where the rows and the slot come from one statement
\* (resultsForQuery).
PagesCoverSlot == walk # <<>> => AnswersCoverSlot

-----------------------------------------------------------------------------
(* The inductive invariant behind the theorems of QueryProofs.               *)

Received(k) == \E n \in DOMAIN walk : walk[n] = k

\* The rows S are in the walk, or at the cursor or beyond it.
Owed(S) ==
  \A k \in S :
    /\ TableOf[k[2]] \in from
    /\ Received(k) \/ (pc \in {"read", "turn"} /\ ~Before(k, cursor))

\* What the client owns lies before the cursor; what it is owed it has or will
\* get; and an answer that has rows has told a slot with its first ones.
WalkParts ==
  /\ pc = "read" => size > 0
  /\ pc = "idle" => told = NoSlot
  /\ pc \in {"read", "turn"} =>
       /\ from # {}
       /\ walk = <<>> => told = NoSlot
       /\ \A n \in DOMAIN walk : Before(walk[n], cursor)
  /\ told = NoSlot => walk = <<>> /\ (pc = "read" => cursor = NoCursor)
  /\ (pc = "status" => cursor = NoCursor) /\ (pc = "turn" => told # NoSlot)
  /\ WalkAscends
  /\ steady \subseteq RowsOf(index) /\ due \subseteq RowsOf(index)
  /\ pc \notin {"idle", "failed"} => Owed(steady)
  /\ walk # <<>> /\ pc # "failed" => Owed(due)

\* A page size of 0 in a cursor lifts the limit and the cursor.
WalkInv == TypeOK /\ (0 \notin CursorSizes => WalkParts)

-----------------------------------------------------------------------------
(* Progress.                                                                 *)

\* Every walk ends.
WalkEnds == [](pc = "read" => <>(pc \in {"done", "failed"}))
=============================================================================
