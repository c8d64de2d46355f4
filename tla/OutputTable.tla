---------------------------- MODULE OutputTable -----------------------------
(* The six output tables of pkg/indexer, seen as one map from output ID to   *)
(* row, and the SQL statements indexer.go runs on it. Only the three columns *)
(* the bookkeeping reads are kept; the filter columns are Filters.tla's.     *)
EXTENDS OutputsAndSlots

CONSTANT
  NoRow      \* what the map holds for an output with no row

\* The columns created_at_slot, deleted_at_slot (0: not deleted), committed.
Row == [created : Nat, deleted : Nat, committed : BOOLEAN]

ASSUME NoRowAssumption == NoRow \notin Row

Tables == [Outputs -> Row \cup {NoRow}]

EmptyTable == [o \in Outputs |-> NoRow]

Stored(t)    == {o \in Outputs : t[o] # NoRow}
Committed(t) == {o \in Stored(t) : t[o].committed}
\* What every list endpoint selects: WHERE deleted_at_slot = 0.
Visible(t)   == {o \in Stored(t) : t[o].deleted = 0}

\* Mutant: the look-up takes the latest row.
ByIDLatest(t, chain) ==
  {o \in Stored(t) \cap chain :
     \A p \in Stored(t) \cap chain : t[p].created <= t[o].created}

\* AccountByID, NFTByID, ...: WHERE account_id = ? LIMIT 1 in the ascending
\* order filteredQuery adds, so the oldest row of the chain, marked or not. Of
\* rows of one slot the output ID decides: any of them.
ByID(t, chain) ==
  {o \in Stored(t) \cap chain :
     \A p \in Stored(t) \cap chain : t[o].created <= t[p].created}

-----------------------------------------------------------------------------
NewRow(slot, isCommitted) ==
  [created |-> slot, deleted |-> 0, committed |-> isCommitted]

\* DELETE ... WHERE output_id = o
DeleteRow(t, o) == [t EXCEPT ![o] = NoRow]

\* UPDATE ... SET deleted_at_slot = s WHERE output_id = o: no row, no effect.
MarkDeleted(t, o, s) ==
  IF t[o] = NoRow THEN t ELSE [t EXCEPT ![o] = [t[o] EXCEPT !.deleted = s]]

\* Mutant: the row is booked one slot early.
InsertRowEarly(t, o, s) == [t EXCEPT ![o] = NewRow(s - 1, FALSE)]

\* INSERT: the caller checks first that the primary key is free. The column is
\* the output's Metadata.Included.Slot, taken to be the slot of its update.
InsertRow(t, o, s) == [t EXCEPT ![o] = NewRow(s, FALSE)]

\* Mutant: ON CONFLICT DO NOTHING.
UpsertNothing(t, o, s) ==
  [t EXCEPT ![o] = IF t[o] = NoRow THEN NewRow(s, TRUE) ELSE t[o]]

\* INSERT ... ON CONFLICT (output_id) DO UPDATE SET committed = true
UpsertCommitted(t, o, s) ==
  [t EXCEPT ![o] = IF t[o] = NoRow THEN NewRow(s, TRUE)
                                   ELSE [t[o] EXCEPT !.committed = TRUE]]

\* Mutant: the second statement is missing.
NotRestored(r, s) == r

\* The two statements of removeUncommittedChangesUpUntilSlot, on one row.
RolledBack(r, s) ==
  /\ ~r.committed
  /\ r.created <= s
  /\ r.deleted <= s
Restored(r, s) == IF r.deleted <= s THEN [r EXCEPT !.deleted = 0] ELSE r

RemoveUncommittedChangesUpUntilSlot(t, s) ==
  [o \in Outputs |->
     IF t[o] = NoRow \/ RolledBack(t[o], s) THEN NoRow
     ELSE Restored(t[o], s)]
=============================================================================
