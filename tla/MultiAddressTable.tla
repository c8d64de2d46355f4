------------------------- MODULE MultiAddressTable --------------------------
(* The multiaddresses table of pkg/indexer/multiaddress.go: one row per      *)
(* multi address with two reference counters, and the statements that insert *)
(* and delete references. A restricted address counts as the multi address   *)
(* it wraps; `Holds` is what addressesInOutput and the dedup map of          *)
(* multiAddressesForAddresses compute for an output.                         *)
EXTENDS OutputsAndSlots

CONSTANTS
  Addrs,     \* multi addresses
  Holds,     \* Holds[o][a]: how often multi address a occurs in output o
  NoEntry    \* what the map holds for an address with no row

\* The columns ref_count and uncommitted_ref_count.
Entry == [ref : Int, unc : Int]

AddrTables == [Addrs -> Entry \cup {NoEntry}]

Held(o) == {a \in Addrs : Holds[o][a] > 0}

\* How many references output o holds, and the outputs of S hold on a.
Total(o)         == Cardinality(UNION {{a} \X (1..Holds[o][a]) : a \in Addrs})
References(S, a) == Cardinality(UNION {{o} \X (1..Holds[o][a]) : o \in S})

ASSUME NoEntryAssumption == NoEntry \notin Entry
ASSUME AddrsAssumption == IsFiniteSet(Addrs)
ASSUME HoldsAssumption == \A o \in Outputs : Holds[o] \in [Addrs -> Nat]

-----------------------------------------------------------------------------
Bump(e, n, isCommitted) ==
  IF isCommitted THEN [e EXCEPT !.ref = @ + n] ELSE [e EXCEPT !.unc = @ + n]

Fresh(n, isCommitted) == Bump([ref |-> 0, unc |-> 0], n, isCommitted)

\* The loop `for multiAddr in multiAddresses { ON CONFLICT add its delta;
\* Create(multiAddresses) }`: every iteration upserts the WHOLE list with the
\* delta of the iteration's own item. A row that was there receives the sum of
\* all deltas; a row the first iteration inserts starts from its own count and
\* receives the deltas of the others. The map iteration order is Go's, so
\* `first` is any item.
Upserted(t, o, first, sign, isCommitted) ==
  [a \in Addrs |->
     CASE a \notin Held(o) -> t[a]
       [] a \in Held(o) /\ t[a] = NoEntry ->
            Bump(Fresh(Holds[o][a], isCommitted),
                 sign * (Total(o) - Holds[o][first]), isCommitted)
       [] OTHER -> Bump(t[a], sign * Total(o), isCommitted)]

UpsertResults(t, o, sign, isCommitted) ==
  IF Held(o) = {} THEN {t}
  ELSE {Upserted(t, o, first, sign, isCommitted) : first \in Held(o)}

DropWhere(t, Bad(_)) ==
  [a \in Addrs |-> IF t[a] # NoEntry /\ Bad(t[a]) THEN NoEntry ELSE t[a]]

\* Mutant: uncommitted references are counted as committed ones.
InsertAsCommitted(t, o, isCommitted) == UpsertResults(t, o, 1, TRUE)

InsertReferences(t, o, isCommitted) == UpsertResults(t, o, 1, isCommitted)

\* Mutant: the cleanup ignores uncommitted references.
DeleteIgnoringUncommitted(t, o) ==
  {DropWhere(u, LAMBDA e : e.ref = 0) : u \in UpsertResults(t, o, -1, TRUE)}

\* "Delete all addresses where no references exist anymore"
DeleteReferences(t, o) ==
  {DropWhere(u, LAMBDA e : e.ref = 0 /\ e.unc = 0) :
     u \in UpsertResults(t, o, -1, TRUE)}

\* The address a reference stands for; ErrMultiAddressNotFound, which the API
\* answers with 404, without a row.
MultiAddressForReference(t, ref) == IF t[ref] = NoEntry THEN NoEntry ELSE ref

DeleteOnlyUncommitted(t) == DropWhere(t, LAMBDA e : e.ref = 0 /\ e.unc > 0)

\* The inserter stores the multi addresses of each output with plain INSERTs
\* (typeIsRefCountable is false for every pipeline): an address two outputs
\* hold breaks the import.
Importable(S) ==
  \A o, p \in S : o # p => Held(o) \cap Held(p) = {}
ImportedAddrs(S) ==
  [a \in Addrs |-> IF \E o \in S : a \in Held(o)
                   THEN [ref |-> References(S, a), unc |-> 0] ELSE NoEntry]
=============================================================================
