-------------------------------- MODULE Node --------------------------------
(* The node behind the INX bridge, as far as the indexer can tell it apart.  *)
(* It is external to the repository: components/indexer/component.go reads   *)
(* from it the committed ledger updates (one per slot, in order, resumable   *)
(* from any slot), the accepted transactions (not yet committed, possibly    *)
(* orphaned) and the unspent outputs of its latest commitment.               *)
EXTENDS OutputsAndSlots

CONSTANTS
  SameSlotSpends,   \* may an update list an output as created and consumed?
  Reissues,         \* may an orphaned transaction be booked again, later?
  SomeAtStart       \* bound: does the ledger of slot 0 hold an output of Outputs?

ASSUME SameSlotSpendsAssumption == SameSlotSpends \in BOOLEAN
ASSUME ReissuesAssumption == Reissues \in BOOLEAN
ASSUME SomeAtStartAssumption == SomeAtStart \in BOOLEAN

VARIABLES
  nodeSlot,    \* latest committed slot
  booked,      \* slot of the transaction that created the output
  spent,       \* slot of the transaction that consumes it
  confirmed,   \* outputs whose creation is committed
  settled      \* outputs whose consumption is committed

nodeVars == <<nodeSlot, booked, spent, confirmed, settled>>

NodeTypeOK ==
  /\ nodeSlot \in Slots
  /\ booked \in [Outputs -> Slots \cup {NoSlot}]
  /\ spent  \in [Outputs -> Slots \cup {NoSlot}]
  /\ confirmed \in SUBSET Outputs
  /\ settled   \in SUBSET Outputs

-----------------------------------------------------------------------------
(* What the bridge serves.                                                   *)

\* The unspent outputs after commitment s.
LedgerAt(s) ==
  {o \in confirmed : booked[o] <= s /\ ~(o \in settled /\ spent[o] <= s)}

\* The two lists of the ledger update of slot s.
Created(s)  == {o \in confirmed : booked[o] = s}
Consumed(s) == {o \in settled : spent[o] = s}

\* Not orphaned: created by a committed slot, or still pending.
Alive(o) == o \in confirmed \/ booked[o] > nodeSlot

\* Free to be booked by a new transaction.
Bookable(o) == IF Reissues THEN ~Alive(o) ELSE booked[o] = NoSlot

-----------------------------------------------------------------------------
NodeInit ==
  /\ nodeSlot = 0
  /\ confirmed \in SUBSET Outputs
  /\ SomeAtStart => confirmed # {}
  /\ booked = [o \in Outputs |-> IF o \in confirmed THEN 0 ELSE NoSlot]
  /\ spent  = [o \in Outputs |-> NoSlot]
  /\ settled = {}

\* A transaction of slot s is accepted: it creates `new` and consumes `old`.
NodeAccept(s, new, old) ==
  /\ s \in (nodeSlot + 1)..MaxSlot
  /\ new \cup old # {}
  /\ new \subseteq {o \in Outputs : Bookable(o)}
  /\ old \subseteq {o \in Outputs : /\ booked[o] \in 0..s
                                    /\ Alive(o)
                                    /\ spent[o] = NoSlot}
  /\ booked' = [o \in Outputs |-> IF o \in new THEN s ELSE booked[o]]
  /\ spent'  = [o \in Outputs |-> IF o \in old THEN s
                                  ELSE IF o \in new THEN NoSlot ELSE spent[o]]
  /\ UNCHANGED <<nodeSlot, confirmed, settled>>

\* The next slot is committed. Pending transactions of the slot that are not
\* part of it are orphaned; a transaction may be committed without the indexer
\* ever having been told of its acceptance.
NodeCommit(new, old) ==
  LET s == nodeSlot + 1 IN
  /\ s \in Slots
  /\ new \subseteq {o \in Outputs \ confirmed : booked[o] = s \/ Bookable(o)}
  /\ old \subseteq {o \in (confirmed \cup new) \ settled : spent[o] \in {NoSlot, s}}
  /\ SameSlotSpends \/ new \cap old = {}
  /\ nodeSlot'  = s
  /\ confirmed' = confirmed \cup new
  /\ settled'   = settled \cup old
  /\ booked' = [o \in Outputs |-> IF o \in new THEN s ELSE booked[o]]
  /\ spent'  = [o \in Outputs |->
                  IF o \in old THEN s
                  ELSE IF spent[o] = s /\ o \notin settled THEN NoSlot
                  ELSE spent[o]]
=============================================================================
