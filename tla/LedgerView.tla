----------------------------- MODULE LedgerView -----------------------------
(* What the package promises its readers, without tables, transactions or    *)
(* workers: a committed ledger at a slot and, over it, an overlay of         *)
(* uncommitted outputs and spends that every commit and every restart cuts   *)
(* back. A reader sees View.                                                 *)
EXTENDS OutputsAndSlots

CONSTANT Strict   \* TRUE or FALSE: does the overlay only take slots that are not committed?

VARIABLES
  slot,     \* slot of the committed ledger, NoSlot before the first import
  ledger,   \* outputs unspent at slot
  extra,    \* <<o, s>>: created by an accepted transaction of slot s
  marks     \* <<o, s>>: spent by an accepted transaction of slot s

viewVars == <<slot, ledger, extra, marks>>

Overlay == SUBSET (Outputs \X Slots)
Of(pairs)       == {p[1] : p \in pairs}
At(S, s)        == {<<o, s>> : o \in S}
After(pairs, s) == {p \in pairs : p[2] > s}
Without(pairs, S) == {p \in pairs : p[1] \notin S}

\* What a list endpoint can return.
View == (ledger \ Of(marks)) \cup Of(extra)

ViewTypeOK ==
  /\ slot \in Slots \cup {NoSlot}
  /\ ledger \in SUBSET Outputs
  /\ extra \in Overlay /\ marks \in Overlay

-----------------------------------------------------------------------------
ViewInit == slot = NoSlot /\ ledger = {} /\ extra = {} /\ marks = {}

Import(s, L) ==
  /\ s > slot
  /\ slot' = s /\ ledger' = L
  /\ extra' = {} /\ marks' = {}

\* An accepted batch moves its spends out of the view and its outputs into it;
\* no two batches create the same output. A spend that is neither committed
\* nor known from another batch leaves no trace.
Accept(s, new, old) ==
  LET known == ledger \cup Of(extra) \cup Of(marks)
      hit   == old \cap known
  IN
  /\ slot # NoSlot
  /\ Strict => s > slot
  /\ new \cap known = {}
  /\ extra' = Without(extra, old) \cup At(new \ old, s)
  /\ marks' = Without(marks, hit) \cup At(hit, s)
  /\ UNCHANGED <<slot, ledger>>

\* The next slot: its update moves the ledger, and all that was accepted for
\* slots up to it is forgotten, whether the update confirms it or not. What was
\* accepted for later slots stays.
Commit(new, old) ==
  /\ slot # NoSlot
  /\ slot' = slot + 1
  /\ ledger' = (ledger \ old) \cup (new \ old)
  /\ extra' = Without(After(extra, slot'), old)
  /\ marks' = Without(After(marks, slot'), old)

\* A restart keeps what is committed and nothing else.
Forget == /\ extra' = {} /\ marks' = {}
          /\ UNCHANGED <<slot, ledger>>

\* The index is given up for an import that does not succeed.
Clear == /\ slot' = NoSlot /\ ledger' = {}
         /\ extra' = {} /\ marks' = {}

ViewNext ==
  \/ \E s \in Slots, L \in SUBSET Outputs : Import(s, L)
  \/ \E s \in Slots, new, old \in SUBSET Outputs : Accept(s, new, old)
  \/ \E new, old \in SUBSET Outputs : Commit(new, old)
  \/ Forget
  \/ Clear

ViewSpec == ViewInit /\ [][ViewNext]_viewVars
=============================================================================
