---- MODULE OutputsAndSlots ----
(* What the index is about, for all modules of the core and for Query: the   *)
(* outputs a node can book, and the slots its commitments count.             *)
EXTENDS FiniteSets, Integers

CONSTANT Outputs   \* every output ID that can ever be booked
ASSUME OutputsAssumption == IsFiniteSet(Outputs)

\* Bound: the node commits no slot after this one.
CONSTANT MaxSlot
ASSUME MaxSlotAssumption == MaxSlot \in Nat

\* The slot of a status row that is not there (ErrStatusNotFound).
NoSlot == -1

Slots == 0..MaxSlot
====
