----------------------------- MODULE MCIndexer ------------------------------
(* Finite instances of Indexer and the properties TLC checks on them.        *)
EXTENDS IndexerProperties, TLC

CONSTANTS o1, o2, a1, a2   \* the outputs and addresses of the instances

\* Sound where the instance treats all outputs alike: NoHolds, OneAddressEach.
OutputSymmetry == Permutations(Outputs)

\* No output holds a multi address.
NoHolds == [o \in Outputs |-> [a \in Addrs |-> 0]]

\* Every output holds a1 twice, say as its owner and as its sender.
OneAddressEach == [o \in Outputs |-> [a \in Addrs |-> 2]]

\* o1 holds a1 twice and a2 once, say as its owner and sender and as the return
\* address of its storage deposit; o2 holds a2 once.
TwoAddresses ==
  [o \in Outputs |-> [a \in Addrs |-> IF a = a2 THEN 1
                                      ELSE IF o = o1 THEN 2 ELSE 0]]
=============================================================================
