------------------------------ MODULE MCImport ------------------------------
(* Finite instances of Import: basic outputs, some with a multi address.     *)
EXTENDS Import, TLC

CONSTANTS o1, o2, o3, m1, m2

Pipelines == {"basic", "multiaddress"}
InOrder   == <<"basic", "multiaddress">>

\* The unspent outputs of a commitment: any but none.
AnyLedger == (SUBSET Outputs) \ {{}}

\* All outputs, or one of them.
SomeLedgers == {Outputs, {o3}}

Basic(o)    == [table |-> "basic", key |-> o, of |-> o]
Multi(o, m) == [table |-> "multiaddress", key |-> m, of |-> o]

\* No two outputs hold the same multi address.
OwnAddresses ==
  [o \in Outputs |-> CASE o = o1 -> {Basic(o), Multi(o, m1)}
                       [] o = o2 -> {Basic(o), Multi(o, m2)}
                       [] OTHER  -> {Basic(o)}]

\* Two outputs of one multi address.
SharedAddress ==
  [o \in Outputs |-> {Basic(o), Multi(o, m1)}]
=============================================================================
