---------------------------- MODULE MCLifecycle -----------------------------
(* Finite instances of Lifecycle: an import of basic outputs without multi   *)
(* addresses, and the process around it.                                     *)
EXTENDS Lifecycle, TLC

CONSTANTS o1, o2, o3

BasicOnly == {"basic"}
JustBasic == <<"basic">>

NoAddresses == [o \in Outputs |-> {[table |-> "basic", key |-> o, of |-> o]}]

\* Every commitment has the same outputs: the pipeline does not look at them.
OneLedger == {Outputs}
=============================================================================
