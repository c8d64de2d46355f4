----------------------------- MODULE MCFilters ------------------------------
(* Finite instances of Filters: one account address and one other.           *)
EXTENDS Filters

CONSTANTS a, acc, t1, t2, tag

AllOptions ==
  {"unlockableByAddress", "hasNativeToken", "nativeToken", "createdBefore",
   "createdAfter"}
=============================================================================
