------------------------------ MODULE MCQuery -------------------------------
(* Finite instances of Query: outputs 1, 2 and 3 in two tables.              *)
EXTENDS Query

TwoTables == [o \in Outputs |-> IF o = 2 THEN "nft" ELSE "basic"]
=============================================================================
