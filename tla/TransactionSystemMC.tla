------------------------- MODULE TransactionSystemMC -------------------------
(***************************************************************************)
(* TransactionSystem for TLC: which interface sends which request.         *)
(***************************************************************************)
EXTENDS TransactionSystem

CONSTANT i1

OneSender == [r \in Requests |-> i1]
=============================================================================
