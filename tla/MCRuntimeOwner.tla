--------------------------- MODULE MCRuntimeOwner ---------------------------
(* Small instance of RuntimeOwner for TLC. *)
EXTENDS RuntimeOwner, TLC

CONSTANTS o1

OneOp == {o1}
=============================================================================
