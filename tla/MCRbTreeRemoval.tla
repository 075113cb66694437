--------------------------- MODULE MCRbTreeRemoval ---------------------------
(* Instances of RbTreeRemoval for TLC.                                     *)
EXTENDS RbTreeRemoval, TLC
=============================================================================
