------------------------------ MODULE MCRbTree ------------------------------
(* Instances of RbTree for TLC.                                            *)
EXTENDS RbTree, TLC
=============================================================================
