--------------------------- MODULE MCLockFreeQueue ---------------------------
(* Instances of LockFreeQueue for TLC.  Threads are not symmetric here: the *)
(* instance checks liveness.                                               *)
EXTENDS LockFreeQueue
=============================================================================
