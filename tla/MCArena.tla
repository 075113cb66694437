------------------------------- MODULE MCArena -------------------------------
(* Instances of Arena, with SizeClasses below it, for TLC: one pointer at a *)
(* time, since what happens to one does not depend on another; small        *)
(* classes and a small word, with the sizes around every boundary of both.  *)
EXTENDS Arena
=============================================================================
