--------------------------- MODULE MCUserDispatch ---------------------------
(* UserDispatch with one file object, a main thread and two threads of the   *)
(* pool.  The blocks of memory are taken in a fixed order, so that no        *)
(* symmetry is needed and liveness can be checked.                           *)
EXTENDS UserDispatch
=============================================================================
