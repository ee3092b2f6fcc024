------------------------------ MODULE MCMutex -------------------------------
(***************************************************************************)
(* Mutex for TLC: the master, its namesake and one more process.           *)
(***************************************************************************)
EXTENDS Mutex
=============================================================================
