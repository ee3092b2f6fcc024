---------------------------- MODULE MCScheduler ----------------------------
(***************************************************************************)
(* Scheduler for TLC.  The configurations differ in the inputs they allow. *)
(***************************************************************************)
EXTENDS Scheduler
=============================================================================
