------------------------------ MODULE MCShell ------------------------------
(***************************************************************************)
(* Shell for TLC: a log of three entries and a short tick period.          *)
(***************************************************************************)
EXTENDS Shell
============================================================================
