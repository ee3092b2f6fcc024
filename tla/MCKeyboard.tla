----------------------------- MODULE MCKeyboard -----------------------------
(***************************************************************************)
(* Keyboard for TLC.                                                       *)
(***************************************************************************)
EXTENDS Keyboard
=============================================================================
