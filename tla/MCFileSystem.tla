---------------------------- MODULE MCFileSystem ----------------------------
(***************************************************************************)
(* FileSystem for TLC.                                                     *)
(***************************************************************************)
EXTENDS FileSystem
=============================================================================
