---------------------------- MODULE MCIpcChannel ----------------------------
(***************************************************************************)
(* IpcChannel for TLC: a ring that wraps several times.                    *)
(***************************************************************************)
EXTENDS IpcChannel
=============================================================================
