----------------------------- MODULE MCRecorder -----------------------------
(***************************************************************************)
(* Values for TLC.                                                          *)
(***************************************************************************)
EXTENDS Recorder

CONSTANT ana
=============================================================================
