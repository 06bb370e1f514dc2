--------------------------- MODULE MCDebugSession ----------------------------
(***************************************************************************)
(* The instance of DebugSession for TLC: MaxSteps and MaxPauses are given  *)
(* by the configuration.                                                   *)
(***************************************************************************)
EXTENDS DebugSession
=============================================================================
