---------------------------- MODULE MCAgentLedger ----------------------------
(***************************************************************************)
(* Small instances of AgentLedger: a structured call may be repeated once, *)
(* a try once, and every answer costs one unit.                            *)
(***************************************************************************)
EXTENDS AgentLedger

MCCosts == {1}
MCSpeculation == {2}
=============================================================================
