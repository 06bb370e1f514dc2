---------------------------- MODULE MCDeltaDebug ----------------------------
(***************************************************************************)
(* Instances of DeltaDebug for TLC: every endpoint with at most two        *)
(* culprits of up to three fields and at most one required field, the first *)
(* or the last.                                                            *)
(***************************************************************************)
EXTENDS DeltaDebug

MCFields == 1..MaxFields
MCCulprits == {{a, b, c} : a \in MCFields, b \in MCFields, c \in MCFields}
MCEndpoints ==
    [culprits : {{}} \cup {{c, d} : c \in MCCulprits, d \in MCCulprits},
     required : {{}, {1}, {MaxFields}}]
=============================================================================
