--------------------------- MODULE MCSACVWorkflow ---------------------------
(***************************************************************************)
(* Instances of SACVWorkflow for TLC.  Money is counted in steps of ten    *)
(* dollars: 5 is warning_dollar and 8 critical_dollar of TokenBudget.      *)
(***************************************************************************)
EXTENDS SACVWorkflow

CONSTANTS p1, c1, c2, e1, e2    \* model values

MCNoCosts  == {0}
MCCosts    == {0, 3}
MCNoBlast  == {0}
MCBlast    == {0, 12}
MCOneProblem == {p1}
MCOneFinding == {c1}
MCTwoFindings == {c1, c2}
MCOneError == {e1}
MCTwoErrors == {e1, e2}
MCNeverSkip == {FALSE}
MCMaySkip == BOOLEAN
MCBothChecks == BOOLEAN
MCNoCheck == {FALSE}
=============================================================================
