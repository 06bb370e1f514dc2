------------------------- MODULE SACVWorkflowProofs -------------------------
(***************************************************************************)
(* Proofs about SACVWorkflow for every value of its constants: types and   *)
(* counters, what reaches a plan and what is consolidated, when the graph  *)
(* debugs and speculates, that every step descends, and that a session     *)
(* stays on the graphs of AgentLedger and GitWorkspace.                    *)
(***************************************************************************)
EXTENDS SACVWorkflow, FiniteSetTheorems, TLAPS

USE DEF None, NoBranch

-----------------------------------------------------------------------------
(* The strengthening: what each stage of a session knows *)

Preparing == {"mode_router", "scout", "value_node", "tdd_gate"}
Checking  == {"preflight_node", "all_critics", "verifier"}

(* Counters: the loop counters are zero where their loop is entered. *)
CountersInv ==
    /\ CountersBounded
    /\ node \in Preparing \cup Checking \cup {"intelligent_debugger"}
         => emptyRetries = 0
    /\ node \in Preparing \ {"tdd_gate"} => tddAttempts = 0

(* Provenance: from the actor on there is evidence for the plan, from
   preflight on a diff for it, from the critics on a clean preflight. *)
ProvenanceInv ==
    /\ node \in Nodes \ {"bootstrap"} => plan >= 1
    /\ NoCrossPlanLeak
    /\ node \in Checking \cup {"actor", "intelligent_debugger",
                               "speculative_branch", "memory_consolidation"}
         => evidence = plan
    /\ node \in Checking \cup {"intelligent_debugger", "speculative_branch",
                               "memory_consolidation"}
         => diff = plan
    /\ node \in {"all_critics", "verifier", "intelligent_debugger",
                 "speculative_branch", "memory_consolidation"}
         => violations = {}
    /\ node \in Checking \cup {"intelligent_debugger", "speculative_branch",
                               "replan"}
         => debug = None
    /\ OnlyVerifiedPatchesConsolidate

(* Debugging: a plan that was debugged has counted an attempt since. *)
DebugInv ==
    /\ debugged <= plan
    /\ node \in Preparing => debugged < plan
    /\ node \in Checking \cup {"intelligent_debugger"}
         => correction.attempt >= 1
    /\ node \in Checking /\ debugged = plan => correction.attempt >= 2
    /\ node = "actor" /\ debugged = plan => correction.attempt >= 1
    /\ DebuggerOncePerPlan

(* Branches: from preflight on the state names a branch of the session. *)
BranchInv ==
    node \in Checking \cup {"intelligent_debugger", "speculative_branch"}
        => correction.branch \in branches

IInv == TypeOK /\ CountersInv /\ ProvenanceInv /\ DebugInv /\ BranchInv

-----------------------------------------------------------------------------
(* Types *)

(* Every conditional edge leads to a node of the graph. *)
LEMMA RoutesAreNodes ==
    /\ RouteAfterValueNode \in Nodes /\ RouteAfterReplan \in Nodes
    /\ RouteAfterTddGate \in Nodes /\ RouteAfterActor \in Nodes
    /\ RouteAfterPreflight \in Nodes /\ RouteAfterVerifier \in Nodes
    /\ RouteAfterSpeculativeBranch \in Nodes
BY DEF RouteAfterValueNode, RouteAfterReplan, RouteAfterTddGate,
       RouteAfterActor, RouteAfterPreflight, RouteAfterVerifier,
       RouteAfterSpeculativeBranch, Nodes

(* The same in the next state. *)
LEMMA NextRoutesAreNodes ==
    /\ RouteAfterValueNode' \in Nodes /\ RouteAfterReplan' \in Nodes
    /\ RouteAfterTddGate' \in Nodes /\ RouteAfterActor' \in Nodes
    /\ RouteAfterPreflight' \in Nodes /\ RouteAfterVerifier' \in Nodes
    /\ RouteAfterSpeculativeBranch' \in Nodes
BY DEF RouteAfterValueNode, RouteAfterReplan, RouteAfterTddGate,
       RouteAfterActor, RouteAfterPreflight, RouteAfterVerifier,
       RouteAfterSpeculativeBranch, Nodes

(* Spending keeps the cost a natural number. *)
LEMMA SpendingIsNat ==
    ASSUME cost \in Nat, \E d \in CostSteps : Spend(d)
    PROVE  cost' \in Nat
BY BudgetAssumption DEF Spend, AtMost

(* The fields of correction_state and of a verdict. *)
LEMMA ValueTypes ==
    ASSUME TypeOK
    PROVE  /\ [FreshCorrection EXCEPT !.signature = correction.signature]
                 \in Corrections
           /\ NoVerdict \in Verdicts
           /\ \A b1, b2, b3, b4 \in BOOLEAN : Fail(b1, b2, b3, b4) \in Verdicts
           /\ \A b \in BOOLEAN : Pass(b) \in Verdicts
           /\ Stagnation \in {"none", "iteration", "semantic", "outcome"}
           /\ Problems \in SUBSET Rules
BY DEF TypeOK, FreshCorrection, Corrections, NoVerdict, Verdicts, Fail, Pass,
       ErrorTexts, Stagnation, Problems, Rules

(* What an actor or a verifier may do to correction_state keeps its type. *)
LEMMA CorrectionTypes ==
    ASSUME TypeOK
    PROVE  /\ ActorBranch \in Nat
           /\ NextAttempt \in Corrections
           /\ [correction EXCEPT !.attempt = @ + 1] \in Corrections
           /\ [correction EXCEPT !.attempt = MaxCycles, !.pattern = Stagnation]
                 \in Corrections
           /\ [correction EXCEPT !.signature = {Problems}] \in Corrections
           /\ \A e \in ErrorTexts :
                 /\ [correction EXCEPT !.errors = Remember(e)] \in Corrections
                 /\ [correction EXCEPT !.errors = Remember(e),
                                       !.signature = {Problems}] \in Corrections
<1>1. ActorBranch \in Nat
  BY DEF TypeOK, Corrections, ActorBranch, HasBranch
<1>2. NextAttempt \in Corrections
  <2>1. /\ correction.attempt + 1 \in Nat
        /\ ActorBranch \in Nat \cup {NoBranch}
        /\ correction \in Corrections
    BY <1>1 DEF TypeOK, Corrections
  <2>2. QED BY <2>1 DEF NextAttempt, Corrections
<1>3. [correction EXCEPT !.attempt = @ + 1] \in Corrections
  BY DEF TypeOK, Corrections
<1>4. [correction EXCEPT !.attempt = MaxCycles, !.pattern = Stagnation]
        \in Corrections
  BY ValueTypes, CyclesAssumption DEF TypeOK, Corrections
<1>5. {Problems} \in SUBSET SUBSET Rules
  BY ValueTypes
<1>6. [correction EXCEPT !.signature = {Problems}] \in Corrections
  BY <1>5 DEF TypeOK, Corrections
<1>7. ASSUME NEW e \in ErrorTexts
      PROVE  /\ [correction EXCEPT !.errors = Remember(e)] \in Corrections
             /\ [correction EXCEPT !.errors = Remember(e),
                                   !.signature = {Problems}] \in Corrections
  <2>1. Remember(e) \in ErrorTexts \X ErrorTexts
    BY DEF TypeOK, Corrections, Remember
  <2>2. QED BY <2>1, <1>5 DEF TypeOK, Corrections
<1>8. QED BY <1>1, <1>2, <1>3, <1>4, <1>6, <1>7

(* Every action keeps the types of the state. *)
LEMMA NextKeepsTypes == TypeOK /\ [Next]_vars => TypeOK'
<1> SUFFICES ASSUME TypeOK, [Next]_vars PROVE TypeOK'
  OBVIOUS
<1> USE DEF TypeOK
<1>1. CASE Bootstrap
  <2>1. correction' \in Corrections /\ verdict' \in Verdicts
    BY <1>1, ValueTypes DEF Bootstrap, ForgetPlan
  <2>2. node' \in Nodes
    BY <1>1, NextRoutesAreNodes DEF Bootstrap, Nodes
  <2>3. /\ cost' \in Nat /\ diff' \in Nat /\ evidence' \in Nat /\ debug' \in Nat
        /\ emptyRetries' \in Nat /\ tddAttempts' \in Nat
        /\ replanCount' \in Nat /\ plan' \in Nat
    BY <1>1, SpendingIsNat DEF Bootstrap, ForgetPlan
  <2>4. QED
    BY <1>1, <2>1, <2>2, <2>3 DEF Bootstrap, ForgetPlan, task
<1>2. CASE ModeRouter
  BY <1>2 DEF ModeRouter, session, oracle, task, history, Nodes
<1>3. CASE Scout
  BY <1>3 DEF Scout, oracle, task, history, Nodes
<1>4. CASE ValueNode
  BY <1>4, NextRoutesAreNodes, SpendingIsNat
     DEF ValueNode, oracle, task, history
<1>5. CASE TddGateSkips
  BY <1>5, NextRoutesAreNodes DEF TddGateSkips, TddGateFrame, session, task,
     history
<1>6. CASE TddGateFails
  <2>1. /\ cost' \in Nat /\ tddAttempts' \in Nat /\ evidence' \in Nat
        /\ node' \in Nodes
    BY <1>6, SpendingIsNat, NextRoutesAreNodes DEF TddGateFails, TddGateFrame
  <2>2. QED
    BY <1>6, <2>1 DEF TddGateFails, TddGateFrame, session, task, history
<1>7. CASE TddGateConfirmsRed
  BY <1>7, NextRoutesAreNodes, SpendingIsNat
     DEF TddGateConfirmsRed, TddGateFrame, session, task, history
<1>8. CASE ActorStagnates
  BY <1>8, NextRoutesAreNodes, ValueTypes, CorrectionTypes
     DEF ActorStagnates, ActorFrame, session, oracle, task
<1>9. CASE ActorParseError
  <2>1. cost' \in Nat /\ node' \in Nodes
    BY <1>9, SpendingIsNat, NextRoutesAreNodes DEF ActorParseError, ActorWorks, ActorFrame
  <2>2. correction' \in Corrections /\ branches' \in SUBSET Nat
    BY <1>9, CorrectionTypes DEF ActorParseError, ActorWorks
  <2>3. QED
    BY <1>9, <2>1, <2>2 DEF ActorParseError, ActorWorks, ActorFrame, session,
       oracle, task
<1>10. CASE ActorNoDiff
  <2>1. cost' \in Nat /\ node' \in Nodes
    BY <1>10, SpendingIsNat, NextRoutesAreNodes DEF ActorNoDiff, ActorWorks, ActorFrame
  <2>2. correction' \in Corrections /\ branches' \in SUBSET Nat
    BY <1>10, CorrectionTypes DEF ActorNoDiff, ActorWorks
  <2>3. QED
    BY <1>10, <2>1, <2>2 DEF ActorNoDiff, ActorWorks, ActorFrame, session,
       oracle, task
<1>11. CASE ActorApplyFails
  BY <1>11, NextRoutesAreNodes, SpendingIsNat, CorrectionTypes
     DEF ActorApplyFails, ActorWorks, ActorFrame, session, oracle, task
<1>12. CASE ActorApplies
  BY <1>12, NextRoutesAreNodes, SpendingIsNat, CorrectionTypes, ValueTypes
     DEF ActorApplies, ActorWorks, ActorFrame, session, oracle, task
<1>13. CASE BranchCreationFails
  BY <1>13 DEF BranchCreationFails, EndFrame, session, oracle, task, history,
     Terminal
<1>14. CASE PreflightNode
  BY <1>14, NextRoutesAreNodes DEF PreflightNode, BlastErrors, session, oracle,
     task, history
<1>15. CASE AllCritics
  BY <1>15, SpendingIsNat DEF AllCritics, session, oracle, task, history,
     Nodes
<1>16. CASE VerifierDeletionGuard
  <2>1. correction' \in Corrections
    <3>1. PICK e \in TestErrors :
            correction' = [correction EXCEPT !.errors = Remember(e)]
      BY <1>16 DEF VerifierDeletionGuard
    <3>2. QED BY <3>1, CorrectionTypes DEF ErrorTexts
  <2>2. verdict' \in Verdicts
    BY <1>16, ValueTypes DEF VerifierDeletionGuard
  <2>3. QED
    BY <1>16, <2>1, <2>2, NextRoutesAreNodes
       DEF VerifierDeletionGuard, VerifierFrame, session, oracle, task,
           history
<1>17. CASE VerifierCriticBlock
  BY <1>17, NextRoutesAreNodes, ValueTypes, CorrectionTypes
     DEF VerifierCriticBlock, VerifierFrame, session, oracle, task, history,
         ErrorTexts
<1>18. CASE VerifierPhase1Fails
  <2>1. correction' \in Corrections
    <3>1. PICK e \in TestErrors \cup {"none"} :
            correction' = [correction EXCEPT !.errors = Remember(e),
                                             !.signature = {Problems}]
      BY <1>18 DEF VerifierPhase1Fails
    <3>2. QED BY <3>1, CorrectionTypes DEF ErrorTexts
  <2>2. verdict' \in Verdicts
    BY <1>18, ValueTypes DEF VerifierPhase1Fails
  <2>3. QED
    BY <1>18, <2>1, <2>2, NextRoutesAreNodes
       DEF VerifierPhase1Fails, VerifierFrame, session, oracle, task, history
<1>19. CASE VerifierPhase2Fails
  <2>1. correction' \in Corrections
    <3>1. PICK e \in TestErrors \cup {"none"} :
            correction' = [correction EXCEPT !.errors = Remember(e),
                                             !.signature = {Problems}]
      BY <1>19 DEF VerifierPhase2Fails
    <3>2. QED BY <3>1, CorrectionTypes DEF ErrorTexts
  <2>2. verdict' \in Verdicts
    BY <1>19, ValueTypes DEF VerifierPhase2Fails
  <2>3. QED
    BY <1>19, <2>1, <2>2, NextRoutesAreNodes
       DEF VerifierPhase2Fails, VerifierFrame, session, oracle, task, history
<1>20. CASE VerifierPasses
  BY <1>20, NextRoutesAreNodes, ValueTypes, CorrectionTypes
     DEF VerifierPasses, VerifierFrame, session, oracle, task, history
<1>21. CASE VerifierRaises
  BY <1>21, NextRoutesAreNodes, ValueTypes, CorrectionTypes
     DEF VerifierRaises, VerifierFrame, session, oracle, task, history
<1>22. CASE IntelligentDebugger
  BY <1>22, SpendingIsNat DEF IntelligentDebugger, session, oracle, task,
     Nodes
<1>23. CASE SpeculativeBranchWins
  BY <1>23, NextRoutesAreNodes, ValueTypes
     DEF SpeculativeBranchWins, SpeculativeBranchFrame, session, oracle,
         task, history, MarkerMayBeStashed
<1>24. CASE SpeculativeBranchFails
  BY <1>24, NextRoutesAreNodes, ValueTypes
     DEF SpeculativeBranchFails, SpeculativeBranchFrame, session, oracle,
         task, history, MarkerMayBeStashed
<1>25. CASE Replan
  <2>1. correction' \in Corrections /\ verdict' \in Verdicts
    BY <1>25, ValueTypes DEF Replan, ForgetPlan
  <2>2. node' \in Nodes
    BY <1>25, NextRoutesAreNodes DEF Replan, Nodes
  <2>3. /\ cost' \in Nat /\ diff' \in Nat /\ evidence' \in Nat /\ debug' \in Nat
        /\ emptyRetries' \in Nat /\ tddAttempts' \in Nat
        /\ replanCount' \in Nat /\ plan' \in Nat
    BY <1>25, SpendingIsNat DEF Replan, ForgetPlan
  <2>4. QED
    BY <1>25, <2>1, <2>2, <2>3 DEF Replan, ForgetPlan, task
<1>26. CASE MemoryConsolidation
  BY <1>26 DEF MemoryConsolidation, EndFrame, session, oracle, task, history,
     Terminal
<1>27. CASE HitlEscalation
  BY <1>27 DEF HitlEscalation, EndFrame, session, oracle, task, history,
     Terminal
<1>28. CASE NodeRaises
  BY <1>28, CorrectionTypes DEF NodeRaises, EndFrame, session, oracle, task,
     history, Terminal, MarkerMayBeStashed
<1>29. CASE Resume
  BY <1>29 DEF Resume, EndFrame, session, oracle, task, history, Terminal
<1>30. CASE Rerun
  BY <1>30, FlagsAssumption DEF Rerun, EndFrame, session, oracle, task, history,
     Nodes
<1>31. CASE UNCHANGED vars
  BY <1>31 DEF vars, session, oracle, task, history
<1>32. CASE HitlReturns
  BY <1>32
     DEF HitlReturns, EndFrame, session, oracle, task, history, Terminal
<1>33. QED
  BY <1>1, <1>2, <1>3, <1>4, <1>5, <1>6, <1>7, <1>8, <1>9, <1>10, <1>11,
     <1>12, <1>13, <1>14, <1>15, <1>16, <1>17, <1>18, <1>19, <1>20, <1>21,
     <1>22, <1>23, <1>24, <1>25, <1>26, <1>27, <1>28, <1>29, <1>30, <1>31,
     <1>32 DEF Next, SessionStep, Stopped

(* The initial state has the types. *)
LEMMA InitTypes == Init => TypeOK
<1>1. FreshCorrection \in Corrections /\ NoVerdict \in Verdicts
  BY DEF FreshCorrection, Corrections, NoVerdict, Verdicts, ErrorTexts
<1>2. Init => /\ emptyRetries \in Nat /\ tddAttempts \in Nat
              /\ replanCount \in Nat /\ cost \in Nat /\ runs \in Nat
              /\ plan \in Nat /\ debugged \in Nat
              /\ diff \in Nat /\ evidence \in Nat /\ debug \in Nat
              /\ blast \in [over : BOOLEAN, penalty : BlastPenalties \cup {0}]
  BY DEF Init
<1>3. QED BY <1>1, <1>2, FlagsAssumption DEF Init, TypeOK, Nodes

(* The types of the workflow state hold in every reachable state. *)
THEOREM TypeCorrect == Spec => []TypeOK
<1>1. Init => TypeOK
  BY InitTypes
<1>2. TypeOK /\ [Next]_vars => TypeOK'
  BY NextKeepsTypes
<1>3. QED BY <1>1, <1>2, PTL DEF Spec

-----------------------------------------------------------------------------
(* Counters *)

(* Every action keeps the loop counters within their limits. *)
LEMMA NextKeepsCounters == TypeOK /\ CountersInv /\ [Next]_vars => CountersInv'
<1> SUFFICES ASSUME TypeOK, CountersInv, [Next]_vars PROVE CountersInv'
  OBVIOUS
<1> USE CyclesAssumption, LimitsAssumption
    DEF CountersInv, CountersBounded, Preparing, Checking
<1>0. /\ correction.attempt \in Nat
      /\ correction \in Corrections
      /\ emptyRetries \in Nat /\ tddAttempts \in Nat /\ replanCount \in Nat
  BY DEF TypeOK, Corrections
<1>1. CASE Bootstrap
  BY <1>0, <1>1 DEF Bootstrap, ForgetPlan, FreshCorrection, Corrections,
     Terminal, task
<1>2. CASE ModeRouter
  BY <1>0, <1>2 DEF ModeRouter, session, oracle, task, Corrections, Terminal
<1>3. CASE Scout
  BY <1>0, <1>3 DEF Scout, oracle, task, Corrections, Terminal
<1>4. CASE ValueNode
  BY <1>0, <1>4 DEF ValueNode, oracle, task, RouteAfterValueNode,
     Corrections, Terminal
<1>5. CASE TddGateSkips
  BY <1>0, <1>5 DEF TddGateSkips, TddGateFrame, session, task, history,
     RouteAfterTddGate, Corrections, Terminal
<1>6. CASE TddGateFails
  BY <1>0, <1>6 DEF TddGateFails, TddGateFrame, session, task, history,
     RouteAfterTddGate, Corrections, Terminal
<1>7. CASE TddGateConfirmsRed
  BY <1>0, <1>7 DEF TddGateConfirmsRed, TddGateFrame, session, task, history,
     RouteAfterTddGate, Corrections, Terminal
<1>8. CASE ActorStagnates
  BY <1>0, <1>8 DEF ActorStagnates, ActorFrame, session, oracle, task,
     RouteAfterActor, Corrections, Terminal
<1>9. CASE ActorParseError
  BY <1>0, <1>9 DEF ActorParseError, ActorWorks, ActorFrame, session, oracle,
     task, RouteAfterActor, Stagnation, Corrections, Terminal
<1>10. CASE ActorNoDiff
  BY <1>0, <1>10 DEF ActorNoDiff, ActorWorks, ActorFrame, session, oracle,
     task, RouteAfterActor, Stagnation, Corrections, Terminal
<1>11. CASE ActorApplyFails
  BY <1>0, <1>11 DEF ActorApplyFails, ActorWorks, ActorFrame, NextAttempt,
     session, oracle, task, RouteAfterActor, Stagnation, Corrections,
     Terminal
<1>12. CASE ActorApplies
  BY <1>0, <1>12 DEF ActorApplies, ActorWorks, ActorFrame, NextAttempt,
     session, oracle, task, RouteAfterActor, Stagnation, Corrections,
     Terminal
<1>13. CASE BranchCreationFails
  BY <1>0, <1>13 DEF BranchCreationFails, EndFrame, session, oracle, task,
     Corrections, Terminal
<1>14. CASE PreflightNode
  BY <1>0, <1>14 DEF PreflightNode, session, oracle, task,
     RouteAfterPreflight, Corrections, Terminal
<1>15. CASE AllCritics
  BY <1>0, <1>15 DEF AllCritics, session, oracle, task, Corrections, Terminal
<1>16. CASE VerifierDeletionGuard
  BY <1>0, <1>16 DEF VerifierDeletionGuard, VerifierFrame, session, oracle,
     task, RouteAfterVerifier, Fail, Corrections, Terminal
<1>17. CASE VerifierCriticBlock
  BY <1>0, <1>17 DEF VerifierCriticBlock, VerifierFrame, session, oracle,
     task, RouteAfterVerifier, Fail, Corrections, Terminal
<1>18. CASE VerifierPhase1Fails
  BY <1>0, <1>18 DEF VerifierPhase1Fails, VerifierFrame, session, oracle,
     task, RouteAfterVerifier, Fail, Corrections, Terminal
<1>19. CASE VerifierPhase2Fails
  BY <1>0, <1>19 DEF VerifierPhase2Fails, VerifierFrame, session, oracle,
     task, RouteAfterVerifier, Fail, Corrections, Terminal
<1>20. CASE VerifierPasses
  BY <1>0, <1>20 DEF VerifierPasses, VerifierFrame, session, oracle, task,
     RouteAfterVerifier, Pass, Corrections, Terminal
<1>21. CASE VerifierRaises
  <2>1. /\ correction'.attempt = correction.attempt + 1
        /\ correction'.attempt \in Nat
        /\ node = "verifier"
        /\ emptyRetries' = emptyRetries /\ tddAttempts' = tddAttempts
        /\ replanCount' = replanCount
    BY <1>0, <1>21 DEF VerifierRaises, VerifierFrame, session, oracle, task,
       Corrections
  <2>2. correction.attempt <= MaxCycles
    BY <1>0, <2>1 DEF Terminal
  <2>3. verdict'.result = "FAIL" /\ ~verdict'.blocked
    BY <1>21 DEF VerifierRaises, Fail
  <2>4. node' = RouteAfterVerifier'
    BY <1>21 DEF VerifierRaises, VerifierFrame
  <2>5. correction'.attempt >= MaxCycles => node' = "hitl_escalation"
    BY <2>3, <2>4 DEF RouteAfterVerifier
  <2>6. node' \in {"hitl_escalation", "actor", "intelligent_debugger",
                  "speculative_branch"}
    BY <2>3, <2>4 DEF RouteAfterVerifier
  <2>7. correction'.attempt <= MaxCycles + 1
    BY <1>0, <2>1, <2>2
  <2>8. correction'.attempt = MaxCycles + 1 => node' = "hitl_escalation"
    BY <2>1, <2>5
  <2>9. emptyRetries = 0
    BY <2>1
  <2>10. QED BY <1>0, <2>1, <2>6, <2>7, <2>8, <2>9 DEF Terminal
<1>22. CASE IntelligentDebugger
  BY <1>0, <1>22 DEF IntelligentDebugger, session, oracle, task, Corrections,
     Terminal
<1>23. CASE SpeculativeBranchWins
  BY <1>0, <1>23 DEF SpeculativeBranchWins, SpeculativeBranchFrame, session,
     oracle, task, RouteAfterSpeculativeBranch, Corrections, Terminal
<1>24. CASE SpeculativeBranchFails
  BY <1>0, <1>24 DEF SpeculativeBranchFails, SpeculativeBranchFrame, session,
     oracle, task, RouteAfterSpeculativeBranch, Corrections, Terminal
<1>25. CASE Replan
  BY <1>0, <1>25 DEF Replan, ForgetPlan, FreshCorrection, RouteAfterReplan,
     Corrections, Terminal, task
<1>26. CASE MemoryConsolidation
  BY <1>0, <1>26 DEF MemoryConsolidation, EndFrame, session, oracle, task,
     Corrections, Terminal
<1>27. CASE HitlEscalation
  BY <1>0, <1>27 DEF HitlEscalation, EndFrame, session, oracle, task,
     Corrections, Terminal
<1>28. CASE NodeRaises
  BY <1>0, <1>28 DEF NodeRaises, EndFrame, session, oracle, task,
     Corrections, Terminal
<1>29. CASE Resume
  BY <1>0, <1>29 DEF Resume, EndFrame, session, oracle, task, Corrections,
     Terminal
<1>30. CASE Rerun
  BY <1>0, <1>30 DEF Rerun, EndFrame, session, oracle, task, Corrections,
     Terminal
<1>31. CASE UNCHANGED vars
  BY <1>31 DEF vars, session, oracle, task, history
<1>32. CASE HitlReturns
  BY <1>0, <1>32 DEF HitlReturns, EndFrame, session, oracle, task,
     Corrections, Terminal
<1>33. QED
  BY <1>1, <1>2, <1>3, <1>4, <1>5, <1>6, <1>7, <1>8, <1>9, <1>10, <1>11,
     <1>12, <1>13, <1>14, <1>15, <1>16, <1>17, <1>18, <1>19, <1>20, <1>21,
     <1>22, <1>23, <1>24, <1>25, <1>26, <1>27, <1>28, <1>29, <1>30, <1>31,
     <1>32 DEF Next, SessionStep, Stopped

(* No loop of the graph goes past its limit, in any session and whatever the
   agents, the tests and git answer. *)
THEOREM CountersStayBounded == Spec => []CountersBounded
<1>1. Init => TypeOK /\ CountersInv
  <2>1. Init => CountersInv
    BY CyclesAssumption, LimitsAssumption
       DEF Init, CountersInv, CountersBounded, FreshCorrection, Preparing,
           Checking, Terminal
  <2>2. QED BY <2>1, InitTypes
<1>2. TypeOK /\ CountersInv /\ [Next]_vars => (TypeOK /\ CountersInv)'
  BY NextKeepsTypes, NextKeepsCounters
<1>3. CountersInv => CountersBounded
  BY DEF CountersInv
<1>4. QED BY <1>1, <1>2, <1>3, PTL DEF Spec

-----------------------------------------------------------------------------
(* Provenance *)

(* Every action works on values of the current plan only. *)
LEMMA NextKeepsProvenance == TypeOK /\ ProvenanceInv /\ [Next]_vars => ProvenanceInv'
<1> SUFFICES ASSUME TypeOK, ProvenanceInv, [Next]_vars PROVE ProvenanceInv'
  OBVIOUS
<1> USE DEF ProvenanceInv, NoCrossPlanLeak, OnlyVerifiedPatchesConsolidate,
         Preparing, Checking, Nodes
<1>0. plan \in Nat /\ plan + 1 >= 1 /\ plan + 1 # 0
  BY DEF TypeOK
<1>1. CASE Bootstrap
  BY <1>0, <1>1 DEF Bootstrap, ForgetPlan, NoVerdict, Terminal, task
<1>2. CASE ModeRouter
  BY <1>0, <1>2 DEF ModeRouter, session, oracle, task, history, Terminal
<1>3. CASE Scout
  BY <1>0, <1>3 DEF Scout, oracle, task, history, Terminal
<1>4. CASE ValueNode
  BY <1>0, <1>4 DEF ValueNode, oracle, task, RouteAfterValueNode, history,
     Terminal
<1>5. CASE TddGateSkips
  BY <1>0, <1>5 DEF TddGateSkips, TddGateFrame, session, task,
     RouteAfterTddGate, history, Terminal
<1>6. CASE TddGateFails
  BY <1>0, <1>6 DEF TddGateFails, TddGateFrame, session, task,
     RouteAfterTddGate, history, Terminal
<1>7. CASE TddGateConfirmsRed
  BY <1>0, <1>7 DEF TddGateConfirmsRed, TddGateFrame, session, task,
     RouteAfterTddGate, history, Terminal
<1>8. CASE ActorStagnates
  BY <1>0, <1>8 DEF ActorStagnates, ActorFrame, session, oracle, task,
     RouteAfterActor, history, Fail, Terminal
<1>9. CASE ActorParseError
  BY <1>0, <1>9 DEF ActorParseError, ActorWorks, ActorFrame, session, oracle,
     task, RouteAfterActor, history, Terminal
<1>10. CASE ActorNoDiff
  BY <1>0, <1>10 DEF ActorNoDiff, ActorWorks, ActorFrame, session, oracle,
     task, RouteAfterActor, history, Terminal
<1>11. CASE ActorApplyFails
  BY <1>0, <1>11 DEF ActorApplyFails, ActorWorks, ActorFrame, session,
     oracle, task, RouteAfterActor, history, Terminal
<1>12. CASE ActorApplies
  BY <1>0, <1>12 DEF ActorApplies, ActorWorks, ActorFrame, session, oracle,
     task, RouteAfterActor, history, Terminal
<1>13. CASE BranchCreationFails
  BY <1>0, <1>13 DEF BranchCreationFails, EndFrame, session, oracle, task,
     history, Terminal
<1>14. CASE PreflightNode
  BY <1>0, <1>14 DEF PreflightNode, session, oracle, task,
     RouteAfterPreflight, history, Terminal
<1>15. CASE AllCritics
  BY <1>0, <1>15 DEF AllCritics, session, oracle, task, history, Terminal
<1>16. CASE VerifierDeletionGuard
  BY <1>0, <1>16 DEF VerifierDeletionGuard, VerifierFrame, session, oracle,
     task, RouteAfterVerifier, Fail, history, Terminal
<1>17. CASE VerifierCriticBlock
  BY <1>0, <1>17 DEF VerifierCriticBlock, VerifierFrame, session, oracle,
     task, RouteAfterVerifier, Fail, history, Terminal
<1>18. CASE VerifierPhase1Fails
  BY <1>0, <1>18 DEF VerifierPhase1Fails, VerifierFrame, session, oracle,
     task, RouteAfterVerifier, Fail, history, Terminal
<1>19. CASE VerifierPhase2Fails
  BY <1>0, <1>19 DEF VerifierPhase2Fails, VerifierFrame, session, oracle,
     task, RouteAfterVerifier, Fail, history, Terminal
<1>20. CASE VerifierPasses
  BY <1>0, <1>20 DEF VerifierPasses, VerifierFrame, session, oracle, task,
     RouteAfterVerifier, Pass, history, Terminal
<1>21. CASE VerifierRaises
  BY <1>0, <1>21 DEF VerifierRaises, VerifierFrame, session, oracle, task,
     RouteAfterVerifier, Fail, history, Terminal
<1>22. CASE IntelligentDebugger
  BY <1>0, <1>22 DEF IntelligentDebugger, session, oracle, task, history,
     Terminal
<1>23. CASE SpeculativeBranchWins
  BY <1>0, <1>23 DEF SpeculativeBranchWins, SpeculativeBranchFrame, session,
     oracle, task, RouteAfterSpeculativeBranch, history, Pass, Terminal
<1>24. CASE SpeculativeBranchFails
  BY <1>0, <1>24 DEF SpeculativeBranchFails, SpeculativeBranchFrame, session,
     oracle, task, RouteAfterSpeculativeBranch, history, Fail, Terminal
<1>25. CASE Replan
  BY <1>0, <1>25 DEF Replan, ForgetPlan, NoVerdict, RouteAfterReplan,
     Terminal, task
<1>26. CASE MemoryConsolidation
  BY <1>0, <1>26 DEF MemoryConsolidation, EndFrame, session, oracle, task,
     history, Terminal
<1>27. CASE HitlEscalation
  BY <1>0, <1>27 DEF HitlEscalation, EndFrame, session, oracle, task,
     history, Terminal
<1>28. CASE NodeRaises
  BY <1>0, <1>28 DEF NodeRaises, EndFrame, session, oracle, task, history,
     Terminal
<1>29. CASE Resume
  BY <1>0, <1>29 DEF Resume, EndFrame, session, oracle, task, history,
     Terminal
<1>30. CASE Rerun
  BY <1>0, <1>30 DEF Rerun, EndFrame, session, oracle, task, history, Terminal
<1>31. CASE UNCHANGED vars
  BY <1>31 DEF vars, session, oracle, task, history
<1>32. CASE HitlReturns
  BY <1>0, <1>32 DEF HitlReturns, EndFrame, session, oracle, task, history,
     Terminal
<1>33. QED
  BY <1>1, <1>2, <1>3, <1>4, <1>5, <1>6, <1>7, <1>8, <1>9, <1>10, <1>11,
     <1>12, <1>13, <1>14, <1>15, <1>16, <1>17, <1>18, <1>19, <1>20, <1>21,
     <1>22, <1>23, <1>24, <1>25, <1>26, <1>27, <1>28, <1>29, <1>30, <1>31,
     <1>32 DEF Next, SessionStep, Stopped
(* What consolidation records is a patch of the current plan that passed its
   checks, in every session. *)
THEOREM ConsolidationIsVerified == Spec => []OnlyVerifiedPatchesConsolidate
<1>1. Init => ProvenanceInv
  BY DEF Init, ProvenanceInv, NoCrossPlanLeak, OnlyVerifiedPatchesConsolidate,
         Checking, Nodes, NoVerdict
<1>2. ProvenanceInv => OnlyVerifiedPatchesConsolidate
  BY DEF ProvenanceInv
<1>3. QED
  BY <1>1, <1>2, InitTypes, NextKeepsTypes, NextKeepsProvenance, PTL DEF Spec

(* No node that works on a plan sees a diff, red-phase evidence, a debug
   session or a verdict of an earlier one. *)
THEOREM PlansDoNotLeak == Spec => []NoCrossPlanLeak
<1>1. Init => ProvenanceInv
  BY DEF Init, ProvenanceInv, NoCrossPlanLeak, OnlyVerifiedPatchesConsolidate,
         Checking, Nodes, NoVerdict
<1>2. ProvenanceInv => NoCrossPlanLeak
  BY DEF ProvenanceInv
<1>3. QED
  BY <1>1, <1>2, InitTypes, NextKeepsTypes, NextKeepsProvenance, PTL DEF Spec


-----------------------------------------------------------------------------
(* Debugging *)

(* Every action keeps what is known of the attempts of a debugged plan. *)
LEMMA NextKeepsDebugging == TypeOK /\ DebugInv /\ [Next]_vars => DebugInv'
<1> SUFFICES ASSUME TypeOK, DebugInv, [Next]_vars PROVE DebugInv'
  OBVIOUS
<1> USE CyclesAssumption DEF DebugInv, DebuggerOncePerPlan, Preparing, Checking
<1>0. /\ plan \in Nat /\ debugged \in Nat
      /\ correction \in Corrections /\ correction.attempt \in Nat
  BY DEF TypeOK, Corrections
<1>1. CASE Bootstrap
  BY <1>0, <1>1 DEF Bootstrap, ForgetPlan, FreshCorrection, history,
     Corrections, Terminal, task
<1>2. CASE ModeRouter
  BY <1>0, <1>2 DEF ModeRouter, session, oracle, task, history, Corrections,
     Terminal
<1>3. CASE Scout
  BY <1>0, <1>3 DEF Scout, oracle, task, history, Corrections, Terminal
<1>4. CASE ValueNode
  BY <1>0, <1>4 DEF ValueNode, oracle, task, RouteAfterValueNode, history,
     Corrections, Terminal
<1>5. CASE TddGateSkips
  BY <1>0, <1>5 DEF TddGateSkips, TddGateFrame, session, task,
     RouteAfterTddGate, history, Corrections, Terminal
<1>6. CASE TddGateFails
  BY <1>0, <1>6 DEF TddGateFails, TddGateFrame, session, task,
     RouteAfterTddGate, history, Corrections, Terminal
<1>7. CASE TddGateConfirmsRed
  BY <1>0, <1>7 DEF TddGateConfirmsRed, TddGateFrame, session, task,
     RouteAfterTddGate, history, Corrections, Terminal
<1>8. CASE ActorStagnates
  BY <1>0, <1>8 DEF ActorStagnates, ActorFrame, session, oracle, task,
     RouteAfterActor, history, Corrections, Terminal
<1>9. CASE ActorParseError
  BY <1>0, <1>9 DEF ActorParseError, ActorWorks, ActorFrame, session, oracle,
     task, RouteAfterActor, Stagnation, history, Corrections, Terminal
<1>10. CASE ActorNoDiff
  BY <1>0, <1>10 DEF ActorNoDiff, ActorWorks, ActorFrame, session, oracle,
     task, RouteAfterActor, Stagnation, history, Corrections, Terminal
<1>11. CASE ActorApplyFails
  BY <1>0, <1>11 DEF ActorApplyFails, ActorWorks, ActorFrame, NextAttempt,
     session, oracle, task, RouteAfterActor, Stagnation, history,
     Corrections, Terminal
<1>12. CASE ActorApplies
  BY <1>0, <1>12 DEF ActorApplies, ActorWorks, ActorFrame, NextAttempt,
     session, oracle, task, RouteAfterActor, Stagnation, history,
     Corrections, Terminal
<1>13. CASE BranchCreationFails
  BY <1>0, <1>13 DEF BranchCreationFails, EndFrame, session, oracle, task,
     history, Corrections, Terminal
<1>14. CASE PreflightNode
  BY <1>0, <1>14 DEF PreflightNode, session, oracle, task,
     RouteAfterPreflight, history, Corrections, Terminal
<1>15. CASE AllCritics
  BY <1>0, <1>15 DEF AllCritics, session, oracle, task, history, Corrections,
     Terminal
<1>16. CASE VerifierDeletionGuard
  BY <1>0, <1>16 DEF VerifierDeletionGuard, VerifierFrame, session, oracle,
     task, RouteAfterVerifier, DebugsNow, Fail, history, Corrections,
     Terminal
<1>17. CASE VerifierCriticBlock
  BY <1>0, <1>17 DEF VerifierCriticBlock, VerifierFrame, session, oracle,
     task, RouteAfterVerifier, DebugsNow, Fail, history, Corrections,
     Terminal
<1>18. CASE VerifierPhase1Fails
  BY <1>0, <1>18 DEF VerifierPhase1Fails, VerifierFrame, session, oracle,
     task, RouteAfterVerifier, DebugsNow, Fail, history, Corrections,
     Terminal
<1>19. CASE VerifierPhase2Fails
  BY <1>0, <1>19 DEF VerifierPhase2Fails, VerifierFrame, session, oracle,
     task, RouteAfterVerifier, DebugsNow, Fail, history, Corrections,
     Terminal
<1>20. CASE VerifierPasses
  BY <1>0, <1>20 DEF VerifierPasses, VerifierFrame, session, oracle, task,
     RouteAfterVerifier, Pass, history, Corrections, Terminal
<1>21. CASE VerifierRaises
  BY <1>0, <1>21 DEF VerifierRaises, VerifierFrame, session, oracle, task,
     RouteAfterVerifier, DebugsNow, Fail, history, Corrections, Terminal
<1>22. CASE IntelligentDebugger
  BY <1>0, <1>22 DEF IntelligentDebugger, session, oracle, task, history,
     Corrections, Terminal
<1>23. CASE SpeculativeBranchWins
  BY <1>0, <1>23 DEF SpeculativeBranchWins, SpeculativeBranchFrame, session,
     oracle, task, RouteAfterSpeculativeBranch, history, Corrections,
     Terminal
<1>24. CASE SpeculativeBranchFails
  BY <1>0, <1>24 DEF SpeculativeBranchFails, SpeculativeBranchFrame, session,
     oracle, task, RouteAfterSpeculativeBranch, history, Corrections,
     Terminal
<1>25. CASE Replan
  BY <1>0, <1>25 DEF Replan, ForgetPlan, FreshCorrection, RouteAfterReplan,
     history, Corrections, Terminal, task
<1>26. CASE MemoryConsolidation
  BY <1>0, <1>26 DEF MemoryConsolidation, EndFrame, session, oracle, task,
     history, Corrections, Terminal
<1>27. CASE HitlEscalation
  BY <1>0, <1>27 DEF HitlEscalation, EndFrame, session, oracle, task,
     history, Corrections, Terminal
<1>28. CASE NodeRaises
  BY <1>0, <1>28 DEF NodeRaises, EndFrame, session, oracle, task, history,
     Corrections, Terminal
<1>29. CASE Resume
  BY <1>0, <1>29 DEF Resume, EndFrame, session, oracle, task, history,
     Corrections, Terminal
<1>30. CASE Rerun
  BY <1>0, <1>30 DEF Rerun, EndFrame, session, oracle, task, history,
     Corrections, Terminal
<1>31. CASE UNCHANGED vars
  BY <1>31 DEF vars, session, oracle, task, history
<1>32. CASE HitlReturns
  BY <1>0, <1>32 DEF HitlReturns, EndFrame, session, oracle, task, history,
     Corrections, Terminal
<1>33. QED
  BY <1>1, <1>2, <1>3, <1>4, <1>5, <1>6, <1>7, <1>8, <1>9, <1>10, <1>11,
     <1>12, <1>13, <1>14, <1>15, <1>16, <1>17, <1>18, <1>19, <1>20, <1>21,
     <1>22, <1>23, <1>24, <1>25, <1>26, <1>27, <1>28, <1>29, <1>30, <1>31,
     <1>32 DEF Next, SessionStep, Stopped

(* The intelligent debugger runs at most once for a plan. *)
THEOREM DebuggerRunsOnce == Spec => []DebuggerOncePerPlan
<1>1. Init => DebugInv
  BY DEF Init, DebugInv, DebuggerOncePerPlan, Preparing, Checking
<1>2. DebugInv => DebuggerOncePerPlan
  BY DEF DebugInv
<1>3. QED
  BY <1>1, <1>2, InitTypes, NextKeepsTypes, NextKeepsDebugging, PTL DEF Spec

-----------------------------------------------------------------------------
(* The blast limit *)

(* Every action keeps a task over the blast limit away from the checks. *)
LEMMA NextKeepsBlastLimit == BlastLimitNeverVerified /\ [Next]_vars => BlastLimitNeverVerified'
<1> SUFFICES ASSUME BlastLimitNeverVerified, [Next]_vars PROVE BlastLimitNeverVerified'
  OBVIOUS
<1> USE DEF BlastLimitNeverVerified
<1>1. CASE Bootstrap
  BY <1>1 DEF Bootstrap, ForgetPlan, FreshCorrection, history, Terminal, task
<1>2. CASE ModeRouter
  BY <1>2 DEF ModeRouter, session, oracle, task, history, Terminal
<1>3. CASE Scout
  BY <1>3 DEF Scout, oracle, task, history, Terminal
<1>4. CASE ValueNode
  BY <1>4 DEF ValueNode, oracle, task, RouteAfterValueNode, history, Terminal
<1>5. CASE TddGateSkips
  BY <1>5 DEF TddGateSkips, TddGateFrame, session, task, RouteAfterTddGate,
     history, Terminal
<1>6. CASE TddGateFails
  BY <1>6 DEF TddGateFails, TddGateFrame, session, task, RouteAfterTddGate,
     history, Terminal
<1>7. CASE TddGateConfirmsRed
  BY <1>7 DEF TddGateConfirmsRed, TddGateFrame, session, task,
     RouteAfterTddGate, history, Terminal
<1>8. CASE ActorStagnates
  BY <1>8 DEF ActorStagnates, ActorFrame, session, oracle, task,
     RouteAfterActor, history, Terminal
<1>9. CASE ActorParseError
  BY <1>9 DEF ActorParseError, ActorWorks, ActorFrame, session, oracle, task,
     RouteAfterActor, Stagnation, history, Terminal
<1>10. CASE ActorNoDiff
  BY <1>10 DEF ActorNoDiff, ActorWorks, ActorFrame, session, oracle, task,
     RouteAfterActor, Stagnation, history, Terminal
<1>11. CASE ActorApplyFails
  BY <1>11 DEF ActorApplyFails, ActorWorks, ActorFrame, NextAttempt, session,
     oracle, task, RouteAfterActor, Stagnation, history, Terminal
<1>12. CASE ActorApplies
  BY <1>12 DEF ActorApplies, ActorWorks, ActorFrame, NextAttempt, session,
     oracle, task, RouteAfterActor, Stagnation, history, Terminal
<1>13. CASE BranchCreationFails
  BY <1>13 DEF BranchCreationFails, EndFrame, session, oracle, task, history,
     Terminal
<1>14. CASE PreflightNode
  BY <1>14 DEF PreflightNode, BlastErrors, session, oracle, task,
     RouteAfterPreflight, history, Terminal
<1>15. CASE AllCritics
  BY <1>15 DEF AllCritics, session, oracle, task, history, Terminal
<1>16. CASE VerifierDeletionGuard
  BY <1>16 DEF VerifierDeletionGuard, VerifierFrame, session, oracle, task,
     RouteAfterVerifier, Fail, history, DebugsNow, Terminal
<1>17. CASE VerifierCriticBlock
  BY <1>17 DEF VerifierCriticBlock, VerifierFrame, session, oracle, task,
     RouteAfterVerifier, Fail, history, DebugsNow, Terminal
<1>18. CASE VerifierPhase1Fails
  BY <1>18 DEF VerifierPhase1Fails, VerifierFrame, session, oracle, task,
     RouteAfterVerifier, Fail, history, DebugsNow, Terminal
<1>19. CASE VerifierPhase2Fails
  BY <1>19 DEF VerifierPhase2Fails, VerifierFrame, session, oracle, task,
     RouteAfterVerifier, Fail, history, DebugsNow, Terminal
<1>20. CASE VerifierPasses
  BY <1>20 DEF VerifierPasses, VerifierFrame, session, oracle, task,
     RouteAfterVerifier, Pass, history, DebugsNow, Terminal
<1>21. CASE VerifierRaises
  BY <1>21 DEF VerifierRaises, VerifierFrame, session, oracle, task,
     RouteAfterVerifier, Fail, history, DebugsNow, Terminal
<1>22. CASE IntelligentDebugger
  BY <1>22 DEF IntelligentDebugger, session, oracle, task, history, Terminal
<1>23. CASE SpeculativeBranchWins
  BY <1>23 DEF SpeculativeBranchWins, SpeculativeBranchFrame, session,
     oracle, task, RouteAfterSpeculativeBranch, history, Terminal
<1>24. CASE SpeculativeBranchFails
  BY <1>24 DEF SpeculativeBranchFails, SpeculativeBranchFrame, session,
     oracle, task, RouteAfterSpeculativeBranch, history, Terminal
<1>25. CASE Replan
  BY <1>25 DEF Replan, ForgetPlan, FreshCorrection, RouteAfterReplan,
     history, Terminal, task
<1>26. CASE MemoryConsolidation
  BY <1>26 DEF MemoryConsolidation, EndFrame, session, oracle, task, history,
     Terminal
<1>27. CASE HitlEscalation
  BY <1>27 DEF HitlEscalation, EndFrame, session, oracle, task, history,
     Terminal
<1>28. CASE NodeRaises
  BY <1>28 DEF NodeRaises, EndFrame, session, oracle, task, history, Terminal
<1>29. CASE Resume
  BY <1>29 DEF Resume, EndFrame, session, oracle, task, history, Terminal
<1>30. CASE Rerun
  BY <1>30 DEF Rerun, EndFrame, session, oracle, task, history, Terminal
<1>31. CASE UNCHANGED vars
  BY <1>31 DEF vars, session, oracle, task, history
<1>32. CASE HitlReturns
  BY <1>32 DEF HitlReturns, EndFrame, session, oracle, task, history,
     Terminal
<1>33. QED
  BY <1>1, <1>2, <1>3, <1>4, <1>5, <1>6, <1>7, <1>8, <1>9, <1>10, <1>11,
     <1>12, <1>13, <1>14, <1>15, <1>16, <1>17, <1>18, <1>19, <1>20, <1>21,
     <1>22, <1>23, <1>24, <1>25, <1>26, <1>27, <1>28, <1>29, <1>30, <1>31,
     <1>32 DEF Next, SessionStep, Stopped

(* A task whose blast map is over the file limit is never verified in a session
   whose profile has the check of that limit. *)
THEOREM BlastLimitHolds == Spec => []BlastLimitNeverVerified
<1>1. Init => BlastLimitNeverVerified
  BY DEF Init, BlastLimitNeverVerified
<1>2. QED
  BY <1>1, NextKeepsBlastLimit, PTL DEF Spec

-----------------------------------------------------------------------------
(* Progress *)

(* The stages and the hops of the nodes. *)
LEMMA StageAndHop ==
    /\ Stage["bootstrap"] = 9 /\ Stage["mode_router"] = 8
    /\ Stage["scout"] = 7 /\ Stage["value_node"] = 6
    /\ Stage["tdd_gate"] = 5
    /\ Stage["actor"] = 4 /\ Stage["preflight_node"] = 4
    /\ Stage["all_critics"] = 4 /\ Stage["verifier"] = 4
    /\ Stage["intelligent_debugger"] = 4 /\ Stage["speculative_branch"] = 3
    /\ Stage["replan"] = 2 /\ Stage["memory_consolidation"] = 2
    /\ Stage["hitl_escalation"] = 2
    /\ Stage["escalated"] = 1 /\ Stage["crashed"] = 1 /\ Stage["END"] = 0
    /\ Hop["actor"] = 0 /\ Hop["preflight_node"] = 4 /\ Hop["all_critics"] = 3
    /\ Hop["verifier"] = 2 /\ Hop["intelligent_debugger"] = 1
BY DEF Stage, Hop, Nodes, Terminal


(* Every action descends in the order of run, plan, stage and counters. *)
LEMMA NextDescends == TypeOK /\ ProvenanceInv /\ [Next]_vars => [Descent]_vars
<1> SUFFICES ASSUME TypeOK, ProvenanceInv, [Next]_vars PROVE [Descent]_vars
  OBVIOUS
<1> USE StageAndHop DEF Descent
<1>0. /\ plan \in Nat /\ plan + 1 > plan /\ runs \in Nat /\ runs + 1 > runs
      /\ tddAttempts \in Nat /\ emptyRetries \in Nat
      /\ correction \in Corrections /\ correction.attempt \in Nat
      /\ node \in Nodes \ {"bootstrap"} => plan # 0
  BY DEF TypeOK, Corrections, ProvenanceInv
<1>1. CASE Bootstrap
  BY <1>0, <1>1 DEF Bootstrap, ForgetPlan, FreshCorrection, history,
     Corrections, Terminal, task
<1>2. CASE ModeRouter
  BY <1>0, <1>2 DEF ModeRouter, session, oracle, task, history, Corrections,
     Terminal
<1>3. CASE Scout
  BY <1>0, <1>3 DEF Scout, oracle, task, history, Corrections, Terminal
<1>4. CASE ValueNode
  BY <1>0, <1>4 DEF ValueNode, oracle, task, RouteAfterValueNode, history,
     Corrections, Terminal
<1>5. CASE TddGateSkips
  <2>1. node = "tdd_gate" /\ plan # 0 /\ evidence' = plan
    BY <1>0, <1>5 DEF TddGateSkips, Nodes
  <2>2. node' = "actor"
    BY <1>5, <2>1 DEF TddGateSkips, TddGateFrame, RouteAfterTddGate
  <2>3. runs' = runs /\ plan' = plan
    BY <1>5 DEF TddGateSkips, TddGateFrame, task, history
  <2>4. QED BY <2>1, <2>2, <2>3
<1>6. CASE TddGateFails
  BY <1>0, <1>6 DEF TddGateFails, TddGateFrame, session, task,
     RouteAfterTddGate, history, Corrections, Terminal
<1>7. CASE TddGateConfirmsRed
  <2>1. node = "tdd_gate" /\ plan # 0 /\ evidence' = plan
    BY <1>0, <1>7 DEF TddGateConfirmsRed, Nodes
  <2>2. node' = "actor"
    BY <1>7, <2>1 DEF TddGateConfirmsRed, TddGateFrame, RouteAfterTddGate
  <2>3. runs' = runs /\ plan' = plan
    BY <1>7 DEF TddGateConfirmsRed, TddGateFrame, task, history
  <2>4. QED BY <2>1, <2>2, <2>3
<1>8. CASE ActorStagnates
  BY <1>0, <1>8 DEF ActorStagnates, ActorFrame, session, oracle, task,
     RouteAfterActor, history, Corrections, Terminal
<1>9. CASE ActorParseError
  BY <1>0, <1>9 DEF ActorParseError, ActorWorks, ActorFrame, session, oracle,
     task, RouteAfterActor, Stagnation, history, Corrections, Terminal
<1>10. CASE ActorNoDiff
  BY <1>0, <1>10 DEF ActorNoDiff, ActorWorks, ActorFrame, session, oracle,
     task, RouteAfterActor, Stagnation, history, Corrections, Terminal
<1>11. CASE ActorApplyFails
  BY <1>0, <1>11 DEF ActorApplyFails, ActorWorks, ActorFrame, NextAttempt,
     session, oracle, task, RouteAfterActor, Stagnation, history,
     Corrections, Terminal
<1>12. CASE ActorApplies
  BY <1>0, <1>12 DEF ActorApplies, ActorWorks, ActorFrame, NextAttempt,
     session, oracle, task, RouteAfterActor, Stagnation, history,
     Corrections, Terminal
<1>13. CASE BranchCreationFails
  BY <1>0, <1>13 DEF BranchCreationFails, EndFrame, session, oracle, task,
     history, Corrections, Terminal
<1>14. CASE PreflightNode
  BY <1>0, <1>14 DEF PreflightNode, session, oracle, task,
     RouteAfterPreflight, history, Corrections, Terminal
<1>15. CASE AllCritics
  BY <1>0, <1>15 DEF AllCritics, session, oracle, task, history, Corrections,
     Terminal
<1>16. CASE VerifierDeletionGuard
  BY <1>0, <1>16 DEF VerifierDeletionGuard, VerifierFrame, session, oracle,
     task, RouteAfterVerifier, Fail, history, DebugsNow, Corrections,
     Terminal
<1>17. CASE VerifierCriticBlock
  BY <1>0, <1>17 DEF VerifierCriticBlock, VerifierFrame, session, oracle,
     task, RouteAfterVerifier, Fail, history, DebugsNow, Corrections,
     Terminal
<1>18. CASE VerifierPhase1Fails
  BY <1>0, <1>18 DEF VerifierPhase1Fails, VerifierFrame, session, oracle,
     task, RouteAfterVerifier, Fail, history, DebugsNow, Corrections,
     Terminal
<1>19. CASE VerifierPhase2Fails
  BY <1>0, <1>19 DEF VerifierPhase2Fails, VerifierFrame, session, oracle,
     task, RouteAfterVerifier, Fail, history, DebugsNow, Corrections,
     Terminal
<1>20. CASE VerifierPasses
  BY <1>0, <1>20 DEF VerifierPasses, VerifierFrame, session, oracle, task,
     RouteAfterVerifier, Pass, history, DebugsNow, Corrections, Terminal
<1>21. CASE VerifierRaises
  BY <1>0, <1>21 DEF VerifierRaises, VerifierFrame, session, oracle, task,
     RouteAfterVerifier, Fail, history, DebugsNow, Corrections, Terminal
<1>22. CASE IntelligentDebugger
  BY <1>0, <1>22 DEF IntelligentDebugger, session, oracle, task, history,
     Corrections, Terminal
<1>23. CASE SpeculativeBranchWins
  <2>1. node = "speculative_branch"
    BY <1>23 DEF SpeculativeBranchWins
  <2>2. node' \in {"memory_consolidation", "replan", "hitl_escalation"}
    BY <1>23 DEF SpeculativeBranchWins, SpeculativeBranchFrame,
       RouteAfterSpeculativeBranch
  <2>3. runs' = runs /\ plan' = plan
    BY <1>23 DEF SpeculativeBranchWins, SpeculativeBranchFrame, task, history
  <2>4. QED BY <2>1, <2>2, <2>3
<1>24. CASE SpeculativeBranchFails
  <2>1. node = "speculative_branch"
    BY <1>24 DEF SpeculativeBranchFails
  <2>2. node' \in {"memory_consolidation", "replan", "hitl_escalation"}
    BY <1>24 DEF SpeculativeBranchFails, SpeculativeBranchFrame,
       RouteAfterSpeculativeBranch
  <2>3. runs' = runs /\ plan' = plan
    BY <1>24 DEF SpeculativeBranchFails, SpeculativeBranchFrame, task, history
  <2>4. QED BY <2>1, <2>2, <2>3
<1>25. CASE Replan
  BY <1>0, <1>25 DEF Replan, ForgetPlan, FreshCorrection, RouteAfterReplan,
     history, Corrections, Terminal, task
<1>26. CASE MemoryConsolidation
  BY <1>0, <1>26 DEF MemoryConsolidation, EndFrame, session, oracle, task,
     history, Corrections, Terminal
<1>27. CASE HitlEscalation
  BY <1>0, <1>27 DEF HitlEscalation, EndFrame, session, oracle, task,
     history, Corrections, Terminal
<1>28. CASE NodeRaises
  <2>1. node' = "crashed" /\ node \in Nodes
    BY <1>28 DEF NodeRaises, TypeOK
  <2>2. Stage[node] \in 2..9 /\ Stage[node'] = 1
    BY <2>1 DEF Nodes
  <2>3. runs' = runs /\ plan' = plan
    BY <1>28 DEF NodeRaises, EndFrame, task, history
  <2>4. Stage[node'] < Stage[node]
    BY <2>2
  <2>5. QED BY <2>3, <2>4
<1>29. CASE Resume
  BY <1>0, <1>29 DEF Resume, EndFrame, session, oracle, task, history,
     Corrections, Terminal
<1>30. CASE Rerun
  BY <1>0, <1>30 DEF Rerun, EndFrame, session, oracle, task, history,
     Corrections, Terminal
<1>31. CASE UNCHANGED vars
  BY <1>31 DEF vars, session, oracle, task, history
<1>32. CASE HitlReturns
  BY <1>0, <1>32 DEF HitlReturns, EndFrame, session, oracle, task, history,
     Corrections, Terminal
<1>33. QED
  BY <1>1, <1>2, <1>3, <1>4, <1>5, <1>6, <1>7, <1>8, <1>9, <1>10, <1>11,
     <1>12, <1>13, <1>14, <1>15, <1>16, <1>17, <1>18, <1>19, <1>20, <1>21,
     <1>22, <1>23, <1>24, <1>25, <1>26, <1>27, <1>28, <1>29, <1>30, <1>31,
     <1>32 DEF Next, SessionStep, Stopped

(* No cycle of the graph is free: every step moves down in one lexicographic
   order of run, plan, stage and counters. *)
THEOREM Descends == Spec => EveryStepDescends
<1>1. Init => ProvenanceInv
  BY DEF Init, ProvenanceInv, NoCrossPlanLeak, OnlyVerifiedPatchesConsolidate,
         Checking, Nodes, NoVerdict
<1>2. QED
  BY <1>1, InitTypes, NextKeepsTypes, NextKeepsProvenance, NextDescends, PTL
     DEF Spec, EveryStepDescends

-----------------------------------------------------------------------------
(* Branches *)

(* Every action keeps the branch of the attempt while it is checked. *)
LEMMA NextKeepsBranch == TypeOK /\ BranchInv /\ [Next]_vars => BranchInv'
<1> SUFFICES ASSUME TypeOK, BranchInv, [Next]_vars PROVE BranchInv'
  OBVIOUS
<1> USE DEF BranchInv, Checking
<1>0. correction \in Corrections
  BY DEF TypeOK
<1>1. CASE Bootstrap
  BY <1>0, <1>1 DEF Bootstrap, ForgetPlan, FreshCorrection, Corrections,
     Terminal
<1>2. CASE ModeRouter
  BY <1>0, <1>2 DEF ModeRouter, session, oracle, task, Corrections,
     Terminal
<1>3. CASE Scout
  BY <1>0, <1>3 DEF Scout, oracle, task, Corrections, Terminal
<1>4. CASE ValueNode
  BY <1>0, <1>4 DEF ValueNode, oracle, task, RouteAfterValueNode,
     Corrections, Terminal
<1>5. CASE TddGateSkips
  BY <1>0, <1>5 DEF TddGateSkips, TddGateFrame, session, history,
     RouteAfterTddGate, Corrections, Terminal
<1>6. CASE TddGateFails
  BY <1>0, <1>6 DEF TddGateFails, TddGateFrame, session, history,
     RouteAfterTddGate, Corrections, Terminal
<1>7. CASE TddGateConfirmsRed
  BY <1>0, <1>7 DEF TddGateConfirmsRed, TddGateFrame, session, history,
     RouteAfterTddGate, Corrections, Terminal
<1>8. CASE ActorStagnates
  BY <1>0, <1>8 DEF ActorStagnates, ActorFrame, session, oracle, task,
     RouteAfterActor, Corrections, Terminal
<1>9. CASE ActorParseError
  BY <1>0, <1>9 DEF ActorParseError, ActorWorks, ActorFrame, session,
     oracle, task, RouteAfterActor, Stagnation, Corrections, Terminal
<1>10. CASE ActorNoDiff
  BY <1>0, <1>10 DEF ActorNoDiff, ActorWorks, ActorFrame, session, oracle,
     task, RouteAfterActor, Stagnation, Corrections, Terminal
<1>11. CASE ActorApplyFails
  BY <1>0, <1>11 DEF ActorApplyFails, ActorWorks, ActorFrame, NextAttempt,
     session, oracle, task, RouteAfterActor, Stagnation, Corrections,
     Terminal
<1>12. CASE ActorApplies
  BY <1>0, <1>12 DEF ActorApplies, ActorWorks, ActorFrame, NextAttempt,
     session, oracle, task, RouteAfterActor, Stagnation, Corrections,
     Terminal
<1>13. CASE BranchCreationFails
  BY <1>0, <1>13 DEF BranchCreationFails, EndFrame, session, oracle, task,
     Corrections, Terminal
<1>14. CASE PreflightNode
  BY <1>0, <1>14 DEF PreflightNode, session, oracle, task,
     RouteAfterPreflight, Corrections, Terminal
<1>15. CASE AllCritics
  BY <1>0, <1>15 DEF AllCritics, session, oracle, task, Corrections,
     Terminal
<1>16. CASE VerifierDeletionGuard
  BY <1>0, <1>16 DEF VerifierDeletionGuard, VerifierFrame, session,
     oracle, task, RouteAfterVerifier, Fail, Corrections, Terminal
<1>17. CASE VerifierCriticBlock
  BY <1>0, <1>17 DEF VerifierCriticBlock, VerifierFrame, session, oracle,
     task, RouteAfterVerifier, Fail, Corrections, Terminal
<1>18. CASE VerifierPhase1Fails
  BY <1>0, <1>18 DEF VerifierPhase1Fails, VerifierFrame, session, oracle,
     task, RouteAfterVerifier, Fail, Corrections, Terminal
<1>19. CASE VerifierPhase2Fails
  BY <1>0, <1>19 DEF VerifierPhase2Fails, VerifierFrame, session, oracle,
     task, RouteAfterVerifier, Fail, Corrections, Terminal
<1>20. CASE VerifierPasses
  BY <1>0, <1>20 DEF VerifierPasses, VerifierFrame, session, oracle, task,
     RouteAfterVerifier, Pass, Corrections, Terminal
<1>21. CASE VerifierRaises
  BY <1>0, <1>21 DEF VerifierRaises, VerifierFrame, session, oracle, task,
     RouteAfterVerifier, Fail, Corrections, Terminal
<1>22. CASE IntelligentDebugger
  BY <1>0, <1>22 DEF IntelligentDebugger, session, oracle, task,
     Corrections, Terminal
<1>23. CASE SpeculativeBranchWins
  BY <1>0, <1>23 DEF SpeculativeBranchWins, SpeculativeBranchFrame,
     session, oracle, task, RouteAfterSpeculativeBranch, Corrections,
     Terminal
<1>24. CASE SpeculativeBranchFails
  BY <1>0, <1>24 DEF SpeculativeBranchFails, SpeculativeBranchFrame,
     session, oracle, task, RouteAfterSpeculativeBranch, Corrections,
     Terminal
<1>25. CASE Replan
  BY <1>0, <1>25 DEF Replan, ForgetPlan, FreshCorrection,
     RouteAfterReplan, Corrections, Terminal
<1>26. CASE MemoryConsolidation
  BY <1>0, <1>26 DEF MemoryConsolidation, EndFrame, session, oracle, task,
     Corrections, Terminal
<1>27. CASE HitlEscalation
  BY <1>0, <1>27 DEF HitlEscalation, EndFrame, session, oracle, task,
     Corrections, Terminal
<1>28. CASE NodeRaises
  BY <1>0, <1>28 DEF NodeRaises, EndFrame, session, oracle, task,
     Corrections, Terminal
<1>29. CASE Resume
  BY <1>0, <1>29 DEF Resume, EndFrame, session, oracle, task, Corrections,
     Terminal
<1>30. CASE Rerun
  BY <1>0, <1>30 DEF Rerun, EndFrame, session, oracle, task, Corrections,
     Terminal
<1>31. CASE UNCHANGED vars
  BY <1>31 DEF vars, session, oracle, history
<1>32. CASE HitlReturns
  BY <1>0, <1>32 DEF HitlReturns, EndFrame, session, oracle, task,
     Corrections, Terminal
<1>33. QED
  BY <1>1, <1>2, <1>3, <1>4, <1>5, <1>6, <1>7, <1>8, <1>9, <1>10, <1>11,
     <1>12, <1>13, <1>14, <1>15, <1>16, <1>17, <1>18, <1>19, <1>20, <1>21,
     <1>22, <1>23, <1>24, <1>25, <1>26, <1>27, <1>28, <1>29, <1>30, <1>31,
     <1>32 DEF Next, SessionStep, Stopped

(* speculative_branch never deletes "main". *)
THEOREM MainIsKept == Spec => []MainBranchIsKept
<1>1. Init => BranchInv
  BY DEF Init, BranchInv, Checking
<1>2. BranchInv => MainBranchIsKept
  BY DEF BranchInv, MainBranchIsKept
<1>3. QED
  BY <1>1, <1>2, InitTypes, NextKeepsTypes, NextKeepsBranch, PTL DEF Spec

-----------------------------------------------------------------------------
(* Confidence *)

(* The comparison of compute_confidence_score without its common denominator:
   other penalties and an overrun only lower the score. *)
LEMMA ScoreWithoutDenominator ==
    ASSUME NEW rest \in Int, NEW flat \in Nat, NEW attempt \in Nat,
           NEW span \in Nat \ {0}, NEW overrun \in Nat,
           ~( (rest - flat) * (MaxCycles * span)
                < 100 * (attempt * span) + 100 * (overrun * MaxCycles))
    PROVE  rest * MaxCycles >= 100 * attempt
<1> USE CyclesAssumption
<1>1. PICK m : m = MaxCycles
  OBVIOUS
<1>2. m \in Nat
  BY <1>1
<1>3. flat * m \in Nat /\ overrun * m \in Nat /\ rest * m \in Int
  BY <1>2
<1>4. (flat * m) * span \in Nat /\ (rest * m) * span \in Int
  BY <1>3
<1>5. (rest - flat) * (m * span) = (rest * m) * span - (flat * m) * span
  BY ONLY <1>2, rest \in Int, flat \in Nat, span \in Nat
<1>6. 100 * (attempt * span) = (100 * attempt) * span
  OBVIOUS
<1>7. (rest * m) * span >= (100 * attempt) * span
  BY <1>1, <1>3, <1>4, <1>5, <1>6
<1>8. ASSUME NEW x \in Int, NEW y \in Int, x * span >= y * span
      PROVE  x >= y
  <2>1. (x - y) * span = x * span - y * span
    OBVIOUS
  <2>2. ASSUME x < y PROVE FALSE
    <3>1. (y - x) * span >= 1 * span
      <4>1. y - x \in Nat /\ y - x >= 1
        BY <2>2
      <4>2. QED BY <4>1
    <3>2. (y - x) * span = y * span - x * span
      OBVIOUS
    <3>3. QED BY <3>1, <3>2, <1>8
  <2>3. QED BY <2>2
<1>9. rest * m >= 100 * attempt
  BY <1>3, <1>7, <1>8
<1>10. QED BY <1>1, <1>9

(* The penalties that confidence is made of are not negative. *)
LEMMA PenaltiesAreNat ==
    ASSUME TypeOK
    PROVE  /\ StagnationPenalty + blast.penalty + CriticPenalty \in Nat
           /\ VerifierPenalty \in {0, 15, 30}
           /\ CostOverrun \in Nat
<1>1. StagnationPenalty \in Nat /\ blast.penalty \in Nat
  <2>1. blast \in [over : BOOLEAN, penalty : BlastPenalties \cup {0}]
    BY DEF TypeOK
  <2>2. blast.penalty \in BlastPenalties \cup {0}
    BY <2>1
  <2>3. \A p \in BlastPenalties : p \in Nat
    BY BlastAssumption
  <2>4. QED BY <2>2, <2>3 DEF StagnationPenalty
<1>2. CriticPenalty \in Nat
  <2>1. IsFiniteSet(findings)
    BY ProblemsAssumption, FS_Subset DEF TypeOK
  <2>2. Cardinality(findings) \in Nat
    BY <2>1, FS_CardinalityType
  <2>3. QED BY <2>2 DEF CriticPenalty, AtMost
<1>3. CostOverrun \in Nat
  BY BudgetAssumption DEF TypeOK, CostOverrun
<1>4. VerifierPenalty \in {0, 15, 30}
  BY DEF VerifierPenalty
<1>5. QED BY <1>1, <1>2, <1>3, <1>4

(* A session whose confidence is not low can afford its attempts. *)
LEMMA ConfidentSession ==
    ASSUME TypeOK, ~LowConfidence, correction.attempt <= MaxCycles
    PROVE  (100 - VerifierPenalty - Threshold) * MaxCycles
             >= 100 * correction.attempt
<1>1. PICK others : others = StagnationPenalty + blast.penalty + CriticPenalty
  OBVIOUS
<1>2. PICK fails : fails = VerifierPenalty
  OBVIOUS
<1>3. others \in Nat /\ fails \in Nat /\ CostOverrun \in Nat
  BY <1>1, <1>2, PenaltiesAreNat
<1>4. /\ correction.attempt \in Nat
      /\ AtMost(correction.attempt, MaxCycles) = correction.attempt
  BY CyclesAssumption DEF TypeOK, Corrections, AtMost
<1>5. Critical - Warning \in Nat \ {0} /\ Threshold \in Nat
  BY BudgetAssumption, ThresholdAssumption
<1>6. ~( (100 - (others + fails) - Threshold) * (MaxCycles * (Critical - Warning))
           < 100 * (correction.attempt * (Critical - Warning))
             + 100 * (CostOverrun * MaxCycles))
  BY <1>1, <1>2, <1>4 DEF LowConfidence
<1>7. 100 - (others + fails) - Threshold = (100 - fails - Threshold) - others
  BY <1>3, <1>5
<1>8. 100 - fails - Threshold \in Int
  BY <1>3, <1>5
<1>9. (100 - fails - Threshold) * MaxCycles >= 100 * correction.attempt
  <2>1. PICK rest : rest = 100 - fails - Threshold
    OBVIOUS
  <2>2. ~( (rest - others) * (MaxCycles * (Critical - Warning))
             < 100 * (correction.attempt * (Critical - Warning))
               + 100 * (CostOverrun * MaxCycles))
    BY <1>6, <1>7, <2>1
  <2>3. rest \in Int
    BY <1>8, <2>1
  <2>4. QED
    BY ONLY <1>3, <1>4, <1>5, <2>1, <2>2, <2>3, ScoreWithoutDenominator
<1>10. QED BY <1>2, <1>9

(* What route_after_verifier has established when it chooses speculation; no
   verdict fails the first phase and passes the second. *)
SpeculationInv ==
    node = "speculative_branch" =>
        /\ ~LowConfidence
        /\ correction.attempt >= 2 /\ correction.attempt < MaxCycles
        /\ verdict.result # "none"
        /\ verdict.phase1 \/ ~verdict.phase2

(* Only the verifier routes to speculation. *)
LEMMA OnlyVerifierRoutesToSpeculation ==
    ASSUME [Next]_vars, node' = "speculative_branch"
    PROVE  \/ UNCHANGED vars
           \/ node' = RouteAfterVerifier' /\ (verdict'.phase1 \/ ~verdict'.phase2)
<1> USE DEF VerifierFrame, Fail
<1>1. CASE Bootstrap
  BY <1>1 DEF Bootstrap
<1>2. CASE ModeRouter
  BY <1>2 DEF ModeRouter
<1>3. CASE Scout
  BY <1>3 DEF Scout
<1>4. CASE ValueNode
  BY <1>4 DEF ValueNode, RouteAfterValueNode
<1>5. CASE TddGateSkips
  BY <1>5 DEF TddGateSkips, TddGateFrame, RouteAfterTddGate
<1>6. CASE TddGateFails
  BY <1>6 DEF TddGateFails, TddGateFrame, RouteAfterTddGate
<1>7. CASE TddGateConfirmsRed
  BY <1>7 DEF TddGateConfirmsRed, TddGateFrame, RouteAfterTddGate
<1>8. CASE ActorStagnates
  BY <1>8 DEF ActorStagnates, ActorFrame, RouteAfterActor
<1>9. CASE ActorParseError
  BY <1>9 DEF ActorParseError, ActorFrame, RouteAfterActor
<1>10. CASE ActorNoDiff
  BY <1>10 DEF ActorNoDiff, ActorFrame, RouteAfterActor
<1>11. CASE ActorApplyFails
  BY <1>11 DEF ActorApplyFails, ActorFrame, RouteAfterActor
<1>12. CASE ActorApplies
  BY <1>12 DEF ActorApplies, ActorFrame, RouteAfterActor
<1>13. CASE BranchCreationFails
  BY <1>13 DEF BranchCreationFails
<1>14. CASE PreflightNode
  BY <1>14 DEF PreflightNode, RouteAfterPreflight
<1>15. CASE AllCritics
  BY <1>15 DEF AllCritics
<1>16. CASE VerifierDeletionGuard
  BY <1>16 DEF VerifierDeletionGuard
<1>17. CASE VerifierCriticBlock
  BY <1>17 DEF VerifierCriticBlock
<1>18. CASE VerifierPhase1Fails
  BY <1>18 DEF VerifierPhase1Fails
<1>19. CASE VerifierPhase2Fails
  BY <1>19 DEF VerifierPhase2Fails
<1>20. CASE VerifierPasses
  BY <1>20 DEF VerifierPasses, Pass
<1>21. CASE VerifierRaises
  BY <1>21 DEF VerifierRaises
<1>22. CASE IntelligentDebugger
  BY <1>22 DEF IntelligentDebugger
<1>23. CASE SpeculativeBranchWins
  BY <1>23 DEF SpeculativeBranchWins, SpeculativeBranchFrame, RouteAfterSpeculativeBranch
<1>24. CASE SpeculativeBranchFails
  BY <1>24 DEF SpeculativeBranchFails, SpeculativeBranchFrame, RouteAfterSpeculativeBranch
<1>25. CASE Replan
  BY <1>25 DEF Replan, RouteAfterReplan
<1>26. CASE MemoryConsolidation
  BY <1>26 DEF MemoryConsolidation
<1>27. CASE HitlEscalation
  BY <1>27 DEF HitlEscalation
<1>28. CASE NodeRaises
  BY <1>28 DEF NodeRaises, Terminal
<1>29. CASE Resume
  BY <1>29 DEF Resume
<1>30. CASE Rerun
  BY <1>30 DEF Rerun, Terminal
<1>31. CASE HitlReturns
  BY <1>31 DEF HitlReturns
<1>32. QED
  BY <1>1, <1>2, <1>3, <1>4, <1>5, <1>6, <1>7, <1>8, <1>9, <1>10, <1>11,
     <1>12, <1>13, <1>14, <1>15, <1>16, <1>17, <1>18, <1>19, <1>20, <1>21,
     <1>22, <1>23, <1>24, <1>25, <1>26, <1>27, <1>28, <1>29, <1>30, <1>31
     DEF Next, SessionStep, Stopped

(* Every step keeps SpeculationInv. *)
LEMMA NextKeepsSpeculation ==
    TypeOK' /\ SpeculationInv /\ [Next]_vars => SpeculationInv'
<1> SUFFICES ASSUME TypeOK', SpeculationInv, [Next]_vars, node' = "speculative_branch"
             PROVE  /\ ~LowConfidence'
                    /\ correction'.attempt >= 2 /\ correction'.attempt < MaxCycles
                    /\ verdict'.result # "none"
                    /\ verdict'.phase1 \/ ~verdict'.phase2
  BY DEF SpeculationInv
<1>1. CASE UNCHANGED vars
  <2>1. /\ node' = node /\ correction' = correction /\ verdict' = verdict
        /\ findings' = findings /\ blast' = blast /\ cost' = cost
    BY <1>1 DEF vars, session
  <2>2. LowConfidence' <=> LowConfidence
    BY ONLY <2>1 DEF LowConfidence, StagnationPenalty, CriticPenalty,
       VerifierPenalty, CostOverrun
  <2>3. QED BY <2>1, <2>2 DEF SpeculationInv
<1>2. CASE node' = RouteAfterVerifier' /\ (verdict'.phase1 \/ ~verdict'.phase2)
  <2>1. correction'.attempt \in Nat
    BY DEF TypeOK, Corrections
  <2>2. QED
    BY <1>2, <2>1, CyclesAssumption DEF RouteAfterVerifier
<1>3. QED BY <1>1, <1>2, OnlyVerifierRoutesToSpeculation

(* The score that speculation needs: a plan at its second attempt or later has
   used 2 / MaxCycles of it, its failed verification a penalty more. *)
LEMMA SpeculationScore ==
    ASSUME TypeOK, SpeculationInv, node = "speculative_branch"
    PROVE  /\ (100 - VerifierPenalty - Threshold) * MaxCycles >= 200
           /\ ~verdict.phase1 => VerifierPenalty = 30
           /\ ~verdict.phase2 => VerifierPenalty \in {15, 30}
<1>1. /\ correction.attempt \in Nat /\ correction.attempt >= 2
      /\ correction.attempt <= MaxCycles
  BY CyclesAssumption DEF TypeOK, Corrections, SpeculationInv
<1>2. ~LowConfidence
  BY DEF SpeculationInv
<1>3. (100 - VerifierPenalty - Threshold) * MaxCycles >= 100 * correction.attempt
  BY <1>1, <1>2, ConfidentSession
<1>4. (100 - VerifierPenalty - Threshold) * MaxCycles \in Int
  BY PenaltiesAreNat, CyclesAssumption, ThresholdAssumption
<1>5. /\ ~verdict.phase1 => VerifierPenalty = 30
      /\ ~verdict.phase2 => VerifierPenalty \in {15, 30}
  BY DEF SpeculationInv, VerifierPenalty, TypeOK, Verdicts
<1>6. QED BY <1>1, <1>3, <1>4, <1>5

(* If a failed second phase costs more than a plan at its second attempt has
   left above the threshold, such a plan is handed over to a human, and
   speculation answers only a visual breakage.  The default weights and limits
   are such: 60 * 3 < 200. *)
THEOREM SpeculationNeedsGreenTests ==
    ASSUME (85 - Threshold) * MaxCycles < 200
    PROVE  Spec => []SpeculationOnlyAfterGreenTests
<1>1. Init => SpeculationInv
  BY DEF Init, SpeculationInv
<1>2. TypeOK /\ SpeculationInv => SpeculationOnlyAfterGreenTests
  <2> SUFFICES ASSUME TypeOK, SpeculationInv, node = "speculative_branch",
                      ~(verdict.phase1 /\ verdict.phase2)
               PROVE  FALSE
    BY DEF SpeculationOnlyAfterGreenTests
  <2>1. VerifierPenalty \in {15, 30}
    BY SpeculationScore
  <2>2. (100 - VerifierPenalty - Threshold) * MaxCycles <= (85 - Threshold) * MaxCycles
    BY <2>1, CyclesAssumption, ThresholdAssumption
  <2>3. (100 - VerifierPenalty - Threshold) * MaxCycles >= 200
    BY SpeculationScore
  <2>4. QED BY <2>1, <2>2, <2>3, CyclesAssumption, ThresholdAssumption
<1>3. QED
  BY <1>1, <1>2, InitTypes, NextKeepsTypes, NextKeepsSpeculation, PTL DEF Spec

(* The same for the unit tests of the first phase, whose failure costs more:
   a plan whose unit tests fail is never given to speculative branches, also
   with four correction cycles (45 * 4 < 200). *)
THEOREM SpeculationNeedsUnitTests ==
    ASSUME (70 - Threshold) * MaxCycles < 200
    PROVE  Spec => [](node = "speculative_branch" => verdict.phase1)
<1>1. Init => SpeculationInv
  BY DEF Init, SpeculationInv
<1>2. TypeOK /\ SpeculationInv => (node = "speculative_branch" => verdict.phase1)
  <2> SUFFICES ASSUME TypeOK, SpeculationInv, node = "speculative_branch",
                      ~verdict.phase1
               PROVE  FALSE
    OBVIOUS
  <2>1. VerifierPenalty = 30
    BY SpeculationScore
  <2>2. (100 - VerifierPenalty - Threshold) * MaxCycles = (70 - Threshold) * MaxCycles
    BY <2>1, ThresholdAssumption
  <2>3. QED BY <2>2, SpeculationScore, CyclesAssumption, ThresholdAssumption
<1>3. QED
  BY <1>1, <1>2, InitTypes, NextKeepsTypes, NextKeepsSpeculation, PTL DEF Spec

-----------------------------------------------------------------------------
(* Outcome stagnation *)

(* The signature that the verifier stores is of a state without problems: it
   reaches the line that stores one only past a clean preflight and a review
   without critical findings. *)
SignatureInv ==
    /\ correction.signature \subseteq {{}}
    /\ correction.pattern # "outcome"

(* The guard of the actor compares problems, of which there are some, with the
   stored signature of none. *)
LEMMA StagnationIsNoOutcome ==
    ASSUME SignatureInv PROVE Stagnation # "outcome"
<1>1. ASSUME HasProblems, correction.signature = {Problems} PROVE FALSE
  <2>1. Problems = {}
    BY <1>1 DEF SignatureInv
  <2>2. QED BY <1>1, <2>1 DEF HasProblems, Problems
<1>2. QED BY <1>1 DEF Stagnation

(* What the two variables of a correction can become that are at stake. *)
LEMMA SignatureSources ==
    ASSUME TypeOK, ProvenanceInv, SignatureInv, [Next]_vars
    PROVE  /\ correction'.signature \in {correction.signature, {}, {{}}}
           /\ correction'.pattern \in {correction.pattern, "none", Stagnation}
<1>0. correction \in Corrections
  BY DEF TypeOK
<1> USE <1>0 DEF Corrections
<1>1. CASE Bootstrap \/ Replan
  BY <1>1 DEF Bootstrap, Replan, ForgetPlan, FreshCorrection
<1>2. CASE ActorStagnates
  BY <1>2 DEF ActorStagnates
<1>3. CASE ActorParseError
  BY <1>3 DEF ActorParseError
<1>4. CASE ActorApplyFails \/ ActorApplies
  BY <1>4 DEF ActorApplyFails, ActorApplies, NextAttempt
<1>5. CASE VerifierDeletionGuard
  BY <1>5 DEF VerifierDeletionGuard
<1>6. CASE VerifierCriticBlock
  BY <1>6 DEF VerifierCriticBlock
<1>7. CASE VerifierPhase1Fails \/ VerifierPhase2Fails \/ VerifierPasses
  <2>1. Problems = {}
    BY <1>7 DEF VerifierPhase1Fails, VerifierPhase2Fails, VerifierPasses,
       ProvenanceInv, Problems
  <2>2. QED
    BY <1>7, <2>1 DEF VerifierPhase1Fails, VerifierPhase2Fails, VerifierPasses
<1>8. CASE VerifierRaises
  BY <1>8 DEF VerifierRaises
<1>9. CASE UNCHANGED correction
  BY <1>9
<1>10. QED
  BY <1>1, <1>2, <1>3, <1>4, <1>5, <1>6, <1>7, <1>8, <1>9
     DEF Next, SessionStep, Stopped, vars, ModeRouter, Scout, ValueNode,
     TddGateSkips, TddGateFails, TddGateConfirmsRed, TddGateFrame, ActorNoDiff,
     BranchCreationFails, PreflightNode, AllCritics, IntelligentDebugger,
     SpeculativeBranchWins, SpeculativeBranchFails, SpeculativeBranchFrame,
     MemoryConsolidation, HitlEscalation, HitlReturns, NodeRaises, Resume,
     Rerun, EndFrame

(* The outcome of two attempts is never found to be the same. *)
THEOREM OutcomeStagnationIsDead == Spec => []OutcomeNeverStagnates
<1>1. Init => ProvenanceInv /\ SignatureInv
  BY DEF Init, FreshCorrection, SignatureInv, ProvenanceInv, NoCrossPlanLeak,
     OnlyVerifiedPatchesConsolidate, Checking, Nodes, NoVerdict
<1>2. TypeOK /\ ProvenanceInv /\ SignatureInv /\ [Next]_vars => SignatureInv'
  BY SignatureSources, StagnationIsNoOutcome DEF SignatureInv
<1>3. SignatureInv => OutcomeNeverStagnates
  BY DEF SignatureInv, OutcomeNeverStagnates
<1>4. QED
  BY <1>1, <1>2, <1>3, InitTypes, NextKeepsTypes, NextKeepsProvenance, PTL
     DEF Spec

(* The graph speculates only after two attempts at least, below the limit, and
   on the branch of the last of them: what GitWorkspace assumes of it when its
   checks fail. *)
THEOREM SpeculationFollowsAttempts ==
    Spec => [](node = "speculative_branch" =>
                  correction.attempt \in 2..(MaxCycles - 1) /\ HasBranch)
<1>1. Init => SpeculationInv /\ BranchInv
  BY DEF Init, SpeculationInv, BranchInv, Checking
<1>2. TypeOK /\ SpeculationInv /\ BranchInv =>
        (node = "speculative_branch" =>
            correction.attempt \in 2..(MaxCycles - 1) /\ HasBranch)
  BY CyclesAssumption DEF TypeOK, Corrections, SpeculationInv, BranchInv, HasBranch
<1>3. QED
  BY <1>1, <1>2, InitTypes, NextKeepsTypes, NextKeepsSpeculation,
     NextKeepsBranch, PTL DEF Spec
-----------------------------------------------------------------------------
(* The graph of AgentLedger *)

AgentStep ==
    /\ AgentEdge(AgentNode[node], AgentNode[node'])
    /\ node = "verifier" /\ node' \notin {"memory_consolidation", "hitl_escalation",
                                          "crashed"}
          => cost' < Critical

LEMMA AgentNodes ==
    /\ AgentNode["bootstrap"] = "value_node"
    /\ AgentNode["mode_router"] = "value_node"
    /\ AgentNode["scout"] = "value_node"
    /\ AgentNode["value_node"] = "value_node"
    /\ AgentNode["tdd_gate"] = "tdd_gate"
    /\ AgentNode["actor"] = "actor" /\ AgentNode["preflight_node"] = "actor"
    /\ AgentNode["all_critics"] = "all_critics"
    /\ AgentNode["verifier"] = "verifier"
    /\ AgentNode["intelligent_debugger"] = "intelligent_debugger"
    /\ AgentNode["speculative_branch"] = "speculative_branch"
    /\ AgentNode["replan"] = "replan"
    /\ AgentNode["memory_consolidation"] = "agents_md"
    /\ AgentNode["hitl_escalation"] = "END" /\ AgentNode["escalated"] = "END"
    /\ AgentNode["crashed"] = "crashed" /\ AgentNode["END"] = "END"
BY DEF AgentNode

LEMMA AgentSuccessors ==
    /\ Agents!Successors["value_node"] = {"tdd_gate", "END"}
    /\ Agents!Successors["tdd_gate"] = {"tdd_gate", "actor", "END"}
    /\ Agents!Successors["actor"] = {"actor", "all_critics", "END"}
    /\ Agents!Successors["all_critics"] = {"verifier"}
    /\ Agents!Successors["verifier"] =
           {"actor", "intelligent_debugger", "speculative_branch", "agents_md", "END"}
    /\ Agents!Successors["intelligent_debugger"] = {"actor"}
    /\ Agents!Successors["speculative_branch"] = {"agents_md", "replan", "END"}
    /\ Agents!Successors["replan"] = {"tdd_gate", "END"}
    /\ Agents!Successors["arch_rules"] = {"END"}
    /\ Agents!SilentSuccessors["tdd_gate"] = {"tdd_gate", "actor", "END"}
    /\ Agents!SilentSuccessors["actor"] = {"END"}
    /\ Agents!SilentSuccessors["verifier"] =
           {"actor", "intelligent_debugger", "speculative_branch", "END"}
BY DEF Agents!Successors, Agents!SilentSuccessors

(* Where a verdict leads: a FAIL onward only below the critical budget. *)
LEMMA VerdictRoutes ==
    ASSUME TypeOK', VerifierFrame, verdict'.result \in {"PASS", "FAIL"}
    PROVE  /\ node' \in {"memory_consolidation", "hitl_escalation", "actor",
                         "intelligent_debugger", "speculative_branch"}
           /\ node' = "memory_consolidation" => verdict'.result = "PASS"
           /\ node' \notin {"memory_consolidation", "hitl_escalation"}
                 => cost' < Critical
<1>1. cost' \in Nat /\ Critical \in Nat
  BY BudgetAssumption DEF TypeOK
<1>2. node' = RouteAfterVerifier'
  BY DEF VerifierFrame
<1>3. QED BY <1>1, <1>2 DEF RouteAfterVerifier

LEMMA VerifierTakesAgentEdge ==
    ASSUME TypeOK', node = "verifier", VerifierFrame,
           \/ verdict'.result = "FAIL"
           \/ verdict'.result = "PASS" /\ verdict'.phase1
    PROVE  AgentStep
<1>1. AgentNode[node'] \in {"actor", "intelligent_debugger",
         "speculative_branch", "agents_md", "END"}
  BY VerdictRoutes, AgentNodes
<1>2. ~verdict'.phase1 => AgentNode[node'] # "agents_md"
  BY VerdictRoutes, AgentNodes
<1>3. AgentEdge("verifier", AgentNode[node'])
  BY <1>1, <1>2, AgentSuccessors DEF AgentEdge, NotAsked
<1>4. QED BY <1>3, VerdictRoutes, AgentNodes DEF AgentStep

(* Each node takes an edge of the graph. *)
LEMMA NextTakesAgentEdge ==
    ASSUME TypeOK, TypeOK', Next, node \notin Terminal
    PROVE  AgentStep
<1> USE DEF AgentStep
<1>1. CASE Bootstrap \/ ModeRouter \/ Scout
  BY <1>1, AgentNodes DEF Bootstrap, ModeRouter, Scout, AgentEdge
<1>2. CASE ValueNode
  BY <1>2, AgentNodes, AgentSuccessors DEF ValueNode, RouteAfterValueNode,
     AgentEdge, NotAsked
<1>3. CASE TddGateSkips \/ TddGateFails \/ TddGateConfirmsRed
  <2>1. node = "tdd_gate" /\ node' \in {"tdd_gate", "actor", "hitl_escalation"}
    BY <1>3 DEF TddGateSkips, TddGateFails, TddGateConfirmsRed, TddGateFrame,
       RouteAfterTddGate
  <2>2. QED BY <2>1, AgentNodes, AgentSuccessors DEF AgentEdge
<1>4. CASE ActorStagnates
  <2>1. correction'.pattern # "none"
    BY <1>4 DEF ActorStagnates, TypeOK, Corrections
  <2>2. node' = "hitl_escalation"
    BY <1>4, <2>1 DEF ActorStagnates, ActorFrame, RouteAfterActor
  <2>3. QED BY <1>4, <2>2, AgentNodes, AgentSuccessors
            DEF ActorStagnates, AgentEdge
<1>5. CASE ActorParseError \/ ActorNoDiff \/ ActorApplyFails \/ ActorApplies
  <2>1. /\ node = "actor" /\ Stagnation = "none"
        /\ node' \in {"actor", "preflight_node", "hitl_escalation"}
    BY <1>5 DEF ActorParseError, ActorNoDiff, ActorApplyFails, ActorApplies,
       ActorWorks, ActorFrame, RouteAfterActor
  <2>2. QED BY <2>1, AgentNodes, AgentSuccessors DEF AgentEdge, NotAsked
<1>6. CASE PreflightNode
  <2>1. node = "preflight_node" /\ node' \in {"actor", "all_critics"}
    BY <1>6 DEF PreflightNode, RouteAfterPreflight
  <2>2. QED BY <2>1, AgentNodes, AgentSuccessors DEF AgentEdge, NotAsked
<1>7. CASE AllCritics
  BY <1>7, AgentNodes, AgentSuccessors DEF AllCritics, AgentEdge, NotAsked
<1>8. CASE VerifierDeletionGuard
  BY <1>8, VerifierTakesAgentEdge DEF VerifierDeletionGuard, Fail
<1>9. CASE VerifierCriticBlock
  BY <1>9, VerifierTakesAgentEdge DEF VerifierCriticBlock, Fail
<1>10. CASE VerifierPhase1Fails
  BY <1>10, VerifierTakesAgentEdge DEF VerifierPhase1Fails, Fail
<1>11. CASE VerifierPhase2Fails
  BY <1>11, VerifierTakesAgentEdge DEF VerifierPhase2Fails, Fail
<1>12. CASE VerifierPasses
  BY <1>12, VerifierTakesAgentEdge DEF VerifierPasses, Pass
<1>13. CASE VerifierRaises
  BY <1>13, VerifierTakesAgentEdge DEF VerifierRaises, Fail
<1>14. CASE IntelligentDebugger
  BY <1>14, AgentNodes, AgentSuccessors DEF IntelligentDebugger, AgentEdge, NotAsked
<1>15. CASE SpeculativeBranchWins \/ SpeculativeBranchFails
  <2>1. /\ node = "speculative_branch"
        /\ node' \in {"memory_consolidation", "replan", "hitl_escalation"}
    BY <1>15 DEF SpeculativeBranchWins, SpeculativeBranchFails,
       SpeculativeBranchFrame, RouteAfterSpeculativeBranch
  <2>2. QED BY <2>1, AgentNodes, AgentSuccessors DEF AgentEdge, NotAsked
<1>16. CASE Replan
  BY <1>16, AgentNodes, AgentSuccessors DEF Replan, RouteAfterReplan, AgentEdge,
     NotAsked
<1>17. CASE MemoryConsolidation
  BY <1>17, AgentNodes, AgentSuccessors DEF MemoryConsolidation, AgentEdge,
     NotAsked
<1>18. CASE HitlEscalation \/ HitlReturns
  BY <1>18, AgentNodes DEF HitlEscalation, HitlReturns, AgentEdge
<1>19. CASE NodeRaises \/ BranchCreationFails
  BY <1>19, AgentNodes DEF NodeRaises, BranchCreationFails, AgentEdge, Terminal
<1>20. CASE Resume \/ Rerun \/ Stopped
  BY <1>20 DEF Resume, Rerun, Stopped, Terminal
<1>21. QED
  BY <1>1, <1>2, <1>3, <1>4, <1>5, <1>6, <1>7, <1>8, <1>9, <1>10, <1>11, <1>12,
     <1>13, <1>14, <1>15, <1>16, <1>17, <1>18, <1>19, <1>20
     DEF Next, SessionStep

(* Every session stays on the graph on which AgentLedger keeps its books. *)
THEOREM SessionFollowsAgentGraph == Spec => FollowsAgentGraph
<1>1. TypeOK /\ TypeOK' /\ [Next]_vars => [node \notin Terminal => AgentStep]_vars
  BY NextTakesAgentEdge
<1>2. QED
  BY <1>1, InitTypes, NextKeepsTypes, PTL DEF Spec, FollowsAgentGraph, AgentStep
-----------------------------------------------------------------------------
(* The graph of GitWorkspace *)

(* Up to the oracle the session has neither attempts nor a branch nor a new
   plan: what GitWorkspace starts a session with. *)
FreshInv ==
    node \in Preparing \ {"tdd_gate"} =>
        correction.attempt = 0 /\ correction.branch = NoBranch /\ replanCount = 0

(* No conditional edge leads back to the preparation of a session. *)
LEMMA NextRoutesAvoidPreparation ==
    {RouteAfterValueNode', RouteAfterReplan', RouteAfterTddGate', RouteAfterActor',
     RouteAfterPreflight', RouteAfterVerifier', RouteAfterSpeculativeBranch'}
      \cap {"mode_router", "scout", "value_node"} = {}
BY DEF RouteAfterValueNode, RouteAfterReplan, RouteAfterTddGate,
       RouteAfterActor, RouteAfterPreflight, RouteAfterVerifier,
       RouteAfterSpeculativeBranch

LEMMA NextKeepsFresh == FreshInv /\ [Next]_vars => FreshInv'
<1> SUFFICES ASSUME FreshInv, [Next]_vars, node' \in Preparing \ {"tdd_gate"}
             PROVE  /\ correction'.attempt = 0 /\ correction'.branch = NoBranch
                    /\ replanCount' = 0
  BY DEF FreshInv
<1> USE DEF Preparing
<1>1. CASE Bootstrap
  BY <1>1 DEF Bootstrap, ForgetPlan, FreshCorrection
<1>2. CASE ModeRouter \/ Scout
  BY <1>2 DEF ModeRouter, Scout, FreshInv, session
<1>3. CASE UNCHANGED vars
  <2>1. UNCHANGED <<node, correction, replanCount>>
    BY <1>3 DEF vars, session
  <2>2. QED BY <2>1 DEF FreshInv
<1>4. CASE Next /\ ~(Bootstrap \/ ModeRouter \/ Scout \/ Stopped)
  BY <1>4, NextRoutesAvoidPreparation DEF Next, SessionStep, ValueNode,
     TddGateSkips, TddGateFails, TddGateConfirmsRed, TddGateFrame,
     ActorStagnates, ActorParseError, ActorNoDiff, ActorApplyFails, ActorApplies,
     ActorFrame, BranchCreationFails, PreflightNode, AllCritics,
     VerifierDeletionGuard, VerifierCriticBlock, VerifierPhase1Fails,
     VerifierPhase2Fails, VerifierPasses, VerifierRaises, VerifierFrame,
     IntelligentDebugger, SpeculativeBranchWins, SpeculativeBranchFails,
     SpeculativeBranchFrame, Replan, MemoryConsolidation, HitlEscalation,
     HitlReturns, NodeRaises, Resume, Rerun
<1>5. QED BY <1>1, <1>2, <1>3, <1>4 DEF Stopped, Next, SessionStep

LEMMA GitNodes ==
    /\ \A n \in Terminal \cup (Preparing \ {"tdd_gate"}) \cup {"bootstrap"} :
          GitNode[n] = "out"
    /\ GitNode["tdd_gate"] = "tdd_gate"
    /\ GitNode["actor"] = "actor" /\ GitNode["intelligent_debugger"] = "actor"
    /\ \A n \in Checking : GitNode[n] = "checks"
    /\ GitNode["speculative_branch"] = "speculate" /\ GitNode["replan"] = "speculate"
    /\ GitNode["memory_consolidation"] = "consolidate"
    /\ GitNode["hitl_escalation"] = "escalate"
BY DEF GitNode, Nodes, Terminal, Preparing, Checking

(* What the invariants say of the nodes that work on the repository. *)
GitInv ==
    /\ TypeOK /\ CountersInv /\ FreshInv
    /\ node \in Checking => correction.attempt >= 1 /\ correction.branch # NoBranch

LEMMA GitTypes ==
    ASSUME TypeOK
    PROVE  /\ correction.attempt \in Nat /\ replanCount \in Nat
           /\ node \in Nodes \cup Terminal
           /\ correction = [attempt   |-> correction.attempt,
                            branch    |-> correction.branch,
                            errors    |-> correction.errors,
                            pattern   |-> correction.pattern,
                            signature |-> correction.signature]
BY DEF TypeOK, Corrections

(* Outside the repository nothing is mapped but the place. *)
LEMMA OutsideStutters ==
    ASSUME GitNode[node] = "out", GitNode[node'] = "out"
    PROVE  UNCHANGED Git!vars
BY DEF InRepository, Git!vars, Git!correction

LEMMA LeavesRepository ==
    ASSUME GitNode[node] # "out", GitNode[node'] = "out"
    PROVE  Git!Leave
BY DEF InRepository, Git!Leave

(* A step to the same place of the repository that counts nothing. *)
LEMMA PlaceStutters ==
    ASSUME GitNode[node'] = GitNode[node], UNCHANGED <<correction, replanCount>>
    PROVE  UNCHANGED Git!vars
BY DEF InRepository, Git!vars, Git!correction

LEMMA OracleStep ==
    ASSUME TddGateSkips \/ TddGateFails \/ TddGateConfirmsRed
    PROVE  Git!Next
<1>1. /\ node = "tdd_gate" /\ node' \in {"tdd_gate", "actor", "hitl_escalation"}
      /\ UNCHANGED <<correction, replanCount>>
  BY DEF TddGateSkips, TddGateFails, TddGateConfirmsRed, TddGateFrame,
     RouteAfterTddGate, session
<1>2. QED
  BY <1>1, GitNodes DEF InRepository, Git!Oracle, Git!Next, Git!correction

LEMMA ActorStep ==
    ASSUME GitInv, TypeOK',
           ActorStagnates \/ ActorParseError \/ ActorNoDiff \/ ActorApplyFails
             \/ ActorApplies
    PROVE  Git!Next
<1> USE DEF InRepository, Git!Next, Git!correction
<1>0. node = "actor" /\ UNCHANGED replanCount /\ correction \in Corrections
  BY DEF ActorStagnates, ActorParseError, ActorNoDiff, ActorApplyFails,
     ActorApplies, ActorWorks, ActorFrame, session, GitInv, TypeOK
<1>1. ASSUME Stagnation = "none" PROVE correction.attempt < MaxCycles
  BY <1>0, <1>1, CyclesAssumption DEF Stagnation, Corrections
<1>2. CASE ActorStagnates
  <2>1. /\ correction'.attempt = MaxCycles /\ correction'.branch = correction.branch
        /\ correction'.pattern # "none"
    BY <1>0, <1>2 DEF ActorStagnates, Corrections
  <2>2. node' = "hitl_escalation"
    BY <1>2, <2>1 DEF ActorStagnates, ActorFrame, RouteAfterActor
  <2>3. QED BY <1>0, <2>1, <2>2, GitNodes DEF Git!ActorStagnates
<1>3. CASE ActorParseError \/ ActorNoDiff
  <2>1. /\ Stagnation = "none" /\ node' \in {"actor", "hitl_escalation"}
    BY <1>3 DEF ActorParseError, ActorNoDiff, ActorWorks, ActorFrame, RouteAfterActor
  <2>2. /\ correction'.attempt \in {correction.attempt, correction.attempt + 1}
        /\ correction'.branch = correction.branch
    BY <1>0, <1>3 DEF ActorParseError, ActorNoDiff, Corrections
  <2>3. QED BY <1>0, <1>1, <2>1, <2>2, GitNodes DEF Git!ActorNoDiff
<1>4. CASE ActorApplyFails \/ ActorApplies
  <2>1. /\ Stagnation = "none"
        /\ node' \in {"actor", "preflight_node", "hitl_escalation"}
    BY <1>4 DEF ActorApplyFails, ActorApplies, ActorWorks, ActorFrame, RouteAfterActor
  <2>2. ActorBranch # NoBranch
    <3>1. TypeOK
      BY DEF GitInv
    <3>2. ActorBranch \in Nat
      BY <3>1, CorrectionTypes
    <3>3. QED BY <3>2
  <2>3. correction'.attempt = correction.attempt + 1 /\ correction'.branch # NoBranch
    BY <1>0, <1>4, <2>2 DEF ActorApplyFails, ActorApplies, NextAttempt, Corrections
  <2>4. QED
    BY <1>0, <1>1, <2>1, <2>3, GitNodes DEF Git!ActorPatches, Checking
<1>5. QED BY <1>2, <1>3, <1>4

(* A verdict leads to the debugger at the first attempt only, and to speculation
   at a later one below the limit. *)
LEMMA VerifierEdges ==
    ASSUME GitInv, TypeOK', VerifierFrame
    PROVE  /\ node' \in {"actor", "intelligent_debugger", "speculative_branch",
                         "memory_consolidation", "hitl_escalation"}
           /\ node' = "speculative_branch" => correction'.attempt \in 2..(MaxCycles - 1)
           /\ node' = "intelligent_debugger" => correction'.attempt <= 1
<1>1. correction'.attempt \in Nat
  BY DEF TypeOK, Corrections
<1>2. node' = RouteAfterVerifier'
  BY DEF VerifierFrame
<1>3. QED BY <1>1, <1>2, CyclesAssumption DEF RouteAfterVerifier, DebugsNow

LEMMA VerifierStep ==
    ASSUME GitInv, TypeOK',
           VerifierDeletionGuard \/ VerifierCriticBlock \/ VerifierPhase1Fails
             \/ VerifierPhase2Fails \/ VerifierPasses
    PROVE  Git!Next
<1>1. node = "verifier" /\ VerifierFrame
  BY DEF VerifierDeletionGuard, VerifierCriticBlock, VerifierPhase1Fails,
     VerifierPhase2Fails, VerifierPasses
<1>2. correction'.attempt = correction.attempt /\ correction'.branch = correction.branch
  <2>1. DOMAIN correction = {"attempt", "branch", "errors", "pattern", "signature"}
    BY DEF GitInv, TypeOK, Corrections
  <2>2. QED
    BY <2>1 DEF VerifierDeletionGuard, VerifierCriticBlock, VerifierPhase1Fails,
       VerifierPhase2Fails, VerifierPasses
<1>3. correction.branch # NoBranch /\ UNCHANGED replanCount
  BY <1>1 DEF GitInv, Checking, VerifierFrame, session
<1>4. QED
  BY <1>1, <1>2, <1>3, VerifierEdges, GitNodes
     DEF InRepository, Git!Next, Git!correction, Git!Checks, Git!Speculates, Checking

(* The attempt that an exception counts is at least the second. *)
LEMMA VerifierRaisesStep ==
    ASSUME GitInv, TypeOK', VerifierRaises
    PROVE  Git!Next
<1>1. node = "verifier" /\ VerifierFrame /\ verdict' = Fail(TRUE, FALSE, FALSE, FALSE)
  BY DEF VerifierRaises
<1>2. /\ correction'.attempt = correction.attempt + 1
      /\ correction'.branch = correction.branch
      /\ correction.attempt >= 1 /\ correction.attempt \in Nat
  BY <1>1 DEF VerifierRaises, GitInv, TypeOK, Corrections, Checking
<1>3. correction.branch # NoBranch /\ UNCHANGED replanCount
  BY <1>1 DEF GitInv, Checking, VerifierFrame, session
<1>4. node' \in {"speculative_branch", "hitl_escalation"}
  BY <1>1, <1>2, CyclesAssumption
     DEF VerifierFrame, RouteAfterVerifier, DebugsNow, Fail
<1>5. QED
  BY <1>1, <1>2, <1>3, <1>4, VerifierEdges, GitNodes
     DEF InRepository, Git!Next, Git!correction, Git!VerifierRaises, Git!Speculates,
     Checking

(* Each node takes a step of the graph or one that the repository does not see. *)
LEMMA NextTakesGitStep ==
    ASSUME GitInv, TypeOK', Next
    PROVE  Git!Next \/ UNCHANGED Git!vars
<1> USE DEF Git!Next
<1>1. CASE Bootstrap \/ ModeRouter \/ Scout
  <2>1. GitNode[node] = "out" /\ GitNode[node'] = "out"
    BY <1>1, GitNodes DEF Bootstrap, ModeRouter, Scout, Preparing
  <2>2. QED BY <2>1, OutsideStutters
<1>2. CASE ValueNode
  <2>1. /\ node = "value_node" /\ node' \in {"tdd_gate", "hitl_escalation"}
        /\ UNCHANGED <<correction, replanCount>>
        /\ correction.attempt = 0 /\ correction.branch = NoBranch /\ replanCount = 0
    BY <1>2 DEF ValueNode, RouteAfterValueNode, GitInv, FreshInv, Preparing
  <2>2. QED
    BY <2>1, GitNodes DEF InRepository, Git!correction, Git!Begin, Preparing
<1>3. CASE TddGateSkips \/ TddGateFails \/ TddGateConfirmsRed
  BY <1>3, OracleStep
<1>4. CASE ActorStagnates \/ ActorParseError \/ ActorNoDiff \/ ActorApplyFails
             \/ ActorApplies
  BY <1>4, ActorStep
<1>5. CASE PreflightNode
  <2>1. /\ node = "preflight_node" /\ node' \in {"actor", "all_critics"}
        /\ UNCHANGED <<correction, replanCount>> /\ correction.branch # NoBranch
    BY <1>5 DEF PreflightNode, RouteAfterPreflight, session, GitInv, Checking
  <2>2. QED
    BY <2>1, GitNodes, PlaceStutters
       DEF InRepository, Git!correction, Git!Checks, Checking
<1>6. CASE AllCritics
  <2>1. GitNode[node'] = GitNode[node] /\ UNCHANGED <<correction, replanCount>>
    BY <1>6, GitNodes DEF AllCritics, session, Checking
  <2>2. QED BY <2>1, PlaceStutters
<1>7. CASE VerifierDeletionGuard \/ VerifierCriticBlock \/ VerifierPhase1Fails
             \/ VerifierPhase2Fails \/ VerifierPasses
  BY <1>7, VerifierStep
<1>8. CASE VerifierRaises
  BY <1>8, VerifierRaisesStep
<1>9. CASE IntelligentDebugger
  <2>1. GitNode[node'] = GitNode[node] /\ UNCHANGED <<correction, replanCount>>
    BY <1>9, GitNodes DEF IntelligentDebugger, session
  <2>2. QED BY <2>1, PlaceStutters
<1>10. CASE SpeculativeBranchWins \/ SpeculativeBranchFails
  <2>1. /\ node = "speculative_branch" /\ UNCHANGED <<correction, replanCount>>
        /\ \/ node' = "memory_consolidation"
           \/ node' = "replan"
           \/ node' = "hitl_escalation" /\ ~(replanCount < MaxReplan)
    BY <1>10 DEF SpeculativeBranchWins, SpeculativeBranchFails,
       SpeculativeBranchFrame, RouteAfterSpeculativeBranch, session
  <2>2. replanCount \in Nat /\ replanCount <= MaxReplan
    BY DEF GitInv, TypeOK, CountersInv, CountersBounded
  <2>3. QED
    BY <2>1, <2>2, LimitsAssumption, GitNodes, PlaceStutters
       DEF InRepository, Git!correction, Git!SpeculativeBranch
<1>11. CASE Replan
  <2>1. /\ node = "replan" /\ node' \in {"tdd_gate", "hitl_escalation"}
        /\ correction'.attempt = 0 /\ correction'.branch = NoBranch
        /\ replanCount' = replanCount + 1 /\ replanCount < MaxReplan
    BY <1>11 DEF Replan, RouteAfterReplan, ForgetPlan, FreshCorrection, GitInv,
       CountersInv, CountersBounded
  <2>2. QED
    BY <2>1, GitNodes DEF InRepository, Git!SpeculativeBranch
<1>12. CASE \/ MemoryConsolidation \/ HitlEscalation \/ HitlReturns \/ NodeRaises
            \/ BranchCreationFails \/ Resume \/ Rerun
  <2>1. node' \in Terminal \cup {"bootstrap"}
    BY <1>12 DEF MemoryConsolidation, HitlEscalation, HitlReturns, NodeRaises,
       BranchCreationFails, Resume, Rerun, Terminal
  <2>2. QED BY <2>1, GitNodes, OutsideStutters, LeavesRepository
<1>13. CASE Stopped
  <2>1. GitNode[node'] = GitNode[node] /\ UNCHANGED <<correction, replanCount>>
    BY <1>13 DEF Stopped, vars, session
  <2>2. QED BY <2>1, PlaceStutters
<1>14. QED
  BY <1>1, <1>2, <1>3, <1>4, <1>5, <1>6, <1>7, <1>8, <1>9, <1>10, <1>11, <1>12,
     <1>13 DEF Next, SessionStep

(* What the session decides is what GitWorkspace has the commands of: every step
   of the graph is one of GitGraph, which GitWorkspace implements too. *)
THEOREM SessionFollowsGitGraph == Spec => FollowsGitGraph
<1>1. Init => CountersInv /\ DebugInv /\ BranchInv /\ FreshInv /\ Git!Init
  <2> SUFFICES ASSUME Init
               PROVE  CountersInv /\ DebugInv /\ BranchInv /\ FreshInv /\ Git!Init
    OBVIOUS
  <2>1. CountersInv
    BY LimitsAssumption, CyclesAssumption DEF Init, FreshCorrection, CountersInv,
       CountersBounded, Preparing, Checking
  <2>2. DebugInv /\ BranchInv /\ FreshInv
    BY DEF Init, DebugInv, DebuggerOncePerPlan, BranchInv, FreshInv, Preparing,
       Checking
  <2>3. Git!Init
    <3>1. GitNode[node] = "out"
      BY GitNodes DEF Init
    <3>2. QED BY <3>1 DEF Git!Init, InRepository
  <2>4. QED BY <2>1, <2>2, <2>3
<1>2. TypeOK /\ CountersInv /\ DebugInv /\ BranchInv /\ FreshInv => GitInv
  BY DEF GitInv, DebugInv, BranchInv, TypeOK
<1>3. GitInv /\ TypeOK' /\ [Next]_vars => [Git!Next]_Git!vars
  <2>1. UNCHANGED vars => UNCHANGED Git!vars
    BY PlaceStutters DEF vars, session
  <2>2. QED BY <2>1, NextTakesGitStep
<1>4. QED
  BY <1>1, <1>2, <1>3, InitTypes, NextKeepsTypes, NextKeepsCounters,
     NextKeepsDebugging, NextKeepsBranch, NextKeepsFresh, PTL
     DEF Spec, FollowsGitGraph, Git!Spec
=============================================================================
