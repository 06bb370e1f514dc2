---------------------- MODULE SACVWorkflowContractProofs ----------------------
(***************************************************************************)
(* SACVWorkflow implements SessionContract, for every value of its         *)
(* constants.                                                              *)
(***************************************************************************)
EXTENDS SACVWorkflowProofs

(* Nothing is known of a plan before its red phase, and what passed goes
   straight to consolidation. *)
ContractInv ==
    /\ node \in Preparing =>
           evidence = None /\ diff = None /\ verdict.result = "none"
    /\ verdict.result = "PASS" =>
           node \in {"memory_consolidation", "bootstrap"} \cup Terminal

Inv == TypeOK /\ CountersInv /\ ProvenanceInv /\ ContractInv

(* Every step keeps ContractInv. *)
LEMMA ContractInvNext ==
  ASSUME TypeOK, ContractInv, [Next]_vars
  PROVE  ContractInv'
<1> USE DEF session, oracle, task, history
<1>1. CASE Bootstrap
  BY <1>1 DEF Bootstrap, ForgetPlan, NoVerdict, ContractInv
<1>2. CASE ModeRouter
  BY <1>2 DEF ModeRouter, ContractInv, Preparing
<1>3. CASE Scout
  BY <1>3 DEF Scout, ContractInv, Preparing
<1>4. CASE ValueNode
  BY <1>4 DEF ValueNode, ContractInv, Preparing
<1>5. CASE TddGateSkips
  BY <1>5 DEF TddGateSkips, TddGateFrame, RouteAfterTddGate, ContractInv,
     Preparing
<1>6. CASE TddGateFails
  BY <1>6 DEF TddGateFails, TddGateFrame, ContractInv, Preparing
<1>7. CASE TddGateConfirmsRed
  BY <1>7 DEF TddGateConfirmsRed, TddGateFrame, RouteAfterTddGate,
     ContractInv, Preparing
<1>8. CASE ActorStagnates
  BY <1>8 DEF ActorStagnates, ActorFrame, RouteAfterActor, Fail, ContractInv,
     Preparing
<1>9. CASE ActorParseError
  BY <1>9 DEF ActorParseError, ActorWorks, ActorFrame, RouteAfterActor,
     ContractInv, Preparing, Terminal
<1>10. CASE ActorNoDiff
  BY <1>10 DEF ActorNoDiff, ActorWorks, ActorFrame, RouteAfterActor,
     ContractInv, Preparing, Terminal
<1>11. CASE ActorApplyFails
  BY <1>11 DEF ActorApplyFails, ActorWorks, ActorFrame, RouteAfterActor,
     ContractInv, Preparing, Terminal
<1>12. CASE ActorApplies
  BY <1>12 DEF ActorApplies, ActorWorks, ActorFrame, RouteAfterActor,
     ContractInv, Preparing, Terminal
<1>13. CASE BranchCreationFails
  BY <1>13 DEF BranchCreationFails, ContractInv, Preparing, Terminal
<1>14. CASE PreflightNode
  BY <1>14 DEF PreflightNode, RouteAfterPreflight, ContractInv, Preparing,
     Terminal
<1>15. CASE AllCritics
  BY <1>15 DEF AllCritics, ContractInv, Preparing, Terminal
<1>16. CASE VerifierDeletionGuard
  BY <1>16 DEF VerifierDeletionGuard, VerifierFrame, RouteAfterVerifier,
     ContractInv, Preparing
<1>17. CASE VerifierCriticBlock
  BY <1>17 DEF VerifierCriticBlock, VerifierFrame, RouteAfterVerifier,
     ContractInv, Preparing
<1>18. CASE VerifierPhase1Fails
  BY <1>18 DEF VerifierPhase1Fails, VerifierFrame, RouteAfterVerifier,
     ContractInv, Preparing
<1>19. CASE VerifierPhase2Fails
  BY <1>19 DEF VerifierPhase2Fails, VerifierFrame, RouteAfterVerifier,
     ContractInv, Preparing
<1>20. CASE VerifierPasses
  BY <1>20 DEF VerifierPasses, VerifierFrame, RouteAfterVerifier, ContractInv,
     Preparing
<1>21. CASE VerifierRaises
  BY <1>21 DEF VerifierRaises, VerifierFrame, RouteAfterVerifier, ContractInv,
     Preparing
<1>22. CASE IntelligentDebugger
  BY <1>22 DEF IntelligentDebugger, ContractInv, Preparing, Terminal
<1>23. CASE SpeculativeBranchWins
  BY <1>23 DEF SpeculativeBranchWins, SpeculativeBranchFrame,
     RouteAfterSpeculativeBranch, ContractInv, Preparing
<1>24. CASE SpeculativeBranchFails
  BY <1>24 DEF SpeculativeBranchFails, SpeculativeBranchFrame,
     RouteAfterSpeculativeBranch, ContractInv, Preparing
<1>25. CASE Replan
  BY <1>25 DEF Replan, ForgetPlan, NoVerdict, ContractInv
<1>26. CASE MemoryConsolidation
  BY <1>26 DEF MemoryConsolidation, ContractInv, Preparing, Terminal
<1>27. CASE HitlEscalation
  BY <1>27 DEF HitlEscalation, ContractInv, Preparing, Terminal
<1>28. CASE HitlReturns
  BY <1>28 DEF HitlReturns, ContractInv, Preparing, Terminal
<1>29. CASE NodeRaises
  BY <1>29 DEF NodeRaises, ContractInv, Preparing, Terminal
<1>30. CASE Resume
  BY <1>30 DEF Resume, ContractInv, Preparing, Terminal
<1>31. CASE Rerun
  BY <1>31 DEF Rerun, ContractInv, Preparing
<1>32. CASE UNCHANGED vars
  BY <1>32 DEF vars, ContractInv
<1> QED
  BY <1>1, <1>2, <1>3, <1>4, <1>5, <1>6, <1>7, <1>8, <1>9, <1>10, <1>11,
     <1>12, <1>13, <1>14, <1>15, <1>16, <1>17, <1>18, <1>19, <1>20, <1>21,
     <1>22, <1>23, <1>24, <1>25, <1>26, <1>27, <1>28, <1>29, <1>30, <1>31,
     <1>32 DEF Next, SessionStep, Stopped

(* The field of the current plan is not empty once the plan is made. *)
LEMMA PlanIsMade ==
  ASSUME Inv, node \in Nodes, node # "bootstrap"
  PROVE  plan # None
<1>1. plan \in Nat
  BY DEF Inv, TypeOK
<1>2. plan >= 1
  BY DEF Inv, ProvenanceInv
<1> QED
  BY <1>1, <1>2 DEF None

(* The steps of the contract, by what they change. *)
LEMMA ConfirmRedStep ==
  ASSUME node = "tdd_gate", node' = "actor",
         evidence = None, evidence' # None, diff = None,
         verdict.result = "none", UNCHANGED <<diff, verdict, replanCount>>
  PROVE  Contract!ConfirmRed
<1>1. Activity[node] = "planning" /\ Activity[node]' = "coding"
  BY DEF Activity
<1>2. /\ evidence = None /\ (evidence # None)'
      /\ ~(diff # None) /\ ~(verdict.result = "PASS")
  OBVIOUS
<1>3. UNCHANGED <<diff # None, verdict.result = "PASS", replanCount>>
  BY Zenon
<1> QED
  BY <1>1, <1>2, <1>3, Zenon DEF Contract!ConfirmRed

LEMMA CodeStep ==
  ASSUME node = "actor", evidence # None,
         verdict.result # "PASS", verdict'.result # "PASS",
         node' \in {"actor", "hitl_escalation", "preflight_node"},
         node' = "preflight_node" => diff' # None,
         UNCHANGED <<evidence, replanCount>>
  PROVE  Contract!Code
<1>1. /\ Activity[node] = "coding"
      /\ \/ Activity[node]' \in {"coding", "handover"}
         \/ Activity[node]' = "checking" /\ (diff # None)'
  BY DEF Activity
<1>2. (diff # None)' \in BOOLEAN
  OBVIOUS
<1>3. UNCHANGED <<evidence # None, verdict.result = "PASS", replanCount>>
  <2>1. (evidence # None)' = (evidence # None)
    BY Zenon
  <2>2. (verdict.result = "PASS")' = (verdict.result = "PASS")
    OBVIOUS
  <2> QED
    BY <2>1, <2>2, Zenon
<1> QED
  BY <1>1, <1>2, <1>3, Zenon DEF Contract!Code

LEMMA AcceptStep ==
  ASSUME node \in {"verifier", "speculative_branch"},
         node' = "memory_consolidation", evidence # None, diff # None,
         verdict'.result = "PASS", UNCHANGED <<evidence, diff, replanCount>>
  PROVE  Contract!Accept
<1>1. Activity[node] = "checking" /\ Activity[node]' = "keeping"
  BY DEF Activity
<1>2. evidence # None /\ diff # None /\ (verdict.result = "PASS")'
  OBVIOUS
<1>3. UNCHANGED <<evidence # None, diff # None, replanCount>>
  BY Zenon
<1> QED
  BY <1>1, <1>2, <1>3, Zenon DEF Contract!Accept

(* Every step is a step of the contract or none. *)
LEMMA StepImplements ==
  ASSUME Inv, [Next]_vars
  PROVE  [Contract!Next]_(Contract!vars)
<1> USE DEF session, oracle, task, history
<1>1. CASE Bootstrap
  BY <1>1 DEF Bootstrap, ForgetPlan, NoVerdict, Activity, Contract!Next,
     Contract!Forgotten, Contract!Start
<1>2. CASE ModeRouter
  BY <1>2 DEF ModeRouter, Activity, Contract!vars
<1>3. CASE Scout
  BY <1>3 DEF Scout, Activity, Contract!vars
<1>4. CASE ValueNode
  BY <1>4 DEF ValueNode, RouteAfterValueNode, Activity, Contract!Next,
     Contract!vars, Contract!HandOver
<1>5. CASE TddGateSkips
  <2>1. /\ node = "tdd_gate" /\ node' = "actor" /\ evidence' # None
        /\ UNCHANGED <<diff, verdict, replanCount>>
    BY <1>5, PlanIsMade DEF TddGateSkips, TddGateFrame, RouteAfterTddGate,
       Nodes
  <2>2. evidence = None /\ diff = None /\ verdict.result = "none"
    BY <2>1 DEF Inv, ContractInv, Preparing
  <2> QED
    BY <2>1, <2>2, ConfirmRedStep DEF Contract!Next
<1>6. CASE TddGateFails
  BY <1>6 DEF TddGateFails, TddGateFrame, RouteAfterTddGate, Activity,
     Contract!Next, Contract!vars, Inv, ContractInv, Preparing,
     Contract!HandOver
<1>7. CASE TddGateConfirmsRed
  <2>1. /\ node = "tdd_gate" /\ node' = "actor" /\ evidence' # None
        /\ UNCHANGED <<diff, verdict, replanCount>>
    BY <1>7, PlanIsMade DEF TddGateConfirmsRed, TddGateFrame,
       RouteAfterTddGate, Nodes
  <2>2. evidence = None /\ diff = None /\ verdict.result = "none"
    BY <2>1 DEF Inv, ContractInv, Preparing
  <2> QED
    BY <2>1, <2>2, ConfirmRedStep DEF Contract!Next
<1>8. CASE ActorStagnates
  <2>1. /\ node = "actor" /\ verdict'.result # "PASS"
        /\ node' \in {"actor", "hitl_escalation", "preflight_node"}
        /\ node' = "preflight_node" => diff' # None
        /\ UNCHANGED <<evidence, replanCount>>
    BY <1>8 DEF ActorStagnates, ActorFrame, RouteAfterActor, Fail
  <2>2. evidence # None /\ verdict.result # "PASS"
    BY <2>1, PlanIsMade DEF Inv, ProvenanceInv, ContractInv, Nodes, Terminal
  <2> QED
    BY <2>1, <2>2, CodeStep DEF Contract!Next
<1>9. CASE ActorParseError
  <2>1. /\ node = "actor" /\ verdict'.result # "PASS"
        /\ node' \in {"actor", "hitl_escalation", "preflight_node"}
        /\ node' = "preflight_node" => diff' # None
        /\ UNCHANGED <<evidence, replanCount>>
    BY <1>9 DEF ActorParseError, ActorWorks, ActorFrame, RouteAfterActor, Inv,
       ContractInv, Terminal
  <2>2. evidence # None /\ verdict.result # "PASS"
    BY <2>1, PlanIsMade DEF Inv, ProvenanceInv, ContractInv, Nodes, Terminal
  <2> QED
    BY <2>1, <2>2, CodeStep DEF Contract!Next
<1>10. CASE ActorNoDiff
  <2>1. /\ node = "actor" /\ verdict'.result # "PASS"
        /\ node' \in {"actor", "hitl_escalation", "preflight_node"}
        /\ node' = "preflight_node" => diff' # None
        /\ UNCHANGED <<evidence, replanCount>>
    BY <1>10 DEF ActorNoDiff, ActorWorks, ActorFrame, RouteAfterActor, Inv,
       ContractInv, Terminal
  <2>2. evidence # None /\ verdict.result # "PASS"
    BY <2>1, PlanIsMade DEF Inv, ProvenanceInv, ContractInv, Nodes, Terminal
  <2> QED
    BY <2>1, <2>2, CodeStep DEF Contract!Next
<1>11. CASE ActorApplyFails
  <2>1. /\ node = "actor" /\ verdict'.result # "PASS"
        /\ node' \in {"actor", "hitl_escalation", "preflight_node"}
        /\ node' = "preflight_node" => diff' # None
        /\ UNCHANGED <<evidence, replanCount>>
    BY <1>11 DEF ActorApplyFails, ActorWorks, ActorFrame, RouteAfterActor,
       Inv, ContractInv, Terminal
  <2>2. evidence # None /\ verdict.result # "PASS"
    BY <2>1, PlanIsMade DEF Inv, ProvenanceInv, ContractInv, Nodes, Terminal
  <2> QED
    BY <2>1, <2>2, CodeStep DEF Contract!Next
<1>12. CASE ActorApplies
  <2>1. /\ node = "actor" /\ verdict'.result # "PASS"
        /\ node' \in {"actor", "hitl_escalation", "preflight_node"}
        /\ node' = "preflight_node" => diff' # None
        /\ UNCHANGED <<evidence, replanCount>>
    BY <1>12 DEF ActorApplies, ActorWorks, ActorFrame, RouteAfterActor, Inv,
       ContractInv, Terminal
  <2>2. evidence # None /\ verdict.result # "PASS"
    BY <2>1, PlanIsMade DEF Inv, ProvenanceInv, ContractInv, Nodes, Terminal
  <2> QED
    BY <2>1, <2>2, CodeStep DEF Contract!Next
<1>13. CASE BranchCreationFails
  BY <1>13 DEF BranchCreationFails, EndFrame, Activity, Contract!Next,
     Contract!End
<1>14. CASE PreflightNode
  BY <1>14 DEF PreflightNode, RouteAfterPreflight, Activity, Contract!Next,
     Contract!vars, Contract!Reject
<1>15. CASE AllCritics
  BY <1>15 DEF AllCritics, Activity, Contract!vars
<1>16. CASE VerifierDeletionGuard
  BY <1>16 DEF VerifierDeletionGuard, VerifierFrame, RouteAfterVerifier, Fail,
     Activity, Contract!Next, Contract!vars, Inv, ContractInv, Terminal,
     Contract!Reject, Contract!HandOver
<1>17. CASE VerifierCriticBlock
  BY <1>17 DEF VerifierCriticBlock, VerifierFrame, RouteAfterVerifier, Fail,
     Activity, Contract!Next, Inv, ContractInv, Terminal, Contract!Reject,
     Contract!HandOver
<1>18. CASE VerifierPhase1Fails
  BY <1>18 DEF VerifierPhase1Fails, VerifierFrame, RouteAfterVerifier, Fail,
     Activity, Contract!Next, Contract!vars, Inv, ContractInv, Terminal,
     Contract!Reject, Contract!HandOver
<1>19. CASE VerifierPhase2Fails
  BY <1>19 DEF VerifierPhase2Fails, VerifierFrame, RouteAfterVerifier, Fail,
     Activity, Contract!Next, Contract!vars, Inv, ContractInv, Terminal,
     Contract!Reject, Contract!HandOver
<1>20. CASE VerifierPasses
  <2>1. /\ node = "verifier" /\ node' = "memory_consolidation"
        /\ verdict'.result = "PASS"
        /\ UNCHANGED <<evidence, diff, replanCount>>
    BY <1>20 DEF VerifierPasses, VerifierFrame, RouteAfterVerifier, Pass
  <2>2. evidence # None /\ diff # None
    BY <2>1, PlanIsMade DEF Inv, ProvenanceInv, Checking, Nodes
  <2> QED
    BY <2>1, <2>2, AcceptStep DEF Contract!Next
<1>21. CASE VerifierRaises
  BY <1>21 DEF VerifierRaises, VerifierFrame, RouteAfterVerifier, Fail,
     Activity, Contract!Next, Contract!vars, Inv, ContractInv, Terminal,
     Contract!Reject, Contract!HandOver
<1>22. CASE IntelligentDebugger
  BY <1>22 DEF IntelligentDebugger, Activity, Contract!Next, Contract!Reject
<1>23. CASE SpeculativeBranchWins
  <2>1. /\ node = "speculative_branch" /\ node' = "memory_consolidation"
        /\ verdict'.result = "PASS"
        /\ UNCHANGED <<evidence, diff, replanCount>>
    BY <1>23 DEF SpeculativeBranchWins, SpeculativeBranchFrame,
       RouteAfterSpeculativeBranch, Pass
  <2>2. evidence # None /\ diff # None
    BY <2>1, PlanIsMade DEF Inv, ProvenanceInv, Nodes
  <2> QED
    BY <2>1, <2>2, AcceptStep DEF Contract!Next
<1>24. CASE SpeculativeBranchFails
  BY <1>24 DEF SpeculativeBranchFails, SpeculativeBranchFrame,
     RouteAfterSpeculativeBranch, Fail, Activity, Contract!Next,
     Contract!vars, Inv, ContractInv, Terminal, Contract!HandOver
<1>25. CASE Replan
  BY <1>25 DEF Replan, ForgetPlan, NoVerdict, RouteAfterReplan, Activity,
     Contract!Next, Contract!Forgotten, Inv, CountersInv, CountersBounded,
     ContractInv, Terminal, Contract!GiveUpPlan
<1>26. CASE MemoryConsolidation
  BY <1>26 DEF MemoryConsolidation, EndFrame, Activity, Contract!Next,
     Contract!End
<1>27. CASE HitlEscalation
  BY <1>27 DEF HitlEscalation, EndFrame, Activity, Contract!Next, Contract!End
<1>28. CASE HitlReturns
  BY <1>28 DEF HitlReturns, EndFrame, Activity, Contract!Next, Contract!End
<1>29. CASE NodeRaises
  BY <1>29 DEF NodeRaises, EndFrame, Activity, Contract!Next, Inv, TypeOK,
     Nodes, Contract!End
<1>30. CASE Resume
  BY <1>30 DEF Resume, EndFrame, Activity, Contract!vars
<1>31. CASE Rerun
  BY <1>31 DEF Rerun, EndFrame, Activity, Contract!Next, Terminal,
     Contract!Rerun
<1>32. CASE UNCHANGED vars
  BY <1>32 DEF vars, Contract!vars
<1> QED
  BY <1>1, <1>2, <1>3, <1>4, <1>5, <1>6, <1>7, <1>8, <1>9, <1>10, <1>11,
     <1>12, <1>13, <1>14, <1>15, <1>16, <1>17, <1>18, <1>19, <1>20, <1>21,
     <1>22, <1>23, <1>24, <1>25, <1>26, <1>27, <1>28, <1>29, <1>30, <1>31,
     <1>32 DEF Next, SessionStep, Stopped

(* The initial states are those of the contract. *)
LEMMA InitImplements == Init => Contract!Init
  BY DEF Init, Contract!Init, Activity, NoVerdict

(* In each plan the red phase comes before the actor, a patch before its checks
   and a PASS before consolidation; a new plan or a rerun starts from nothing. *)
THEOREM SessionKeepsContract == Spec => ImplementsContract
<1>1. Init => Inv
  <2>1. Init => CountersInv
    BY CyclesAssumption, LimitsAssumption DEF Init, CountersInv,
       CountersBounded, FreshCorrection
  <2>2. Init => ProvenanceInv
    BY DEF Init, ProvenanceInv, NoCrossPlanLeak,
       OnlyVerifiedPatchesConsolidate, Checking
  <2>3. Init => ContractInv
    BY DEF Init, ContractInv, Preparing
  <2> QED
    BY <2>1, <2>2, <2>3, InitTypes DEF Inv
<1>2. Inv /\ [Next]_vars => Inv'
  BY NextKeepsTypes, NextKeepsCounters, NextKeepsProvenance, ContractInvNext
     DEF Inv
<1>3. Inv /\ [Next]_vars => [Contract!Next]_(Contract!vars)
  BY StepImplements
<1> QED
  BY <1>1, <1>2, <1>3, InitImplements, PTL DEF Spec, ImplementsContract,
     Contract!Spec
=============================================================================
