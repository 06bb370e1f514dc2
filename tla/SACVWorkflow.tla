---------------------------- MODULE SACVWorkflow ----------------------------
(***************************************************************************)
(* The orchestration graph of SACV: one coding session as LangGraph runs   *)
(* it.  `node' is the node LangGraph executes next.  Each action is one    *)
(* whole node: what the node returns, merged by the reducers of            *)
(* orchestration/state.py, and the conditional edge of                     *)
(* orchestration/edges.py evaluated on the merged state.                   *)
(*                                                                         *)
(* Agents, the sandbox and git are the environment: what they answer is    *)
(* chosen with \E.  Names, prompts and payloads are abstracted: a diff, a  *)
(* red-phase evidence file, a debug session and a verdict are known by the *)
(* plan they were made for, an error text by its similarity class, a       *)
(* problem (preflight violation or critical finding) by its rule.          *)
(***************************************************************************)
EXTENDS Integers, FiniteSets

CONSTANTS
    MaxCycles,        \* max_self_correction_cycles
    Threshold,        \* confidence_escalation_threshold, in hundredths
    MaxReplan,        \* max_replan_attempts
    MaxTdd,           \* max_tdd_gate_attempts
    MaxEmpty,         \* max_empty_diff_retries
    Warning,          \* token_budget.warning_dollar
    Critical,         \* token_budget.critical_dollar
    CostSteps,        \* what the LLM calls of one node may cost
    BlastPenalties,   \* 0.30 * risk_score of the blast map, in hundredths
    BlockingProblems, \* rules of LSP, architecture and cross-stack violations
    CriticProblems,   \* rules of critical critic findings
    TestErrors,       \* similarity classes of test failure texts
    GitStrict,        \* TRUE: BranchManager, FALSE: the stub of the tests
    SkipChoices,      \* values of skip_tdd_gate a run may start with
    BlastChecks,      \* whether the checks of a run may have "blast_radius"
    MaxRuns           \* bound: sessions started with the same task id

ASSUME CyclesAssumption == MaxCycles \in Nat \ {0}
ASSUME ThresholdAssumption == Threshold \in 1..100
ASSUME LimitsAssumption == /\ MaxReplan \in Nat
                           /\ MaxTdd \in Nat \ {0}
                           /\ MaxEmpty \in Nat \ {0}
                           /\ MaxRuns \in Nat \ {0}
ASSUME BudgetAssumption == /\ Warning \in Nat
                           /\ Critical \in Nat
                           /\ Warning < Critical
                           /\ CostSteps \subseteq Nat
ASSUME BlastAssumption == BlastPenalties \subseteq 0..30
ASSUME ProblemsAssumption ==
    /\ IsFiniteSet(CriticProblems)
    /\ "blast_radius_limit" \notin BlockingProblems \cup CriticProblems
ASSUME ErrorsAssumption == {"none", "critic_block"} \cap TestErrors = {}
ASSUME FlagsAssumption == /\ GitStrict \in BOOLEAN
                          /\ SkipChoices \subseteq BOOLEAN
                          /\ BlastChecks \subseteq BOOLEAN

VARIABLES
    node,          \* the node that runs next, or how the session ended
    correction,    \* correction_state
    violations,    \* rules in preflight_result ({}: None or clean)
    findings,      \* rules of the critical critic_findings
    verdict,       \* verifier_verdict
    diff,          \* plan the diff_proposal was made for (None: no diff)
    evidence,      \* plan of red_phase_evidence_path
    debug,         \* plan of debug_observations
    inventory,     \* test_inventory_paths is not empty
    emptyRetries,  \* empty_diff_retries
    tddAttempts,   \* tdd_gate_attempts
    replanCount,   \* replan_count
    candidates,    \* strategy_candidates is not empty
    cost,          \* cumulative_cost_dollars, capped at Critical
    blast,         \* what preflight and routing read of blast_radius_map
    skipTdd,       \* skip_tdd_gate
    branches,      \* k such that branch agent-task-<id>-a<k> exists
    runs,          \* sessions started with this task id
    limited,       \* "blast_radius" is a check of module_type and check_profile
    marker,        \* the file task-<id>.esc_id of an escalation exists
    plan,          \* history: number of plans made so far, over all runs
    debugged       \* history: plan in which the debugger last ran

session  == <<replanCount, candidates, blast, skipTdd>>
oracle   == <<evidence, inventory, tddAttempts>>
task     == <<runs, marker, limited>>
history  == <<plan, debugged>>
vars == <<node, correction, violations, findings, verdict, diff, debug,
          emptyRetries, cost, branches, task,
          session, oracle, history>>

-----------------------------------------------------------------------------
(* Values *)

None == 0                       \* no plan: the field is None
NoBranch == -1                  \* correction_state.branch_name is None
Terminal == {"END", "escalated", "crashed"}
Nodes == {"bootstrap", "mode_router", "scout", "value_node", "tdd_gate",
          "actor", "preflight_node", "all_critics", "verifier",
          "intelligent_debugger", "speculative_branch", "replan",
          "memory_consolidation", "hitl_escalation"}
ErrorTexts == TestErrors \cup {"none", "critic_block"}
Rules == BlockingProblems \cup CriticProblems \cup {"blast_radius_limit"}

Corrections ==
    [attempt   : Nat,                              \* attempt_count
     branch    : Nat \cup {NoBranch},              \* branch_name
     errors    : ErrorTexts \X ErrorTexts,         \* last two of error_history
     pattern   : {"none", "iteration", "semantic", "outcome"},
     signature : SUBSET SUBSET Rules]              \* last_outcome_signature

Verdicts ==
    [result : {"none", "PASS", "FAIL"}, ambiguous : BOOLEAN, blocked : BOOLEAN,
     phase1 : BOOLEAN, phase2 : BOOLEAN,
     won : BOOLEAN,             \* the verdict of a speculative branch
     plan : Nat]                \* history: the plan that was verified

FreshCorrection ==
    [attempt |-> 0, branch |-> NoBranch, errors |-> <<"none", "none">>,
     pattern |-> "none", signature |-> {}]

NoVerdict ==
    [result |-> "none", ambiguous |-> FALSE, blocked |-> FALSE,
     phase1 |-> FALSE, phase2 |-> FALSE, won |-> FALSE, plan |-> None]

Fail(ambiguous, blocked, phase1, phase2) ==
    [result |-> "FAIL", ambiguous |-> ambiguous, blocked |-> blocked,
     phase1 |-> phase1, phase2 |-> phase2, won |-> FALSE, plan |-> plan]

Pass(won) ==
    [result |-> "PASS", ambiguous |-> FALSE, blocked |-> FALSE,
     phase1 |-> TRUE, phase2 |-> TRUE, won |-> won, plan |-> plan]

AtMost(n, limit) == IF n <= limit THEN n ELSE limit

Spend(d) == cost' = AtMost(cost + d, Critical)

-----------------------------------------------------------------------------
(* Confidence and stagnation: the pure functions the routing reads *)

CriticPenalty == AtMost(10 * Cardinality(findings), 30)

VerifierPenaltyForBothPhases ==    \* mutation
    IF verdict.result # "none" /\ ~verdict.phase1 THEN 30 ELSE 0

VerifierPenalty ==
    IF verdict.result = "none" THEN 0
    ELSE IF verdict.phase1 /\ ~verdict.phase2 THEN 15
    ELSE IF ~verdict.phase1 /\ ~verdict.phase2 THEN 30
    ELSE 0

StagnationPenalty == IF correction.pattern = "none" THEN 0 ELSE 40

CostOverrun == IF cost >= Warning THEN cost - Warning ELSE 0

(* 1 - penalties < threshold, multiplied by MaxCycles * (Critical - Warning)
   so that the two ratios in it stay integers. *)
LowConfidence ==
    LET flat == StagnationPenalty + blast.penalty + CriticPenalty + VerifierPenalty
        span == Critical - Warning
    IN  (100 - flat - Threshold) * (MaxCycles * span)
          < 100 * (AtMost(correction.attempt, MaxCycles) * span)
            + 100 * (CostOverrun * MaxCycles)

Problems == violations \cup findings

(* compute_outcome_signature with the guard "has_problems" of the actor: a
   violation of the blast limit alone leaves preflight_result.passed true. *)
HasProblems == (violations \cap BlockingProblems) \cup findings # {}

Stagnation ==
    LET errors == correction.errors IN
    IF correction.attempt >= MaxCycles THEN "iteration"
    ELSE IF errors[1] # "none" /\ errors[1] = errors[2] THEN "semantic"
    ELSE IF HasProblems /\ correction.signature = {Problems} THEN "outcome"
    ELSE "none"

-----------------------------------------------------------------------------
(* Routing: the conditional edges, as functions of the merged state *)

RouteAfterValueNode == IF candidates THEN "tdd_gate" ELSE "hitl_escalation"

RouteAfterReplan == IF candidates THEN "tdd_gate" ELSE "hitl_escalation"

RouteAfterTddGate ==
    IF evidence # None THEN "actor"
    ELSE IF tddAttempts >= MaxTdd THEN "hitl_escalation"
    ELSE "tdd_gate"

RouteAfterActorNoValve ==    \* mutation
    IF correction.pattern # "none" THEN "hitl_escalation"
    ELSE IF diff # None THEN "preflight_node"
    ELSE "actor"

RouteAfterActor ==
    IF correction.pattern # "none" THEN "hitl_escalation"
    ELSE IF diff # None THEN "preflight_node"
    ELSE IF emptyRetries >= MaxEmpty THEN "hitl_escalation"
    ELSE "actor"

RouteAfterPreflightRequired ==    \* mutation
    IF violations \cap BlockingProblems # {} THEN "actor" ELSE "all_critics"

RouteAfterPreflight == IF violations # {} THEN "actor" ELSE "all_critics"

DebugsNow == verdict.ambiguous /\ correction.attempt <= 1

RouteAfterVerifierBlockFirst ==    \* mutation
    IF verdict.result = "none" THEN "hitl_escalation"
    ELSE IF verdict.result = "PASS" THEN "memory_consolidation"
    ELSE IF verdict.blocked THEN "actor"
    ELSE IF cost >= Critical \/ LowConfidence THEN "hitl_escalation"
    ELSE IF correction.attempt >= MaxCycles THEN "hitl_escalation"
    ELSE IF DebugsNow THEN "intelligent_debugger"
    ELSE IF correction.attempt >= 2 THEN "speculative_branch"
    ELSE "actor"

RouteAfterVerifier ==
    IF verdict.result = "none" THEN "hitl_escalation"
    ELSE IF verdict.result = "PASS" THEN "memory_consolidation"
    ELSE IF cost >= Critical THEN "hitl_escalation"
    ELSE IF LowConfidence THEN "hitl_escalation"
    ELSE IF verdict.blocked THEN "actor"
    ELSE IF correction.attempt >= MaxCycles THEN "hitl_escalation"
    ELSE IF DebugsNow THEN "intelligent_debugger"
    ELSE IF correction.attempt >= 2 THEN "speculative_branch"
    ELSE "actor"

RouteAfterSpeculativeBranch ==
    IF verdict.result = "PASS" THEN "memory_consolidation"
    ELSE IF replanCount < MaxReplan THEN "replan"
    ELSE "hitl_escalation"

-----------------------------------------------------------------------------
(* Setting the session up *)

Init ==
    /\ node = "bootstrap" /\ correction = FreshCorrection
    /\ violations = {} /\ findings = {} /\ verdict = NoVerdict
    /\ diff = None /\ evidence = None /\ debug = None /\ inventory = FALSE
    /\ emptyRetries = 0 /\ tddAttempts = 0 /\ replanCount = 0
    /\ candidates = FALSE /\ cost = 0
    /\ blast = [over |-> FALSE, penalty |-> 0]
    /\ skipTdd \in SkipChoices
    /\ branches = {} /\ runs = 1 /\ marker = FALSE
    /\ limited \in BlastChecks
    /\ plan = 0 /\ debugged = None

ForgetPlanButEvidence ==    \* mutation
    /\ correction' = [FreshCorrection EXCEPT !.signature = correction.signature]
    /\ violations' = {} /\ findings' = {} /\ verdict' = NoVerdict
    /\ diff' = None /\ inventory' = FALSE /\ emptyRetries' = 0
    /\ tddAttempts' = 0 /\ plan' = plan + 1
    /\ UNCHANGED evidence

(* What bootstrap and replan both reset.  The shallow merge of
   correction_state keeps last_outcome_signature, which neither names. *)
ForgetPlan ==
    /\ correction' = [FreshCorrection EXCEPT !.signature = correction.signature]
    /\ violations' = {} /\ findings' = {} /\ verdict' = NoVerdict
    /\ diff' = None /\ inventory' = FALSE /\ emptyRetries' = 0
    /\ tddAttempts' = 0 /\ plan' = plan + 1
    /\ evidence' = None

Bootstrap ==
    /\ node = "bootstrap"
    /\ ForgetPlan
    /\ debug' = None /\ replanCount' = 0 /\ candidates' = FALSE /\ cost' = 0
    /\ blast' = [over |-> FALSE, penalty |-> 0]
    /\ node' = "mode_router"
    /\ UNCHANGED <<skipTdd, branches, task, debugged>>

ModeRouter ==
    /\ node = "mode_router"
    /\ node' = "scout"
    /\ UNCHANGED <<correction, violations, findings, verdict, diff, debug,
                   emptyRetries, cost, branches, task,
                   session, oracle, history>>

(* No blast map (greenfield, or no file named in the task) is the map that
   is not over the limit and has no penalty. *)
Scout ==
    /\ node = "scout"
    /\ \E over \in BOOLEAN, penalty \in BlastPenalties :
          blast' = [over |-> over, penalty |-> penalty]
    /\ node' = "value_node"
    /\ UNCHANGED <<correction, violations, findings, verdict, diff, debug,
                   emptyRetries, cost, branches, task,
                   replanCount, candidates, skipTdd, oracle, history>>

ValueNode ==
    /\ node = "value_node"
    /\ candidates' \in BOOLEAN
    /\ \E d \in CostSteps : Spend(d)
    /\ node' = RouteAfterValueNode'
    /\ UNCHANGED <<correction, violations, findings, verdict, diff, debug,
                   emptyRetries, branches, task,
                   replanCount, blast, skipTdd, oracle, history>>

-----------------------------------------------------------------------------
(* The test oracle *)

TddGateFrame ==
    /\ UNCHANGED <<correction, violations, findings, verdict, diff, debug,
                   emptyRetries, branches, task, session, history>>
    /\ node' = RouteAfterTddGate'

TddGateSkips ==
    /\ node = "tdd_gate"
    /\ skipTdd
    /\ evidence' = plan /\ inventory' = FALSE
    /\ UNCHANGED <<tddAttempts, cost>>
    /\ TddGateFrame

(* No parseable tests, or tests that pass before any code is written. *)
TddGateFails ==
    /\ node = "tdd_gate"
    /\ ~skipTdd
    /\ evidence' = None /\ inventory' = FALSE
    /\ tddAttempts' = tddAttempts + 1
    /\ \E d \in CostSteps : Spend(d)
    /\ TddGateFrame

(* The suite fails.  Test files without a path or a body are dropped one by
   one, so what is confirmed red may be a suite without any new test. *)
TddGateConfirmsRed ==
    /\ node = "tdd_gate"
    /\ ~skipTdd
    /\ evidence' = plan
    /\ inventory' \in BOOLEAN
    /\ \E d \in CostSteps : Spend(d)
    /\ UNCHANGED tddAttempts
    /\ TddGateFrame

-----------------------------------------------------------------------------
(* The actor *)

HasBranch == correction.branch \in branches
ActorBranchAsStored == correction.branch    \* mutation
ActorBranch == IF HasBranch THEN correction.branch ELSE correction.attempt

(* git checkout -b fails on a name that exists; the stub of the tests
   accepts it. *)
BranchReady == HasBranch \/ ~GitStrict \/ correction.attempt \notin branches

NextAttemptUncounted == [correction EXCEPT !.branch = ActorBranch]  \* mutation
NextAttemptUnnamed == [correction EXCEPT !.attempt = @ + 1]         \* mutation
NextAttempt == [correction EXCEPT !.attempt = @ + 1, !.branch = ActorBranch]

ActorFrame ==
    /\ UNCHANGED <<task, session, oracle, plan, debugged>>
    /\ node' = RouteAfterActor'

ActorStagnates ==
    /\ node = "actor"
    /\ Stagnation # "none"
    /\ correction' = [correction EXCEPT !.attempt = MaxCycles,
                                        !.pattern = Stagnation]
    /\ verdict' = Fail(FALSE, FALSE, FALSE, FALSE)
    /\ diff' = None
    /\ UNCHANGED <<violations, findings, debug, emptyRetries, cost, branches>>
    /\ ActorFrame

ActorWorks ==
    /\ node = "actor"
    /\ Stagnation = "none"
    /\ BranchReady
    /\ branches' = branches \cup {ActorBranch}
    /\ findings' = {}
    /\ \E d \in CostSteps : Spend(d)
    /\ UNCHANGED verdict

ActorParseError ==
    /\ ActorWorks
    /\ correction' = [correction EXCEPT !.attempt = @ + 1]
    /\ diff' = None /\ debug' = None
    /\ emptyRetries' = emptyRetries + 1
    /\ UNCHANGED <<violations>>
    /\ ActorFrame

(* An empty list of diffs, or an overwrite that validation rejected. *)
ActorNoDiff ==
    /\ ActorWorks
    /\ diff' = None
    /\ emptyRetries' = emptyRetries + 1
    /\ UNCHANGED <<correction, violations, debug>>
    /\ ActorFrame

ActorApplyFails ==
    /\ ActorWorks
    /\ correction' = NextAttempt
    /\ diff' = None
    /\ UNCHANGED <<violations, debug, emptyRetries>>
    /\ ActorFrame

ActorApplies ==
    /\ ActorWorks
    /\ correction' = NextAttempt
    /\ diff' = plan /\ debug' = None
    /\ violations' = {}
    /\ emptyRetries' = 0
    /\ ActorFrame

-----------------------------------------------------------------------------
(* Preflight, critics and verifier *)

BlastErrors == IF limited /\ blast.over THEN {"blast_radius_limit"} ELSE {}

(* Route reads every list of preflight_result, whether the check that filled
   it is required or not. *)
PreflightNode ==
    /\ node = "preflight_node"
    /\ \E broken \in SUBSET BlockingProblems : violations' = broken \cup BlastErrors
    /\ findings' = {}
    /\ node' = RouteAfterPreflight'
    /\ UNCHANGED <<correction, verdict, diff, debug, emptyRetries, cost,
                   branches, task, session, oracle, history>>

(* Findings are appended; a critic that raises adds none and costs none. *)
AllCritics ==
    /\ node = "all_critics"
    /\ \E found \in SUBSET CriticProblems : findings' = findings \cup found
    /\ \E d \in CostSteps : Spend(d)
    /\ node' = "verifier"
    /\ UNCHANGED <<correction, violations, verdict, diff, debug, emptyRetries,
                   branches, task, session, oracle, history>>

VerifierFrame ==
    /\ UNCHANGED <<violations, findings, diff, debug, emptyRetries, cost,
                   branches, task, session, oracle, history>>
    /\ node' = RouteAfterVerifier'

(* error_history after a failure with text e; "none" is the empty text. *)
Remember(e) ==
    IF e = "none" THEN correction.errors ELSE <<correction.errors[2], e>>

VerifierDeletionGuard ==
    /\ node = "verifier"
    /\ verdict' = Fail(FALSE, FALSE, FALSE, FALSE)
    /\ \E e \in TestErrors : correction' = [correction EXCEPT !.errors = Remember(e)]
    /\ VerifierFrame

VerifierCriticBlockSigned ==    \* mutation
    /\ node = "verifier"
    /\ findings # {}
    /\ verdict' = Fail(FALSE, TRUE, FALSE, FALSE)
    /\ \E e \in TestErrors :
          correction' = [correction EXCEPT !.errors = Remember(e),
                                           !.signature = {Problems}]
    /\ VerifierFrame

VerifierCriticBlock ==
    /\ node = "verifier"
    /\ findings # {}
    /\ verdict' = Fail(FALSE, TRUE, FALSE, FALSE)
    /\ correction' = [correction EXCEPT !.errors = Remember("critic_block")]
    /\ VerifierFrame

VerifierPhase1Fails ==
    /\ node = "verifier"
    /\ findings = {}
    /\ verdict' = Fail(FALSE, FALSE, FALSE, FALSE)
    /\ \E e \in TestErrors \cup {"none"} :
          correction' = [correction EXCEPT !.errors = Remember(e),
                                           !.signature = {Problems}]
    /\ VerifierFrame

(* Phase 2 runs the inventory when there is one and the API check when the
   schema is affected; the diagnosis is an LLM call whose cost is dropped. *)
VerifierPhase2Fails ==
    /\ node = "verifier"
    /\ findings = {}
    /\ \E ambiguous, phase2 \in BOOLEAN :          \* phase2: visual breakage
          verdict' = Fail(ambiguous, FALSE, TRUE, phase2)
    /\ \E e \in TestErrors \cup {"none"} :
          correction' = [correction EXCEPT !.errors = Remember(e),
                                           !.signature = {Problems}]
    /\ VerifierFrame

VerifierPasses ==
    /\ node = "verifier"
    /\ findings = {}
    /\ verdict' = Pass(FALSE)
    /\ correction' = [correction EXCEPT !.signature = {Problems}]
    /\ VerifierFrame

(* The sandbox raises: run_verifier_with_confidence turns it into a verdict. *)
VerifierRaises ==
    /\ node = "verifier"
    /\ findings = {}
    /\ verdict' = Fail(TRUE, FALSE, FALSE, FALSE)
    /\ correction' = [correction EXCEPT !.attempt = @ + 1]
    /\ VerifierFrame

-----------------------------------------------------------------------------
(* What follows a failed verification *)

IntelligentDebugger ==
    /\ node = "intelligent_debugger"
    /\ debug' = plan /\ debugged' = plan
    /\ \E d \in CostSteps : Spend(d)
    /\ node' = "actor"
    /\ UNCHANGED <<correction, violations, findings, verdict, diff,
                   emptyRetries, branches, task, session, oracle,
                   plan>>

(* git stash push -u takes the untracked .workflow with it, unless the
   repository ignores it; nothing pops that stash. *)
MarkerMayBeStashed == marker' = marker \/ (GitStrict /\ marker' = FALSE)

(* Branches of strategies run in worktrees of their own and their spending is
   not returned.  The branch of the attempt is then deleted: git refuses, it
   is checked out in the repository; the stub obeys. *)
SpeculativeBranchFrame ==
    /\ branches' = IF GitStrict THEN branches ELSE branches \ {correction.branch}
    /\ MarkerMayBeStashed
    /\ UNCHANGED <<correction, violations, diff, debug, emptyRetries, cost,
                   runs, limited, session, oracle, history>>
    /\ node' = RouteAfterSpeculativeBranch'

SpeculativeBranchWins ==
    /\ node = "speculative_branch"
    /\ verdict' = Pass(TRUE)
    /\ UNCHANGED findings
    /\ SpeculativeBranchFrame

SpeculativeBranchFails ==
    /\ node = "speculative_branch"
    /\ verdict' = Fail(TRUE, FALSE, FALSE, FALSE)
    /\ findings' = {}
    /\ SpeculativeBranchFrame

(* debug_observations are not reset here. *)
Replan ==
    /\ node = "replan"
    /\ ForgetPlan
    /\ candidates' \in BOOLEAN
    /\ replanCount' = replanCount + 1
    /\ \E d \in CostSteps : Spend(d)
    /\ node' = RouteAfterReplan'
    /\ UNCHANGED <<debug, branches, task, blast, skipTdd, debugged>>

-----------------------------------------------------------------------------
(* How a session ends, and starts again *)

EndFrame ==
    UNCHANGED <<correction, violations, findings, verdict, diff, debug,
                emptyRetries, cost, session, oracle, history>>

MemoryConsolidation ==
    /\ node = "memory_consolidation" /\ node' = "END"
    /\ UNCHANGED <<branches, task>> /\ EndFrame

(* The first escalation of a task leaves a payload and a marker file and
   pauses on an interrupt. *)
HitlEscalation ==
    /\ node = "hitl_escalation" /\ node' = "escalated"
    /\ ~marker /\ marker' = TRUE
    /\ UNCHANGED <<branches, runs, limited>> /\ EndFrame

(* The marker is never removed: with it the node returns the payload of the
   first escalation, without an interrupt. *)
HitlReturns ==
    /\ node = "hitl_escalation" /\ node' = "END"
    /\ marker
    /\ UNCHANGED <<branches, task>> /\ EndFrame

(* `sacv resume': the node runs again, finds its marker and returns. *)
Resume ==
    /\ node = "escalated" /\ node' = "END"
    /\ UNCHANGED <<branches, task>> /\ EndFrame

(* A node raises (agent, sandbox, MCP server or git), or the session timeout
   cancels it: the state stays that of the last checkpoint, side effects stay
   done.  The critics and the verifier catch exceptions, but no cancellation. *)
NodeRaises ==
    /\ node \notin Terminal
    /\ node' = "crashed"
    /\ \/ branches' = branches
       \/ /\ node = "actor" /\ Stagnation = "none" /\ BranchReady
          /\ branches' = branches \cup {ActorBranch}
    /\ \/ marker' = marker
       \/ node = "hitl_escalation" /\ marker' = TRUE
       \/ node = "speculative_branch" /\ MarkerMayBeStashed
    /\ UNCHANGED <<runs, limited>> /\ EndFrame

BranchCreationFails ==
    /\ node = "actor" /\ node' = "crashed"
    /\ Stagnation = "none" /\ ~BranchReady
    /\ UNCHANGED <<branches, task>> /\ EndFrame

(* The CLI uses the task id as thread id: a new `sacv run' of the same task
   starts at bootstrap on the state and the branches the last one left; it may
   name another module or profile. *)
Rerun ==
    /\ node \in Terminal
    /\ runs < MaxRuns
    /\ runs' = runs + 1 /\ limited' \in BlastChecks
    /\ node' = "bootstrap"
    /\ UNCHANGED <<branches, marker>> /\ EndFrame

Stopped == node \in Terminal /\ UNCHANGED vars

SessionStep ==
    \/ Bootstrap \/ ModeRouter \/ Scout \/ ValueNode
    \/ TddGateSkips \/ TddGateFails \/ TddGateConfirmsRed
    \/ ActorStagnates \/ ActorParseError \/ ActorNoDiff
    \/ ActorApplyFails \/ ActorApplies \/ BranchCreationFails
    \/ PreflightNode \/ AllCritics
    \/ VerifierDeletionGuard \/ VerifierCriticBlock \/ VerifierPhase1Fails
    \/ VerifierPhase2Fails \/ VerifierPasses \/ VerifierRaises
    \/ IntelligentDebugger
    \/ SpeculativeBranchWins \/ SpeculativeBranchFails \/ Replan
    \/ MemoryConsolidation \/ HitlEscalation \/ HitlReturns

Next == SessionStep \/ NodeRaises \/ Resume \/ Rerun \/ Stopped

Spec == Init /\ [][Next]_vars

(* LangGraph schedules the next node as soon as the last one has returned,
   and every call a node makes has a timeout.  Nothing obliges a user to
   resume or to rerun a session. *)
FairSpec == Spec /\ WF_vars(SessionStep)

-----------------------------------------------------------------------------
(* Properties *)

(* Every field of the workflow state has the type its TypedDict gives it. *)
TypeOK ==
    /\ node \in Nodes \cup Terminal
    /\ correction \in Corrections
    /\ violations \in SUBSET (BlockingProblems \cup {"blast_radius_limit"})
    /\ findings \in SUBSET CriticProblems
    /\ verdict \in Verdicts
    /\ diff \in Nat /\ evidence \in Nat /\ debug \in Nat
    /\ inventory \in BOOLEAN
    /\ emptyRetries \in Nat /\ tddAttempts \in Nat /\ replanCount \in Nat
    /\ candidates \in BOOLEAN
    /\ cost \in Nat
    /\ blast \in [over : BOOLEAN, penalty : BlastPenalties \cup {0}]
    /\ skipTdd \in BOOLEAN
    /\ branches \in SUBSET Nat
    /\ runs \in Nat /\ marker \in BOOLEAN /\ limited \in BOOLEAN
    /\ plan \in Nat /\ debugged \in Nat

(* Consolidation learns from, and records as green, only a patch of the
   current plan, written after the red phase of that plan and clean for
   preflight.  It passed the verifier with no critical finding standing, or
   a speculative branch won; then the state still holds the patch, and
   possibly the findings, of the attempt the branch replaces. *)
OnlyVerifiedPatchesConsolidate ==
    node = "memory_consolidation" =>
        /\ verdict.result = "PASS" /\ verdict.plan = plan
        /\ diff = plan /\ evidence = plan /\ violations = {}
        /\ findings = {} \/ verdict.won

(* What a replan or a rerun must forget is forgotten: no diff, red-phase
   evidence, debug session or verdict of an earlier plan is seen by a node
   that works on a later one. *)
NoCrossPlanLeak ==
    node \notin Terminal \cup {"bootstrap"} =>
        {diff, evidence, debug, verdict.plan} \subseteq {None, plan}

(* The circuit breakers hold together: no path through the retries of the
   three loops (test oracle, empty diffs, corrections) and the replans goes
   past its limit; only a verifier that raises on the last attempt counts
   one attempt more, and that session is handed over. *)
CountersBounded ==
    /\ correction.attempt <= MaxCycles + 1
    /\ correction.attempt = MaxCycles + 1 =>
           node \in {"hitl_escalation", "bootstrap"} \cup Terminal
    /\ emptyRetries <= MaxEmpty /\ (node = "actor" => emptyRetries < MaxEmpty)
    /\ tddAttempts <= MaxTdd /\ (node = "tdd_gate" => tddAttempts < MaxTdd)
    /\ replanCount <= MaxReplan /\ (node = "replan" => replanCount < MaxReplan)

(* The debugger runs at most once per plan: whatever the actor does with the
   observations, the next verification counts a later attempt. *)
DebuggerOncePerPlan ==
    node = "intelligent_debugger" => debugged # plan

(* speculative_branch deletes, by force, the branch correction_state names,
   and "main" if it names none: by then it always names one of the session. *)
MainBranchIsKept ==
    node = "speculative_branch" => correction.branch \in branches

(* If the profile of a session has the check "blast_radius", a task whose blast
   map is over the file limit is never verified, not even where the check is not
   required: preflight sends every attempt back until the session is handed
   over.  (Of the six modules only backend-api has that check.) *)
BlastLimitNeverVerified ==
    limited /\ blast.over =>
        node \notin {"all_critics", "verifier", "intelligent_debugger",
                     "speculative_branch", "replan", "memory_consolidation"}

(* The guard "outcome" of the actor never fires, whatever problems persist, if
   each has a rule, code or message: the verifier stores a signature only past a
   clean preflight and a review without critical findings.  So a signature that
   a replan or a rerun forgot to reset cannot end the new plan either. *)
OutcomeNeverStagnates == correction.pattern # "outcome"

(* Under the default weights and limits the confidence of a second failed
   attempt stays above the threshold only if both test phases passed:
   speculative branches answer a visual breakage, never a failing test.  That is
   what the graph does and the contrary of what its sources say: that the node
   forks when the actor fails a second time (speculative_branch.py:4), and that
   FAIL and attempt >= 2 lead to speculative_branch (edges.py:188, test_edges.py:
   546, which puts a confidence of 1.0 in the state and so never meets the
   threshold that edges.py:224 compares first). *)
SpeculationOnlyAfterGreenTests ==
    node = "speculative_branch" => verdict.phase1 /\ verdict.phase2

Stage ==
    [bootstrap |-> 9, mode_router |-> 8, scout |-> 7, value_node |-> 6,
     tdd_gate |-> 5, actor |-> 4, preflight_node |-> 4, all_critics |-> 4,
     verifier |-> 4, intelligent_debugger |-> 4, speculative_branch |-> 3,
     replan |-> 2, memory_consolidation |-> 2, hitl_escalation |-> 2,
     escalated |-> 1, crashed |-> 1, END |-> 0]

Hop ==
    [n \in Nodes \cup Terminal |->
        IF n = "preflight_node" THEN 4
        ELSE IF n = "all_critics" THEN 3
        ELSE IF n = "verifier" THEN 2
        ELSE IF n = "intelligent_debugger" THEN 1
        ELSE 0]

Descent ==
    \/ runs' > runs
    \/ runs' = runs /\ plan' > plan
    \/ /\ runs' = runs /\ plan' = plan
       /\ \/ Stage[node'] < Stage[node]
          \/ /\ Stage[node'] = Stage[node]
             /\ \/ tddAttempts' > tddAttempts
                \/ /\ tddAttempts' = tddAttempts
                   /\ \/ correction'.attempt > correction.attempt
                      \/ /\ correction'.attempt = correction.attempt
                         /\ \/ emptyRetries' > emptyRetries
                            \/ /\ emptyRetries' = emptyRetries
                               /\ Hop[node'] < Hop[node]

(* Every step of the graph makes progress in one lexicographic order of run,
   plan, stage and counters: no cycle of the graph is free. *)
EveryStepDescends == [][Descent]_vars

(* Every session that starts comes to an end: consolidated, handed over to a
   human, or crashed. *)
SessionEnds == node = "bootstrap" ~> node \in Terminal

-----------------------------------------------------------------------------
(* The contract of a session *)

Activity ==
    [bootstrap |-> "starting",
     mode_router |-> "planning", scout |-> "planning",
     value_node |-> "planning", tdd_gate |-> "planning",
     actor |-> "coding",
     preflight_node |-> "checking", all_critics |-> "checking",
     verifier |-> "checking", intelligent_debugger |-> "checking",
     speculative_branch |-> "checking", replan |-> "checking",
     memory_consolidation |-> "keeping", hitl_escalation |-> "handover",
     escalated |-> "ended", crashed |-> "ended", END |-> "ended"]

Contract == INSTANCE SessionContract WITH
    activity <- Activity[node],
    red <- evidence # None,
    patch <- diff # None,
    green <- verdict.result = "PASS",
    replans <- replanCount

(* The graph does what a session promises: in each plan the red phase comes
   before the actor, a patch before its checks and a PASS before consolidation,
   a new plan or a rerun starts from nothing, and replans are limited. *)
ImplementsContract == Contract!Spec

-----------------------------------------------------------------------------
(* The graph on which AgentLedger keeps the books *)

Agents == INSTANCE AgentGraph

AgentNode ==
    [bootstrap |-> "value_node", mode_router |-> "value_node",
     scout |-> "value_node", value_node |-> "value_node",
     tdd_gate |-> "tdd_gate", actor |-> "actor", preflight_node |-> "actor",
     all_critics |-> "all_critics", verifier |-> "verifier",
     intelligent_debugger |-> "intelligent_debugger",
     speculative_branch |-> "speculative_branch", replan |-> "replan",
     memory_consolidation |-> "agents_md", hitl_escalation |-> "END",
     escalated |-> "END", crashed |-> "crashed", END |-> "END"]

(* A node that returns before its call: a gate that is skipped, an actor that
   stagnates, a verifier that fails before its diagnosis. *)
NotAsked ==
    \/ node = "tdd_gate" /\ skipTdd
    \/ node = "actor" /\ Stagnation # "none"
    \/ node = "verifier" /\ ~verdict'.phase1

AgentEdge(here, there) ==
    \/ there = here \/ there = "crashed"
    \/ IF NotAsked
       THEN there \in Agents!SilentSuccessors[here]
       ELSE there \in IF here = "agents_md" THEN Agents!Successors["arch_rules"]
                      ELSE Agents!Successors[here]

(* What AgentLedger assumes of the graph: between two calls of the agent the
   session takes an edge of AgentGraph, one that needs no call if there was
   none, and after a failed verification it goes on below the critical budget
   only.  So the books balance on every path that the edges allow. *)
FollowsAgentGraph ==
    [][ node \notin Terminal =>
          /\ AgentEdge(AgentNode[node], AgentNode[node'])
          /\ node = "verifier" /\ node' \notin {"memory_consolidation", "hitl_escalation",
                                          "crashed"}
               => cost' < Critical ]_vars

-----------------------------------------------------------------------------
(* The graph on which GitWorkspace runs the git commands *)

GitNode ==
    [n \in Nodes \cup Terminal |->
        IF n \in {"actor", "intelligent_debugger"} THEN "actor"
        ELSE IF n \in {"preflight_node", "all_critics", "verifier"} THEN "checks"
        ELSE IF n \in {"speculative_branch", "replan"} THEN "speculate"
        ELSE IF n = "memory_consolidation" THEN "consolidate"
        ELSE IF n = "hitl_escalation" THEN "escalate"
        ELSE IF n = "tdd_gate" THEN "tdd_gate"
        ELSE "out"]

InRepository == GitNode[node] # "out"

Git == INSTANCE GitGraph WITH
    at <- GitNode[node],
    attempt <- IF InRepository THEN correction.attempt ELSE 0,
    named <- InRepository /\ correction.branch # NoBranch,
    replans <- IF InRepository THEN replanCount ELSE 0

(* The graph reaches the nodes that work on the repository only with the attempts,
   the branch and the plans with which GitWorkspace lets them run. *)
FollowsGitGraph == Git!Spec

-----------------------------------------------------------------------------
(* Claims of the sources that the code does not keep *)

(* edges.py: an actor without a diff loops back to the actor directly; and
   actor.py: its guard checks that the branch exists and creates it fresh if it
   is missing.  The actor of a retry or of a new plan gets its branch. *)
ActorGetsBranch ==
    node = "actor" /\ Stagnation = "none" => BranchReady
=============================================================================
