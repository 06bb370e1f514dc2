------------------------------- MODULE GitGraph -------------------------------
(***************************************************************************)
(* What the repository sees of the graph: at which of the nodes that work  *)
(* on it a session is, and what its git commands depend on, the attempts   *)
(* that were counted, whether a branch is named, and the number of plans.  *)
(* SACVWorkflow decides these steps and GitWorkspace has their git         *)
(* commands; both implement this module.                                   *)
(***************************************************************************)
EXTENDS Integers

CONSTANTS
    MaxCycles,      \* max_self_correction_cycles
    MaxReplan       \* max_replan_attempts

VARIABLES
    at,         \* where the session is, "out" if there is none
    attempt,    \* attempts counted for the plan, 0 outside
    named,      \* correction_state names a branch
    replans     \* new plans of the session

correction == <<attempt, named>>
vars == <<at, correction, replans>>

Init == at = "out" /\ attempt = 0 /\ named = FALSE /\ replans = 0

(* A task with a strategy, and one without. *)
Begin == at = "out" /\ at' \in {"tdd_gate", "escalate"} /\ UNCHANGED <<correction, replans>>

(* The session ends, or dies at any node; the next one of the task starts anew. *)
Leave ==
    /\ at # "out" /\ at' = "out"
    /\ attempt' = 0 /\ named' = FALSE /\ replans' = 0

Oracle ==
    /\ at = "tdd_gate" /\ at' \in {"tdd_gate", "actor", "escalate"}
    /\ UNCHANGED <<correction, replans>>

ActorStagnates ==
    /\ at = "actor" /\ at' = "escalate"
    /\ attempt' = MaxCycles /\ UNCHANGED <<named, replans>>

(* An answer that cannot be parsed is counted and its branch not named. *)
ActorNoDiff ==
    /\ at = "actor" /\ attempt < MaxCycles
    /\ attempt' \in {attempt, attempt + 1} /\ UNCHANGED <<named, replans>>
    /\ at' \in {"actor", "escalate"}

(* Diffs are applied, all of them or not. *)
ActorPatches ==
    /\ at = "actor" /\ attempt < MaxCycles
    /\ attempt' = attempt + 1 /\ named' = TRUE /\ UNCHANGED replans
    /\ at' \in {"actor", "escalate", "checks"}

Speculates == attempt' \in 2..(MaxCycles - 1) /\ at' = "speculate"

Checks ==
    /\ at = "checks" /\ named
    /\ UNCHANGED <<correction, replans>>
    /\ at' \in {"actor", "escalate", "consolidate"} \/ Speculates

(* An exception of the verifier counts as an attempt. *)
VerifierRaises ==
    /\ at = "checks" /\ named
    /\ attempt' = attempt + 1 /\ UNCHANGED <<named, replans>>
    /\ at' = "escalate" \/ Speculates

SpeculativeBranch ==
    /\ at = "speculate"
    /\ \/ /\ at' = "consolidate" /\ UNCHANGED <<correction, replans>>
       \/ /\ replans < MaxReplan /\ replans' = replans + 1
          /\ attempt' = 0 /\ named' = FALSE
          /\ at' \in {"tdd_gate", "escalate"}
       \/ /\ replans = MaxReplan /\ at' = "escalate"
          /\ UNCHANGED <<correction, replans>>

Next ==
    \/ Begin \/ Leave \/ Oracle \/ ActorStagnates \/ ActorNoDiff \/ ActorPatches
    \/ Checks \/ VerifierRaises \/ SpeculativeBranch

Spec == Init /\ [][Next]_vars
===============================================================================
