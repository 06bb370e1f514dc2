------------------------- MODULE SpeculationContract -------------------------
(***************************************************************************)
(* What a round of speculation promises, without its threads and its git   *)
(* commands: strategies are tried in worktrees that no two share, the best *)
(* one that passed wins and is free to be checked out, the branches of     *)
(* those that failed go unless git fails to delete them, and only a round  *)
(* that was cancelled or could not be cleaned up leaves worktrees behind.  *)
(* SpeculativeBranch implements it.                                        *)
(***************************************************************************)
EXTENDS Integers

CONSTANTS Strategies, Attempt, Parallel

VARIABLES
    outcome,    \* of this round
    order,      \* its strategies, the best first
    passed,     \* places in the order of those that passed
    head,       \* branch that is checked out in the repository
    made,       \* branches of strategies that exist
    held,       \* branches that are checked out in worktrees
    leaks,      \* those of them that earlier rounds left
    kept        \* free branches that this round failed to delete

vars == <<outcome, order, passed, head, made, held, leaks, kept>>

Orders == UNION {[1..n -> Strategies] : n \in 0..Parallel}
Places == DOMAIN order
Tried == {order[i] : i \in Places}
Distinct == \A i, j \in Places : order[i] = order[j] => i = j
Open == outcome \in {"running", "cancelled"}

Init ==
    /\ outcome = "idle" /\ order = <<>> /\ passed = {}
    /\ head = Attempt /\ made = {} /\ held = {} /\ leaks = {} /\ kept = {}

(* On the branch of the actor's last attempt; without a strategy to try the
   round has failed. *)
Begin ==
    /\ outcome # "running"
    /\ order' \in Orders /\ passed' = {}
    /\ outcome' = IF order' = <<>> THEN "failed" ELSE "running"
    /\ head' = Attempt /\ leaks' = held /\ kept' = {}
    /\ UNCHANGED <<made, held>>

(* A worktree for a branch that is checked out nowhere else; a branch that an
   earlier round left is taken as it is. *)
OpenWorktree(b) ==
    /\ Open /\ b \in Tried \ (held \cup {head})
    /\ made' = made \cup {b} /\ held' = held \cup {b}
    /\ UNCHANGED <<outcome, order, passed, head, leaks, kept>>

Pass(i) ==
    /\ outcome = "running" /\ order[i] \in held
    /\ passed' = passed \cup {i}
    /\ UNCHANGED <<outcome, order, head, made, held, leaks, kept>>

CloseWorktrees ==
    /\ Open
    /\ held' \subseteq held /\ leaks' = leaks \cap held'
    /\ UNCHANGED <<outcome, order, passed, head, made, kept>>

(* Only of a strategy that did not pass, and of none that is checked out. *)
DeleteBranch(i) ==
    /\ outcome = "running" /\ i \notin passed
    /\ order[i] \notin held \cup {head}
    /\ made' = made \ {order[i]}
    /\ UNCHANGED <<outcome, order, passed, head, held, leaks, kept>>

(* Git fails to. *)
KeepBranch(i) ==
    /\ outcome = "running" /\ i \notin passed
    /\ order[i] \notin held \cup {head}
    /\ kept' = kept \cup {order[i]}
    /\ UNCHANGED <<outcome, order, passed, head, made, held, leaks>>

Ends(how) ==
    /\ outcome = "running" /\ held \subseteq leaks
    /\ outcome' = how
    /\ UNCHANGED <<order, passed, made, held, leaks, kept>>

Best(i) == i \in passed /\ \A j \in passed : i <= j
Free == made \ held

Win ==
    /\ Ends("won")
    /\ \E i \in Places : Best(i) /\ head' = order[i] /\ head' \in Free

Fail ==
    /\ Ends("failed") /\ passed = {}
    /\ Tried \cap made \subseteq held \cup kept
    /\ UNCHANGED head

(* The checkout of the best fails, although its branch is free; with two equal
   strategies it may have gone with the loser's. *)
Raise ==
    /\ Ends("raised")
    /\ \E i \in Places : Best(i) /\ (Distinct => order[i] \in Free)
    /\ UNCHANGED head

(* The worktrees that are gone cannot be forgotten. *)
Break ==
    /\ outcome = "running" /\ outcome' = "broken"
    /\ UNCHANGED <<order, passed, head, made, held, leaks, kept>>

Cancel ==
    /\ outcome = "running" /\ outcome' = "cancelled"
    /\ UNCHANGED <<order, passed, head, made, held, leaks, kept>>

Next ==
    \/ Begin \/ CloseWorktrees \/ Win \/ Fail \/ Raise \/ Break \/ Cancel
    \/ \E b \in Strategies : OpenWorktree(b)
    \/ \E i \in Places : Pass(i) \/ DeleteBranch(i) \/ KeepBranch(i)

Spec == Init /\ [][Next]_vars
==============================================================================
