------------------------- MODULE SpeculativeBranch --------------------------
(***************************************************************************)
(* The speculative_branch node: strategies are evaluated concurrently,     *)
(* each on a git branch and in a worktree of its own; then failed branches *)
(* are deleted and the best one that passed is checked out.                *)
(*                                                                         *)
(* The node runs once per round; what a round leaves in the repository is  *)
(* there in the next one, after a replan or in a rerun of the task.        *)
(* Evaluations are coroutines (pc); git runs in threads that a cancelled   *)
(* coroutine no longer waits for, and that go on all the same (creator,    *)
(* and pc = "orphan").  Every git command may fail; one that does changes  *)
(* nothing.  A strategy stands for the branch of its name.                 *)
(***************************************************************************)
EXTENDS Integers

CONSTANTS
    Strategies,     \* strategy ids that planners give
    Attempt,        \* the branch of the actor's last attempt
    Parallel,       \* most strategies in a round (max_parallel_branches)
    MaxRounds       \* bound: times that the node runs

ASSUME StrategiesAssumption == Strategies # {} /\ Attempt \notin Strategies
ASSUME BoundsAssumption == Parallel \in Nat \ {0} /\ MaxRounds \in Nat

VARIABLES
    round,      \* number of the round
    phase,      \* progress of the node
    head,       \* branch checked out in the repository
    base,       \* round whose commit a branch was made from, 0: no such branch
    leaked,     \* branches checked out in worktrees of earlier rounds
    prunable,   \* the same for worktrees whose directory is gone
    cands,      \* to_evaluate: strategies by descending score
    pc,         \* progress of each evaluation
    creator,    \* progress of the thread that creates its worktree
    found,      \* that thread's branch_exists
    registered, \* git knows the worktree
    dir,        \* its directory exists
    patch,      \* the actor's diff: none, in the worktree, or lost with it
    verdict,    \* what the evaluation returns
    winner,     \* the evaluation that won, 0: none
    doomed,     \* branches still to be deleted
    undeleted   \* history: free branches whose deletion failed in this round

repo == <<head, base, leaked, prunable>>
evals == <<pc, creator, found, registered, dir, patch, verdict>>
choice == <<winner, doomed, undeleted>>
vars == <<round, phase, repo, cands, evals, choice>>

Evals == 1..Parallel
Over == {"idle", "won", "failed", "raised", "broken", "cancelled"}
Fresh(flags) == flags = [i \in Evals |-> FALSE]

(* strategies_to_try, cut off at Parallel; the planner may have given fewer, or
   none but that of the attempt, which is exhausted. *)
Orders == UNION {[1..n -> Strategies] : n \in 0..Parallel}

-----------------------------------------------------------------------------

InWorktree(b) ==
    \/ b \in leaked \cup prunable
    \/ \E i \in Evals : registered[i] /\ cands[i] = b

CheckedOut(b) == b = head \/ InWorktree(b)

Init ==
    /\ round = 0 /\ phase = "idle" /\ head = Attempt
    /\ base = [b \in Strategies |-> 0] /\ leaked = {} /\ prunable = {}
    /\ cands = <<>>
    /\ pc = [i \in Evals |-> "ended"]
    /\ creator = [i \in Evals |-> "done"]
    /\ Fresh(found) /\ Fresh(registered) /\ Fresh(dir)
    /\ patch = [i \in Evals |-> "none"]
    /\ verdict = [i \in Evals |-> "none"]
    /\ winner = 0 /\ doomed = {} /\ undeleted = {}

(* Worktrees that git still knows when a round is over. *)
Left(gone) == {cands[i] : i \in {j \in Evals : registered[j] /\ dir[j] = ~gone}}

Quiet == \A i \in Evals : pc[i] = "ended" /\ creator[i] \in {"done", "failed"}

(* A new plan, or a new session of the task, reaches the node: the actor has
   checked out the branch of its attempt.  The changes in the tree are stashed
   and each strategy gets a temporary directory.  Nothing is exhausted yet:
   bootstrap and replan have emptied the list.  Without a strategy to try the
   node returns a verdict that fails. *)
Fork ==
    /\ phase \in Over /\ Quiet
    /\ round < MaxRounds /\ round' = round + 1
    /\ cands' \in Orders
    /\ phase' = IF cands' = <<>> THEN "failed" ELSE "evaluating"
    /\ head' = Attempt
    /\ leaked' = leaked \cup Left(FALSE)
    /\ prunable' = prunable \cup Left(TRUE)
    /\ dir' = [i \in Evals |-> i \in DOMAIN cands']
    /\ pc' = [i \in Evals |-> IF dir'[i] THEN "creating" ELSE "ended"]
    /\ creator' = [i \in Evals |-> IF dir'[i] THEN "check" ELSE "done"]
    /\ Fresh(found') /\ Fresh(registered')
    /\ patch' = [i \in Evals |-> "none"]
    /\ verdict' = [i \in Evals |-> "none"]
    /\ winner' = 0 /\ doomed' = {} /\ undeleted' = {}
    /\ UNCHANGED base

-----------------------------------------------------------------------------
(* create_worktree, in a thread *)

CreatorChecks(i) ==
    /\ creator[i] = "check"
    /\ creator' = [creator EXCEPT ![i] = "add"]
    /\ found' = [found EXCEPT ![i] = base[cands[i]] # 0]
    /\ dir' = [dir EXCEPT ![i] = TRUE]
    /\ UNCHANGED <<round, phase, repo, cands, pc, registered, patch, verdict,
                   choice>>

(* git worktree add refuses a branch that is checked out somewhere, and with
   -b one that exists. *)
CanAdd(i) ==
    LET b == cands[i] IN
    IF found[i] THEN base[b] # 0 /\ ~CheckedOut(b) ELSE base[b] = 0

CreatorAdds(i) ==
    /\ creator[i] = "add"
    /\ CanAdd(i)
    /\ creator' = [creator EXCEPT ![i] = "done"]
    /\ base' = IF found[i] THEN base ELSE [base EXCEPT ![cands[i]] = round]
    /\ registered' = [registered EXCEPT ![i] = TRUE]
    /\ dir' = [dir EXCEPT ![i] = TRUE]
    /\ UNCHANGED <<round, phase, head, leaked, prunable, cands, pc, found,
                   patch, verdict, choice>>

(* A git command fails or takes too long, or the thread was cancelled before
   it started. *)
CreatorFails(i) ==
    /\ creator[i] \in {"check", "add"}
    /\ creator' = [creator EXCEPT ![i] = "failed"]
    /\ UNCHANGED <<round, phase, repo, cands, pc, found, registered, dir,
                   patch, verdict, choice>>

-----------------------------------------------------------------------------
(* _evaluate_branch *)

CreateReturns(i) ==
    /\ pc[i] = "creating" /\ creator[i] = "done"
    /\ pc' = [pc EXCEPT ![i] = "running"]
    /\ UNCHANGED <<round, phase, repo, cands, creator, found, registered, dir,
                   patch, verdict, choice>>

CreateWaits(i) == FALSE     \* mutation
CreateRaises(i) ==
    /\ pc[i] = "creating" /\ creator[i] = "failed"
    /\ pc' = [pc EXCEPT ![i] = "removing"]
    /\ UNCHANGED <<round, phase, repo, cands, creator, found, registered, dir,
                   patch, verdict, choice>>

(* The sub-graph: actor, preflight, critics and verifier on the worktree.  Its
   edges are direct, so that the verifier runs without a diff too.  An
   exception or a failed preflight leaves no verdict. *)
RunSubgraph(i) ==
    /\ pc[i] = "running"
    /\ \E p \in {"none", "applied"}, v \in {"PASS", "FAIL", "none"} :
          /\ patch' = [patch EXCEPT ![i] = p]
          /\ verdict' = [verdict EXCEPT ![i] = v]
    /\ pc' = [pc EXCEPT ![i] = "removing"]
    /\ UNCHANGED <<round, phase, repo, cands, creator, found, registered, dir,
                   choice>>

Drop(i) ==
    /\ dir' = [dir EXCEPT ![i] = FALSE]
    /\ patch' = [patch EXCEPT ![i] = IF @ = "applied" THEN "lost" ELSE @]

(* finally: git worktree remove --force, and rmtree whether or not it failed. *)
RemoveWorktree(i) ==
    /\ pc[i] = "removing"
    /\ pc' = [pc EXCEPT ![i] = "ended"]
    /\ Drop(i)
    /\ \/ registered' = [registered EXCEPT ![i] = FALSE]
       \/ UNCHANGED registered
    /\ UNCHANGED <<round, phase, repo, cands, creator, found, verdict, choice>>

(* The same in a thread whose coroutine was cancelled: no rmtree. *)
OrphanRemoves(i) ==
    /\ pc[i] = "orphan"
    /\ pc' = [pc EXCEPT ![i] = "ended"]
    /\ \/ /\ registered[i]
          /\ registered' = [registered EXCEPT ![i] = FALSE]
          /\ Drop(i)
       \/ UNCHANGED <<registered, dir, patch>>
    /\ UNCHANGED <<round, phase, repo, cands, creator, found, verdict, choice>>

-----------------------------------------------------------------------------
(* The node *)

Passed(i) == verdict[i] = "PASS"
AnyPass(i) == Passed(i)     \* mutation
FirstPass(i) == Passed(i) /\ \A j \in 1..(i - 1) : ~Passed(j)

(* All results are there: the first that passed wins, those before it are to
   be deleted; those after it are not looked at. *)
Choose ==
    /\ phase = "evaluating"
    /\ \A i \in Evals : pc[i] = "ended"
    /\ \/ \E i \in Evals :
             /\ FirstPass(i)
             /\ winner' = i /\ doomed' = {cands[j] : j \in 1..(i - 1)}
       \/ /\ \A i \in Evals : ~Passed(i)
          /\ winner' = 0 /\ doomed' = {cands[j] : j \in DOMAIN cands}
    /\ phase' = "pruning"
    /\ UNCHANGED <<round, repo, cands, evals, undeleted>>

Unpruned == UNCHANGED <<prunable, registered>>      \* mutation
Pruned ==
    /\ prunable' = {}
    /\ registered' = [i \in Evals |-> registered[i] /\ dir[i]]

Prune ==
    /\ phase = "pruning"
    /\ Pruned
    /\ phase' = "deleting"
    /\ UNCHANGED <<round, head, base, leaked, cands, pc, creator, found, dir,
                   patch, verdict, choice>>

(* The prune is in no try. *)
PruneFails ==
    /\ phase = "pruning"
    /\ phase' = "broken"
    /\ UNCHANGED <<round, repo, cands, evals, choice>>

(* git branch -D refuses a branch that is checked out, as that of the attempt
   is, and may fail or take too long for any other; it is logged and the loop
   goes on. *)
DeleteBranch(b) ==
    /\ phase = "deleting" /\ b \in doomed
    /\ doomed' = doomed \ {b}
    /\ \/ CheckedOut(b) /\ UNCHANGED <<base, undeleted>>
       \/ /\ ~CheckedOut(b)
          /\ base' = [base EXCEPT ![b] = 0] /\ UNCHANGED undeleted
       \/ /\ ~CheckedOut(b)
          /\ undeleted' = undeleted \cup {b} /\ UNCHANGED base
    /\ UNCHANGED <<round, phase, head, leaked, prunable, cands, evals, winner>>

AllFailed ==
    /\ phase = "deleting" /\ doomed = {} /\ winner = 0
    /\ phase' = "failed"
    /\ UNCHANGED <<round, repo, cands, evals, choice>>

(* A branch that is there and that no worktree holds. *)
Free(b) == base[b] # 0 /\ ~InWorktree(b)

(* The checkout of the winner is in no try; git refuses a branch that is not
   free, and may fail with one that is. *)
CheckoutWinner ==
    /\ phase = "deleting" /\ doomed = {} /\ winner # 0
    /\ \/ /\ Free(cands[winner])
          /\ phase' = "won" /\ head' = cands[winner]
       \/ phase' = "raised" /\ UNCHANGED head
    /\ UNCHANGED <<round, base, leaked, prunable, cands, evals, choice>>

(* The session timeout cancels the node and, through gather, the evaluations. *)
AfterCancelAtOnce(label) == "cancelled"     \* mutation
AfterCancel(label) ==
    IF label = "removing" THEN "orphan"
    ELSE IF label \in {"creating", "running"} THEN "removing"
    ELSE label

Cancel ==
    /\ phase \in {"evaluating", "pruning", "deleting"}
    /\ phase' = "cancelled"
    /\ pc' = [i \in Evals |-> AfterCancel(pc[i])]
    /\ UNCHANGED <<round, repo, cands, creator, found, registered, dir, patch,
                   verdict, choice>>

Done == phase \in Over /\ Quiet /\ round = MaxRounds /\ UNCHANGED vars

CreatorStep(i) == CreatorChecks(i) \/ CreatorAdds(i) \/ CreatorFails(i)
EvalStep(i) ==
    \/ CreateReturns(i) \/ CreateRaises(i) \/ RunSubgraph(i)
    \/ RemoveWorktree(i) \/ OrphanRemoves(i)
NodeStep ==
    \/ Choose \/ Prune \/ PruneFails \/ AllFailed \/ CheckoutWinner
    \/ \E b \in Strategies : DeleteBranch(b)

Next ==
    \/ Fork \/ NodeStep \/ Cancel \/ Done
    \/ \E i \in Evals : CreatorStep(i) \/ EvalStep(i)

Spec == Init /\ [][Next]_vars

(* Threads and coroutines that can go on do; git and the sub-graph return,
   each of their subprocesses and calls has a timeout. *)
FairSpec ==
    /\ Spec /\ WF_vars(NodeStep)
    /\ \A i \in Evals : WF_vars(CreatorStep(i)) /\ WF_vars(EvalStep(i))

-----------------------------------------------------------------------------
(* Properties *)

Labels == {"creating", "running", "removing", "orphan", "ended"}

(* The node, its evaluations and the repository are in one of their states. *)
TypeOK ==
    /\ round \in 0..MaxRounds
    /\ phase \in Over \cup {"evaluating", "pruning", "deleting"}
    /\ head \in Strategies \cup {Attempt}
    /\ base \in [Strategies -> 0..MaxRounds]
    /\ leaked \subseteq Strategies /\ prunable \subseteq Strategies
    /\ cands \in Orders
    /\ pc \in [Evals -> Labels]
    /\ creator \in [Evals -> {"check", "add", "done", "failed"}]
    /\ found \in [Evals -> BOOLEAN] /\ registered \in [Evals -> BOOLEAN]
    /\ dir \in [Evals -> BOOLEAN]
    /\ patch \in [Evals -> {"none", "applied", "lost"}]
    /\ verdict \in [Evals -> {"PASS", "FAIL", "none"}]
    /\ winner \in 0..Parallel
    /\ doomed \subseteq Strategies /\ undeleted \subseteq Strategies

Distinct == \A i, j \in DOMAIN cands : cands[i] = cands[j] => i = j

(* speculative_branch, lines 147-163: if the planner's ids are distinct, the
   clean-up never deletes the winner and leaves it free to be checked out,
   whatever earlier rounds and removals that failed have left behind. *)
WinnerCanBeCheckedOut ==
    phase = "deleting" /\ doomed = {} /\ winner # 0 /\ Distinct =>
        Free(cands[winner])

(* The best strategy that passed wins, and the repository ends on its branch. *)
BestPassWins ==
    phase = "won" =>
        /\ Passed(winner) /\ \A i \in Evals : Passed(i) => winner <= i
        /\ head = cands[winner] /\ base[head] # 0

(* When all have failed, no branch of theirs is left that could be reused with
   an old commit, but one that another session's worktree still holds and one
   that was free and whose deletion failed for a reason of git's own. *)
FailedBranchesAreDeleted ==
    phase = "failed" =>
        \A i \in DOMAIN cands :
            base[cands[i]] = 0 \/ cands[i] \in leaked \cup undeleted

(* No branch is checked out twice, by the repository and a worktree or by two
   worktrees, although threads look and add at different times. *)
NoBranchTwice ==
    \A i \in Evals : registered[i] =>
        /\ cands[i] # head /\ cands[i] \notin leaked
        /\ \A j \in Evals : registered[j] /\ cands[j] = cands[i] => j = i

(* A node that is not cancelled and whose prune succeeds leaves no worktree: the
   removal, the rmtree and the prune make up for each other. *)
WorktreesAreRemoved ==
    phase \in {"won", "failed", "raised"} => \A i \in Evals : ~registered[i]

(* The node ends, however its evaluations do. *)
NodeEnds == phase = "evaluating" ~> phase \in Over

PhaseLeft(p) ==
    IF p \in Over THEN 0
    ELSE [evaluating |-> 3, pruning |-> 2, deleting |-> 1][p]
EvalLeft(p) ==
    [creating |-> 4, running |-> 3, removing |-> 2, orphan |-> 1, ended |-> 0][p]
CreatorLeft(c) == [check |-> 2, add |-> 1, done |-> 0, failed |-> 0][c]

(* Within a round nothing goes back: no evaluation runs or removes its worktree
   twice, no thread tries again and no branch is deleted twice, cancelled or not.
   Every step takes the node, one evaluation, one thread or the list of branches
   to delete nearer to its end; only a new round starts over. *)
RoundDescends ==
    [][round' = round =>
         /\ PhaseLeft(phase') <= PhaseLeft(phase)
         /\ \A i \in Evals : /\ EvalLeft(pc'[i]) <= EvalLeft(pc[i])
                            /\ CreatorLeft(creator'[i]) <= CreatorLeft(creator[i])
         /\ phase # "evaluating" => doomed' \subseteq doomed
         /\ \/ PhaseLeft(phase') < PhaseLeft(phase)
            \/ \E i \in Evals : \/ EvalLeft(pc'[i]) < EvalLeft(pc[i])
                               \/ CreatorLeft(creator'[i]) < CreatorLeft(creator[i])
            \/ phase = "deleting" /\ doomed' # doomed]_vars

Outcome == IF phase \in Over THEN phase ELSE "running"

Contract == INSTANCE SpeculationContract WITH
    outcome <- Outcome,
    order <- cands,
    passed <- {i \in Evals : Passed(i)},
    made <- {b \in Strategies : base[b] # 0},
    held <- {b \in Strategies : InWorktree(b)},
    leaks <- leaked \cup prunable,
    kept <- undeleted

(* The node does what SpeculationContract promises: whatever its threads do in
   which order, no two worktrees have one branch, only branches of strategies
   that failed are deleted, and a round ends with the best that passed checked
   out, or free for a checkout that fails, or with none left but what git could
   not delete, and always without a worktree of its own, unless the round was
   cancelled or its prune failed. *)
ImplementsContract == Contract!Spec

-----------------------------------------------------------------------------
(* Claims of the sources that the code does not keep *)

(* The first branch to pass wins; its diff is committed.  The patch that was
   applied and verified still exists when the winner is checked out. *)
WinnerKeepsPatch == phase = "won" => patch[winner] # "lost"
=============================================================================
