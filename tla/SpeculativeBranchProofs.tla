------------------------ MODULE SpeculativeBranchProofs ------------------------
(***************************************************************************)
(* Proofs about SpeculativeBranch, for any strategies, any number of them  *)
(* in a round and any number of rounds: the types, that worktrees are      *)
(* separate and go away, that the best strategy that passed wins and is    *)
(* free to be checked out, the contract of a round, and that each round    *)
(* goes forward.                                                           *)
(***************************************************************************)
EXTENDS SpeculativeBranch, TLAPS

USE StrategiesAssumption, BoundsAssumption

(* The strategies of a round are evaluated in the first places. *)
LEMMA OrderTypes ==
  ASSUME NEW o \in Orders
  PROVE  /\ DOMAIN o \subseteq Evals
         /\ \A i \in DOMAIN o : o[i] \in Strategies /\ 1..(i - 1) \subseteq DOMAIN o
<1>1. PICK n \in 0..Parallel : o \in [1..n -> Strategies]
  BY DEF Orders
<1>2. n \in Nat /\ Parallel \in Nat /\ n <= Parallel
  BY <1>1
<1>3. QED
  BY <1>1, <1>2 DEF Evals

LEMMA NoOrder == <<>> \in Orders /\ DOMAIN <<>> = {}
<1>1. <<>> \in [1..0 -> Strategies] /\ 0 \in 0..Parallel
  OBVIOUS
<1>2. QED
  BY <1>1 DEF Orders

(* Places without a strategy stay empty, and none of them wins. *)
PlacesInv ==
    /\ \A i \in Evals : i \notin DOMAIN cands =>
          /\ pc[i] = "ended" /\ creator[i] = "done"
          /\ ~registered[i] /\ verdict[i] = "none"
    /\ winner # 0 => winner \in DOMAIN cands

(* Outside an evaluation no thread is at work, but after a cancellation; and
   only a coroutine that waits for its thread has one. *)
ThreadsInv ==
    /\ round = 0 => phase = "idle"
    /\ phase \notin {"evaluating", "cancelled"} => Quiet
    /\ phase = "evaluating" => \A i \in Evals :
          /\ pc[i] # "orphan"
          /\ pc[i] # "creating" => creator[i] \in {"done", "failed"}
    /\ \A i \in Evals : pc[i] = "creating" => phase = "evaluating"

(* A branch that a worktree holds exists, and no other worktree holds it. *)
RepoInv ==
    /\ \A i \in Evals :
          pc[i] = "running" \/ (pc[i] = "creating" /\ creator[i] = "done")
             => registered[i]
    /\ \A i \in Evals :
          registered[i] => base[cands[i]] # 0 /\ cands[i] \notin leaked
    /\ \A b \in leaked \cup prunable : base[b] # 0
    /\ phase # "won" => head = Attempt
    /\ NoBranchTwice

(* What the ended evaluations leave: no directory and, after the prune, no
   worktree; the branch of one that passed is there and free. *)
EndInv ==
    /\ phase \in {"evaluating", "pruning", "deleting"} =>
          \A i \in Evals : pc[i] = "ended" => ~dir[i]
    /\ phase \in {"deleting", "won", "failed", "raised"} =>
          \A i \in Evals : ~registered[i]
    /\ phase = "deleting" => prunable = {}
    /\ phase \in {"evaluating", "pruning"} => \A i \in Evals :
          Passed(i) => base[cands[i]] # 0 /\ cands[i] \notin leaked

(* The choice: the winner is the first that passed, and what is deleted is
   before it; without a winner every branch is deleted. *)
ChoiceInv ==
    /\ phase \in {"pruning", "deleting"} =>
          IF winner # 0
          THEN FirstPass(winner) /\ doomed \subseteq {cands[j] : j \in 1..(winner - 1)}
          ELSE \A i \in DOMAIN cands :
                  \/ cands[i] \in doomed \cup leaked \cup undeleted
                  \/ base[cands[i]] = 0
    /\ phase = "deleting" /\ winner # 0 /\ Distinct =>
          base[cands[winner]] # 0 /\ cands[winner] \notin leaked
    /\ WinnerCanBeCheckedOut /\ BestPassWins /\ FailedBranchesAreDeleted

Safe == TypeOK /\ PlacesInv /\ ThreadsInv /\ RepoInv /\ EndInv /\ ChoiceInv

(* Every step keeps the types. *)
LEMMA TypeNext ==
  ASSUME TypeOK, PlacesInv, [Next]_vars
  PROVE  TypeOK'
<1> USE DEF repo, evals, choice
<1>1. CASE Fork
  <2>1. /\ round \in 0..MaxRounds
        /\ \A i \in Evals : registered[i] => cands[i] \in Strategies
        /\ leaked \subseteq Strategies /\ prunable \subseteq Strategies
    BY OrderTypes DEF TypeOK, PlacesInv
  <2>2. /\ round < MaxRounds /\ round' = round + 1
        /\ leaked' = leaked \cup Left(FALSE)
        /\ prunable' = prunable \cup Left(TRUE)
    BY <1>1 DEF Fork
  <2>3. round' \in 0..MaxRounds
    BY ONLY <2>1, <2>2, BoundsAssumption
  <2>4. leaked' \subseteq Strategies /\ prunable' \subseteq Strategies
    BY ONLY <2>1, <2>2 DEF Left
  <2>5. /\ dir' \in [Evals -> BOOLEAN] /\ pc' \in [Evals -> Labels]
        /\ creator' \in [Evals -> {"check", "add", "done", "failed"}]
    BY <1>1 DEF Fork, Labels
  <2>6. /\ found' \in [Evals -> BOOLEAN] /\ registered' \in [Evals -> BOOLEAN]
        /\ patch' \in [Evals -> {"none", "applied", "lost"}]
        /\ verdict' \in [Evals -> {"PASS", "FAIL", "none"}]
    BY <1>1 DEF Fork, Fresh
  <2>7. /\ phase' \in {"failed", "evaluating"} /\ head' = Attempt /\ base' = base
        /\ cands' \in Orders /\ winner' = 0 /\ doomed' = {} /\ undeleted' = {}
    BY <1>1 DEF Fork
  <2>8. base \in [Strategies -> 0..MaxRounds] /\ 0 \in 0..Parallel
    BY DEF TypeOK
  <2>9. QED
    BY ONLY <2>3, <2>4, <2>5, <2>6, <2>7, <2>8 DEF TypeOK, Over
<1>2. CASE Choose
  <2>1. winner' \in 0..Parallel /\ doomed' \subseteq Strategies
    <3>1. CASE \A i \in Evals : ~Passed(i)
      BY <1>2, <3>1, OrderTypes DEF Choose, FirstPass, TypeOK
    <3>2. ASSUME NEW i \in Evals, Passed(i), winner' = i,
                 doomed' = {cands[j] : j \in 1..(i - 1)}
          PROVE  winner' \in 0..Parallel /\ doomed' \subseteq Strategies
      <4>1. i \in DOMAIN cands
        BY <3>2 DEF PlacesInv, Passed
      <4>2. QED
        BY <3>2, <4>1, OrderTypes DEF TypeOK, Evals
    <3>3. QED
      BY <1>2, <3>1, <3>2 DEF Choose, FirstPass
  <2>2. QED
    BY <1>2, <2>1 DEF Choose, TypeOK
<1>3. CASE Prune \/ PruneFails
  BY <1>3 DEF Prune, PruneFails, Pruned, TypeOK, Over
<1>4. CASE AllFailed
  BY <1>4 DEF AllFailed, TypeOK, Over
<1>5. CASE CheckoutWinner
  BY <1>5, OrderTypes DEF CheckoutWinner, TypeOK, Over, PlacesInv
<1>6. ASSUME NEW b \in Strategies, DeleteBranch(b) PROVE TypeOK'
  BY <1>6 DEF DeleteBranch, TypeOK
<1>7. CASE Cancel
  BY <1>7 DEF Cancel, AfterCancel, TypeOK, Labels, Over
<1>8. ASSUME NEW i \in Evals, CreatorChecks(i) PROVE TypeOK'
  BY <1>8 DEF CreatorChecks, TypeOK
<1>9. ASSUME NEW i \in Evals, CreatorAdds(i) PROVE TypeOK'
  BY <1>9 DEF CreatorAdds, TypeOK
<1>10. ASSUME NEW i \in Evals, CreatorFails(i) PROVE TypeOK'
  BY <1>10 DEF CreatorFails, TypeOK
<1>11. ASSUME NEW i \in Evals, CreateReturns(i) PROVE TypeOK'
  BY <1>11 DEF CreateReturns, TypeOK, Labels
<1>12. ASSUME NEW i \in Evals, CreateRaises(i) PROVE TypeOK'
  BY <1>12 DEF CreateRaises, TypeOK, Labels
<1>13. ASSUME NEW i \in Evals, RunSubgraph(i) PROVE TypeOK'
  BY <1>13 DEF RunSubgraph, TypeOK, Labels
<1>14. ASSUME NEW i \in Evals, RemoveWorktree(i) PROVE TypeOK'
  BY <1>14 DEF RemoveWorktree, Drop, TypeOK, Labels
<1>15. ASSUME NEW i \in Evals, OrphanRemoves(i) PROVE TypeOK'
  BY <1>15 DEF OrphanRemoves, Drop, TypeOK, Labels
<1>16. CASE UNCHANGED vars
  BY <1>16 DEF vars, TypeOK
<1> QED
  BY <1>1, <1>2, <1>3, <1>4, <1>5, <1>6, <1>7, <1>8, <1>9, <1>10, <1>11,
     <1>12, <1>13, <1>14, <1>15, <1>16 DEF Next, NodeStep, CreatorStep,
     EvalStep, Done

(* Every step keeps empty places empty. *)
LEMMA PlacesNext ==
  ASSUME TypeOK, PlacesInv, [Next]_vars
  PROVE  PlacesInv'
<1> USE DEF repo, evals, choice
<1>1. CASE Fork
  BY <1>1 DEF Fork, Fresh, PlacesInv
<1>2. CASE Cancel
  BY <1>2 DEF Cancel, AfterCancel, PlacesInv
<1>3. CASE NodeStep \/ UNCHANGED vars
  BY <1>3 DEF NodeStep, Choose, FirstPass, Passed, Prune, Pruned, PruneFails,
     DeleteBranch, AllFailed, CheckoutWinner, vars, PlacesInv
<1>4. ASSUME NEW i \in Evals, CreatorStep(i) \/ EvalStep(i)
      PROVE  PlacesInv'
  <2>1. i \in DOMAIN cands /\ cands' = cands
    BY <1>4 DEF CreatorStep, CreatorChecks, CreatorAdds, CreatorFails, EvalStep,
       CreateReturns, CreateRaises, RunSubgraph, RemoveWorktree, OrphanRemoves,
       PlacesInv
  <2>2. \A j \in Evals \ {i} :
          /\ pc'[j] = pc[j] /\ creator'[j] = creator[j]
          /\ registered'[j] = registered[j] /\ verdict'[j] = verdict[j]
    BY <1>4 DEF CreatorStep, CreatorChecks, CreatorAdds, CreatorFails, EvalStep,
       CreateReturns, CreateRaises, RunSubgraph, RemoveWorktree, OrphanRemoves,
       TypeOK
  <2>3. winner' = winner
    BY <1>4 DEF CreatorStep, CreatorChecks, CreatorAdds, CreatorFails, EvalStep,
       CreateReturns, CreateRaises, RunSubgraph, RemoveWorktree, OrphanRemoves
  <2>4. QED BY <2>1, <2>2, <2>3 DEF PlacesInv
<1> QED
  BY <1>1, <1>2, <1>3, <1>4 DEF Next, Done

(* Every step keeps the threads in their phases. *)
LEMMA ThreadsNext ==
  ASSUME TypeOK, ThreadsInv, [Next]_vars
  PROVE  ThreadsInv'
<1> USE DEF repo, evals, choice
<1>1. CASE Fork
  <2>0. \A i \in Evals :
          /\ dir'[i] = (i \in DOMAIN cands')
          /\ pc'[i] = IF dir'[i] THEN "creating" ELSE "ended"
          /\ creator'[i] = IF dir'[i] THEN "check" ELSE "done"
    BY <1>1 DEF Fork
  <2>1. \A i \in Evals : /\ pc'[i] # "orphan"
                         /\ pc'[i] # "creating" => creator'[i] = "done"
                         /\ i \notin DOMAIN cands' => pc'[i] = "ended"
    BY ONLY <2>0
  <2>2. \/ phase' = "failed" /\ DOMAIN cands' = {}
        \/ phase' = "evaluating"
    BY <1>1, NoOrder DEF Fork
  <2>3. round' # 0
    BY <1>1 DEF Fork, TypeOK
  <2>4. QED
    BY ONLY <2>1, <2>2, <2>3 DEF ThreadsInv, Quiet
<1>2. CASE Choose
  BY <1>2 DEF Choose, ThreadsInv, Quiet
<1>3. CASE Prune \/ PruneFails
  BY <1>3 DEF Prune, PruneFails, ThreadsInv, Quiet
<1>4. CASE AllFailed
  BY <1>4 DEF AllFailed, ThreadsInv, Quiet
<1>5. CASE CheckoutWinner
  BY <1>5 DEF CheckoutWinner, ThreadsInv, Quiet
<1>6. ASSUME NEW b \in Strategies, DeleteBranch(b) PROVE ThreadsInv'
  BY <1>6 DEF DeleteBranch, ThreadsInv, Quiet
<1>7. CASE Cancel
  BY <1>7 DEF Cancel, AfterCancel, ThreadsInv
<1>8. ASSUME NEW i \in Evals, CreatorChecks(i) PROVE ThreadsInv'
  BY <1>8 DEF CreatorChecks, ThreadsInv, Quiet
<1>9. ASSUME NEW i \in Evals, CreatorAdds(i) PROVE ThreadsInv'
  BY <1>9 DEF CreatorAdds, ThreadsInv, Quiet
<1>10. ASSUME NEW i \in Evals, CreatorFails(i) PROVE ThreadsInv'
  BY <1>10 DEF CreatorFails, ThreadsInv, Quiet
<1>11. ASSUME NEW i \in Evals, CreateReturns(i) PROVE ThreadsInv'
  BY <1>11 DEF CreateReturns, ThreadsInv
<1>12. ASSUME NEW i \in Evals, CreateRaises(i) PROVE ThreadsInv'
  BY <1>12 DEF CreateRaises, ThreadsInv
<1>13. ASSUME NEW i \in Evals, RunSubgraph(i) PROVE ThreadsInv'
  BY <1>13 DEF RunSubgraph, ThreadsInv, Quiet
<1>14. ASSUME NEW i \in Evals, RemoveWorktree(i) PROVE ThreadsInv'
  BY <1>14 DEF RemoveWorktree, ThreadsInv, Quiet
<1>15. ASSUME NEW i \in Evals, OrphanRemoves(i) PROVE ThreadsInv'
  BY <1>15 DEF OrphanRemoves, ThreadsInv, Quiet
<1>16. CASE UNCHANGED vars
  BY <1>16 DEF vars, ThreadsInv, Quiet
<1> QED
  BY <1>1, <1>2, <1>3, <1>4, <1>5, <1>6, <1>7, <1>8, <1>9, <1>10, <1>11,
     <1>12, <1>13, <1>14, <1>15, <1>16 DEF Next, NodeStep, CreatorStep,
     EvalStep, Done

(* Every step keeps worktrees apart. *)
LEMMA RepoNext ==
  ASSUME TypeOK, PlacesInv, ThreadsInv, RepoInv, [Next]_vars
  PROVE  RepoInv'
<1> USE DEF repo, evals, choice
<1>1. CASE Fork
  BY <1>1 DEF Fork, Fresh, Left, RepoInv, NoBranchTwice
<1>2. CASE Choose
  BY <1>2 DEF Choose, RepoInv, NoBranchTwice
<1>3. CASE Prune \/ PruneFails
  BY <1>3 DEF Prune, PruneFails, Pruned, ThreadsInv, Quiet, RepoInv, NoBranchTwice
<1>4. CASE AllFailed
  BY <1>4 DEF AllFailed, RepoInv, NoBranchTwice
<1>5. CASE CheckoutWinner
  <2>1. CASE phase' = "raised" /\ head' = head
    BY <1>5, <2>1 DEF CheckoutWinner, RepoInv, NoBranchTwice
  <2>2. CASE Free(cands[winner]) /\ phase' = "won" /\ head' = cands[winner]
    <3>1. \A i \in Evals : registered[i] => cands[i] # cands[winner]
      BY <2>2 DEF Free, InWorktree
    <3>2. QED
      BY <1>5, <2>2, <3>1 DEF CheckoutWinner, RepoInv, NoBranchTwice
  <2>3. QED
    BY <1>5, <2>1, <2>2 DEF CheckoutWinner
<1>6. ASSUME NEW b \in Strategies, DeleteBranch(b) PROVE RepoInv'
  <2>1. CASE base' = base
    BY <1>6, <2>1 DEF DeleteBranch, RepoInv, NoBranchTwice
  <2>2. CASE ~CheckedOut(b) /\ base' = [base EXCEPT ![b] = 0]
    <3>1. \A i \in Evals : registered[i] => cands[i] \in Strategies \ {b}
      BY <2>2, OrderTypes DEF TypeOK, PlacesInv, CheckedOut, InWorktree
    <3>2. leaked \cup prunable \subseteq Strategies \ {b}
      BY <2>2 DEF TypeOK, CheckedOut, InWorktree
    <3>3. \A c \in Strategies \ {b} : base'[c] = base[c]
      BY <2>2 DEF TypeOK
    <3>4. QED
      BY <1>6, <3>1, <3>2, <3>3 DEF DeleteBranch, RepoInv, NoBranchTwice
  <2>3. QED
    BY <1>6, <2>1, <2>2 DEF DeleteBranch
<1>7. CASE Cancel
  BY <1>7 DEF Cancel, AfterCancel, RepoInv, NoBranchTwice
<1>8. ASSUME NEW i \in Evals, CreatorChecks(i) PROVE RepoInv'
  BY <1>8 DEF CreatorChecks, RepoInv, NoBranchTwice
<1>9. ASSUME NEW i \in Evals, CreatorAdds(i) PROVE RepoInv'
  <2>1. /\ cands[i] \in Strategies /\ round \in Nat /\ round # 0 /\ phase # "won"
        /\ creator[i] = "add" /\ CanAdd(i)
    BY <1>9, OrderTypes DEF CreatorAdds, TypeOK, PlacesInv, ThreadsInv, Quiet
  <2>2. ~CheckedOut(cands[i])
    <3>1. CASE found[i]
      BY <2>1, <3>1 DEF CanAdd
    <3>2. CASE ~found[i]
      BY <2>1, <3>2 DEF CanAdd, CheckedOut, InWorktree, RepoInv
    <3>3. QED
      BY <3>1, <3>2
  <2>3. /\ base'[cands[i]] # 0
        /\ \A b \in Strategies : base[b] # 0 => base'[b] # 0
    BY <1>9, <2>1 DEF CreatorAdds, CanAdd, TypeOK
  <2>4. NoBranchTwice'
    BY <1>9, <2>2 DEF CreatorAdds, RepoInv, NoBranchTwice, CheckedOut,
       InWorktree
  <2>5. QED
    BY <1>9, <2>1, <2>2, <2>3, <2>4 DEF CreatorAdds, RepoInv, CheckedOut,
       InWorktree, TypeOK
<1>10. ASSUME NEW i \in Evals, CreatorFails(i) PROVE RepoInv'
  BY <1>10 DEF CreatorFails, RepoInv, NoBranchTwice
<1>11. ASSUME NEW i \in Evals, CreateReturns(i) PROVE RepoInv'
  BY <1>11 DEF CreateReturns, RepoInv, NoBranchTwice
<1>12. ASSUME NEW i \in Evals, CreateRaises(i) PROVE RepoInv'
  BY <1>12 DEF CreateRaises, RepoInv, NoBranchTwice
<1>13. ASSUME NEW i \in Evals, RunSubgraph(i) PROVE RepoInv'
  BY <1>13 DEF RunSubgraph, RepoInv, NoBranchTwice
<1>14. ASSUME NEW i \in Evals, RemoveWorktree(i) PROVE RepoInv'
  BY <1>14 DEF RemoveWorktree, TypeOK, RepoInv, NoBranchTwice
<1>15. ASSUME NEW i \in Evals, OrphanRemoves(i) PROVE RepoInv'
  BY <1>15 DEF OrphanRemoves, TypeOK, RepoInv, NoBranchTwice
<1>16. CASE UNCHANGED vars
  BY <1>16 DEF vars, RepoInv, NoBranchTwice
<1> QED
  BY <1>1, <1>2, <1>3, <1>4, <1>5, <1>6, <1>7, <1>8, <1>9, <1>10, <1>11,
     <1>12, <1>13, <1>14, <1>15, <1>16 DEF Next, NodeStep, CreatorStep,
     EvalStep, Done

(* Every step keeps what ended evaluations leave. *)
LEMMA EndNext ==
  ASSUME TypeOK, ThreadsInv, RepoInv, EndInv, [Next]_vars
  PROVE  EndInv'
<1> USE DEF repo, evals, choice
<1>1. CASE Fork
  BY <1>1 DEF Fork, Fresh, EndInv, Passed
<1>2. CASE Choose
  BY <1>2 DEF Choose, EndInv, Passed
<1>3. CASE Prune \/ PruneFails
  BY <1>3 DEF Prune, PruneFails, Pruned, ThreadsInv, Quiet, EndInv
<1>4. CASE AllFailed
  BY <1>4 DEF AllFailed, EndInv
<1>5. CASE CheckoutWinner
  BY <1>5 DEF CheckoutWinner, EndInv
<1>6. ASSUME NEW b \in Strategies, DeleteBranch(b) PROVE EndInv'
  BY <1>6 DEF DeleteBranch, EndInv
<1>7. CASE Cancel
  BY <1>7 DEF Cancel, EndInv
<1>8. ASSUME NEW i \in Evals, CreatorChecks(i) PROVE EndInv'
  BY <1>8 DEF CreatorChecks, ThreadsInv, Quiet, EndInv, Passed
<1>9. ASSUME NEW i \in Evals, CreatorAdds(i) PROVE EndInv'
  BY <1>9 DEF CreatorAdds, ThreadsInv, Quiet, EndInv, Passed
<1>10. ASSUME NEW i \in Evals, CreatorFails(i) PROVE EndInv'
  BY <1>10 DEF CreatorFails, EndInv, Passed
<1>11. ASSUME NEW i \in Evals, CreateReturns(i) PROVE EndInv'
  BY <1>11 DEF CreateReturns, EndInv, Passed
<1>12. ASSUME NEW i \in Evals, CreateRaises(i) PROVE EndInv'
  BY <1>12 DEF CreateRaises, EndInv, Passed
<1>13. ASSUME NEW i \in Evals, RunSubgraph(i) PROVE EndInv'
  BY <1>13 DEF RunSubgraph, RepoInv, EndInv, Passed
<1>14. ASSUME NEW i \in Evals, RemoveWorktree(i) PROVE EndInv'
  BY <1>14 DEF RemoveWorktree, Drop, TypeOK, EndInv, Passed
<1>15. ASSUME NEW i \in Evals, OrphanRemoves(i) PROVE EndInv'
  BY <1>15 DEF OrphanRemoves, ThreadsInv, Quiet, EndInv
<1>16. CASE UNCHANGED vars
  BY <1>16 DEF vars, EndInv, Passed
<1> QED
  BY <1>1, <1>2, <1>3, <1>4, <1>5, <1>6, <1>7, <1>8, <1>9, <1>10, <1>11,
     <1>12, <1>13, <1>14, <1>15, <1>16 DEF Next, NodeStep, CreatorStep,
     EvalStep, Done

(* Every step keeps the choice. *)
LEMMA ChoiceNext ==
  ASSUME Safe, [Next]_vars
  PROVE  ChoiceInv'
<1> USE DEF repo, evals, choice
<1>0. /\ \A i \in DOMAIN cands : i \in Evals /\ cands[i] \in Strategies
      /\ \A i \in Evals : Passed(i) => i \in DOMAIN cands /\ 1..(i - 1) \subseteq DOMAIN cands
  BY OrderTypes DEF Safe, TypeOK, PlacesInv, Passed
<1>1. CASE Fork
  BY <1>1, NoOrder DEF Fork, ChoiceInv, WinnerCanBeCheckedOut, BestPassWins,
     FailedBranchesAreDeleted
<1>2. CASE Choose
  BY <1>0, <1>2 DEF Choose, ChoiceInv, Passed, FirstPass, WinnerCanBeCheckedOut,
     BestPassWins, FailedBranchesAreDeleted, Evals
<1>3. CASE Prune
  <2>1. /\ phase = "pruning" /\ phase' = "deleting" /\ prunable' = {}
        /\ UNCHANGED <<base, leaked, cands, verdict, winner, doomed, undeleted>>
    BY <1>3 DEF Prune, Pruned
  <2>2. \A i \in Evals : ~registered'[i]
    BY <1>3 DEF Prune, Pruned, Safe, ThreadsInv, Quiet, EndInv
  <2>3. winner # 0 =>
          /\ FirstPass(winner) /\ doomed \subseteq {cands[j] : j \in 1..(winner - 1)}
          /\ base[cands[winner]] # 0 /\ cands[winner] \notin leaked
    BY <2>1 DEF Safe, TypeOK, EndInv, ChoiceInv, FirstPass, Evals
  <2>4. winner = 0 => \A i \in DOMAIN cands :
          cands[i] \in doomed \cup leaked \cup undeleted \/ base[cands[i]] = 0
    BY <2>1 DEF Safe, ChoiceInv
  <2>5. winner # 0 => Free(cands[winner])'
    BY <2>1, <2>2, <2>3 DEF Free, InWorktree
  <2>6. QED
    BY <2>1, <2>3, <2>4, <2>5 DEF ChoiceInv, FirstPass, Passed,
       WinnerCanBeCheckedOut, BestPassWins, FailedBranchesAreDeleted
<1>20. CASE PruneFails
  BY <1>20 DEF PruneFails, ChoiceInv, WinnerCanBeCheckedOut, BestPassWins,
     FailedBranchesAreDeleted
<1>4. CASE AllFailed
  BY <1>4 DEF AllFailed, Safe, ChoiceInv, WinnerCanBeCheckedOut, BestPassWins,
     FailedBranchesAreDeleted
<1>5. CASE CheckoutWinner
  <2>1. /\ phase' \in {"won", "raised"} /\ winner' = winner /\ verdict' = verdict
        /\ phase' = "won" =>
              head' = cands[winner] /\ cands' = cands /\ base'[head'] # 0
    BY <1>5 DEF CheckoutWinner, Free
  <2>2. /\ winner \in Nat \ {0} /\ Passed(winner)
        /\ \A j \in 1..(winner - 1) : ~Passed(j)
    BY <1>5 DEF CheckoutWinner, Safe, TypeOK, ChoiceInv, FirstPass
  <2>3. \A i \in Evals : Passed(i) => winner <= i
    BY <2>2 DEF Evals
  <2>4. QED
    BY <2>1, <2>2, <2>3 DEF ChoiceInv, Passed, WinnerCanBeCheckedOut,
       BestPassWins, FailedBranchesAreDeleted
<1>6. ASSUME NEW b \in Strategies, DeleteBranch(b) PROVE ChoiceInv'
  <2>1. /\ phase = "deleting" /\ phase' = "deleting" /\ doomed' = doomed \ {b}
        /\ b \in doomed
        /\ UNCHANGED <<cands, winner, verdict, leaked, prunable, registered>>
        /\ undeleted \subseteq undeleted'
    BY <1>6 DEF DeleteBranch
  <2>2. FirstPass(winner)' <=> FirstPass(winner)
    BY <2>1 DEF FirstPass, Passed
  <2>3. /\ base \in [Strategies -> 0..MaxRounds]
        /\ \A i \in Evals : ~registered[i]
        /\ prunable = {} /\ head = Attempt /\ b # head
    BY <2>1, StrategiesAssumption DEF Safe, TypeOK, EndInv, RepoInv
  <2>4. b \in leaked \/ b \in undeleted' \/ base'[b] = 0
    BY <1>6, <2>3 DEF DeleteBranch, CheckedOut, InWorktree
  <2>5. \A c \in Strategies \ {b} : base'[c] = base[c]
    BY <1>6, <2>3 DEF DeleteBranch
  <2>6. ASSUME winner = 0
        PROVE  \A i \in DOMAIN cands :
                  \/ cands[i] \in doomed' \cup leaked \cup undeleted'
                  \/ base'[cands[i]] = 0
    BY <1>0, <2>1, <2>4, <2>5, <2>6 DEF Safe, ChoiceInv
  <2>7. ASSUME winner # 0, Distinct
        PROVE  base'[cands[winner]] # 0 /\ cands[winner] \notin leaked
    <3>1. /\ winner \in DOMAIN cands /\ 1..(winner - 1) \subseteq DOMAIN cands
          /\ winner \in Nat /\ doomed \subseteq {cands[j] : j \in 1..(winner - 1)}
      BY <1>0, <2>1, <2>7 DEF Safe, TypeOK, PlacesInv, ChoiceInv, FirstPass, Evals
    <3>2. cands[winner] # b
      BY <2>1, <2>7, <3>1 DEF Distinct
    <3>3. QED
      BY <1>0, <2>1, <2>5, <2>7, <3>1, <3>2 DEF Safe, ChoiceInv
  <2>8. winner # 0 /\ Distinct => Free(cands[winner])'
    BY <2>1, <2>3, <2>7 DEF Free, InWorktree
  <2>9. IF winner' # 0
        THEN FirstPass(winner)' /\ doomed' \subseteq {cands[j] : j \in 1..(winner - 1)}
        ELSE \A i \in DOMAIN cands' :
                \/ cands'[i] \in doomed' \cup leaked' \cup undeleted'
                \/ base'[cands'[i]] = 0
    BY <2>1, <2>2, <2>6 DEF Safe, ChoiceInv
  <2>10. QED
    BY <2>1, <2>7, <2>8, <2>9 DEF ChoiceInv, Distinct, WinnerCanBeCheckedOut,
       BestPassWins, FailedBranchesAreDeleted
<1>7. CASE Cancel
  BY <1>7 DEF Cancel, ChoiceInv, WinnerCanBeCheckedOut, BestPassWins,
     FailedBranchesAreDeleted
<1>8. ASSUME NEW i \in Evals, CreatorChecks(i) PROVE ChoiceInv'
  <2>1. phase \in {"evaluating", "cancelled"}
    BY <1>8 DEF CreatorChecks, Safe, ThreadsInv, Quiet
  <2>2. QED
    BY <1>8, <2>1 DEF CreatorChecks, ChoiceInv, WinnerCanBeCheckedOut,
       BestPassWins, FailedBranchesAreDeleted
<1>9. ASSUME NEW i \in Evals, CreatorAdds(i) PROVE ChoiceInv'
  <2>1. phase \in {"evaluating", "cancelled"}
    BY <1>9 DEF CreatorAdds, Safe, ThreadsInv, Quiet
  <2>2. QED
    BY <1>9, <2>1 DEF CreatorAdds, ChoiceInv, WinnerCanBeCheckedOut,
       BestPassWins, FailedBranchesAreDeleted
<1>10. ASSUME NEW i \in Evals, CreatorFails(i) PROVE ChoiceInv'
  BY <1>10 DEF CreatorFails, Safe, ChoiceInv, Passed, FirstPass, Distinct,
     Free, InWorktree, WinnerCanBeCheckedOut, BestPassWins, FailedBranchesAreDeleted
<1>11. ASSUME NEW i \in Evals, CreateReturns(i) PROVE ChoiceInv'
  BY <1>11 DEF CreateReturns, Safe, ChoiceInv, Passed, FirstPass, Distinct,
     Free, InWorktree, WinnerCanBeCheckedOut, BestPassWins, FailedBranchesAreDeleted
<1>12. ASSUME NEW i \in Evals, CreateRaises(i) PROVE ChoiceInv'
  BY <1>12 DEF CreateRaises, Safe, ChoiceInv, Passed, FirstPass, Distinct,
     Free, InWorktree, WinnerCanBeCheckedOut, BestPassWins, FailedBranchesAreDeleted
<1>13. ASSUME NEW i \in Evals, RunSubgraph(i) PROVE ChoiceInv'
  <2>1. phase \in {"evaluating", "cancelled"}
    BY <1>13 DEF RunSubgraph, Safe, ThreadsInv, Quiet
  <2>2. QED
    BY <1>13, <2>1 DEF RunSubgraph, ChoiceInv, WinnerCanBeCheckedOut,
       BestPassWins, FailedBranchesAreDeleted
<1>14. ASSUME NEW i \in Evals, RemoveWorktree(i) PROVE ChoiceInv'
  <2>1. phase \in {"evaluating", "cancelled"}
    BY <1>14 DEF RemoveWorktree, Safe, ThreadsInv, Quiet
  <2>2. QED
    BY <1>14, <2>1 DEF RemoveWorktree, ChoiceInv, WinnerCanBeCheckedOut,
       BestPassWins, FailedBranchesAreDeleted
<1>15. ASSUME NEW i \in Evals, OrphanRemoves(i) PROVE ChoiceInv'
  <2>1. phase \in {"evaluating", "cancelled"}
    BY <1>15 DEF OrphanRemoves, Safe, ThreadsInv, Quiet
  <2>2. QED
    BY <1>15, <2>1 DEF OrphanRemoves, ChoiceInv, WinnerCanBeCheckedOut,
       BestPassWins, FailedBranchesAreDeleted
<1>16. CASE UNCHANGED vars
  BY <1>16 DEF vars, Safe, ChoiceInv, Passed, FirstPass, Distinct,
     Free, InWorktree, WinnerCanBeCheckedOut, BestPassWins, FailedBranchesAreDeleted
<1> QED
  BY <1>1, <1>2, <1>3, <1>4, <1>5, <1>6, <1>7, <1>8, <1>9, <1>10, <1>11,
     <1>12, <1>13, <1>14, <1>15, <1>16, <1>20 DEF Next, NodeStep, CreatorStep,
     EvalStep, Done

(* The invariant holds initially, and is preserved. *)
LEMMA SafeInit ==
  ASSUME Init
  PROVE  Safe
  BY NoOrder DEF Init, Fresh, Safe, TypeOK, PlacesInv, ThreadsInv, RepoInv, EndInv, ChoiceInv,
     Quiet, Labels, Over, NoBranchTwice, WinnerCanBeCheckedOut, BestPassWins,
     FailedBranchesAreDeleted

LEMMA SafeNext ==
  ASSUME Safe, [Next]_vars
  PROVE  Safe'
  BY TypeNext, PlacesNext, ThreadsNext, RepoNext, EndNext, ChoiceNext DEF Safe

LEMMA SpecIsSafe == Spec => []Safe
  BY SafeInit, SafeNext, PTL DEF Spec

(* The node, its evaluations and the repository are always in one of their
   states. *)
THEOREM TypeCorrect == Spec => []TypeOK
<1>1. Safe => TypeOK
  BY DEF Safe
<1>2. QED
  BY <1>1, SpecIsSafe, PTL

(* The winner's branch is there and free when it is to be checked out, whatever
   is left of earlier rounds and of removals that failed, if the strategies are
   distinct. *)
THEOREM WinnerIsFree == Spec => []WinnerCanBeCheckedOut
<1>1. Safe => WinnerCanBeCheckedOut
  BY DEF Safe, ChoiceInv
<1>2. QED
  BY <1>1, SpecIsSafe, PTL

(* The best strategy that passed wins, and its branch is checked out. *)
THEOREM BestWins == Spec => []BestPassWins
<1>1. Safe => BestPassWins
  BY DEF Safe, ChoiceInv
<1>2. QED
  BY <1>1, SpecIsSafe, PTL

(* When all strategies failed, their branches are gone, but those that
   worktrees of earlier rounds hold and those that git failed to delete. *)
THEOREM FailuresAreDeleted == Spec => []FailedBranchesAreDeleted
<1>1. Safe => FailedBranchesAreDeleted
  BY DEF Safe, ChoiceInv
<1>2. QED
  BY <1>1, SpecIsSafe, PTL

(* No branch is checked out in two places. *)
THEOREM BranchesAreSeparate == Spec => []NoBranchTwice
<1>1. Safe => NoBranchTwice
  BY DEF Safe, RepoInv
<1>2. QED
  BY <1>1, SpecIsSafe, PTL

(* A node that is not cancelled and whose prune succeeds leaves no worktree
   behind. *)
THEOREM NothingIsLeft == Spec => []WorktreesAreRemoved
<1>1. Safe => WorktreesAreRemoved
  BY DEF Safe, EndInv, WorktreesAreRemoved
<1>2. QED
  BY <1>1, SpecIsSafe, PTL

-----------------------------------------------------------------------------
(* The contract *)

(* An evaluation has no verdict before its sub-graph has run, and a round
   without a winner deletes branches of its own strategies. *)
ResultsInv ==
    /\ \A i \in Evals : pc[i] = "running" => phase = "evaluating"
    /\ \A i \in Evals : pc[i] \in {"creating", "running"} => verdict[i] = "none"
    /\ phase \in {"pruning", "deleting"} /\ winner = 0 =>
          /\ \A i \in Evals : ~Passed(i)
          /\ doomed \subseteq {cands[j] : j \in DOMAIN cands}

LEMMA ResultsNext ==
  ASSUME Safe, ResultsInv, [Next]_vars
  PROVE  ResultsInv'
<1> USE DEF repo, evals, choice
<1>1. CASE Fork
  BY <1>1 DEF Fork, ResultsInv
<1>2. CASE Choose
  BY <1>2 DEF Choose, FirstPass, Passed, ResultsInv, Evals
<1>3. CASE Prune \/ PruneFails
  BY <1>3 DEF Prune, PruneFails, Passed, Safe, ThreadsInv, Quiet, ResultsInv
<1>4. CASE AllFailed \/ CheckoutWinner
  BY <1>4 DEF AllFailed, CheckoutWinner, Safe, ThreadsInv, Quiet, ResultsInv
<1>5. ASSUME NEW b \in Strategies, DeleteBranch(b) PROVE ResultsInv'
  BY <1>5 DEF DeleteBranch, Passed, ResultsInv
<1>6. CASE Cancel
  BY <1>6 DEF Cancel, AfterCancel, Safe, TypeOK, ResultsInv
<1>7. ASSUME NEW i \in Evals, CreatorStep(i) PROVE ResultsInv'
  BY <1>7 DEF CreatorStep, CreatorChecks, CreatorAdds, CreatorFails, Passed,
     ResultsInv
<1>8. ASSUME NEW i \in Evals, CreateReturns(i) \/ CreateRaises(i)
      PROVE  ResultsInv'
  BY <1>8 DEF CreateReturns, CreateRaises, Safe, TypeOK, ThreadsInv, Passed,
     ResultsInv
<1>9. ASSUME NEW i \in Evals, RunSubgraph(i) PROVE ResultsInv'
  BY <1>9 DEF RunSubgraph, Safe, TypeOK, Passed, ResultsInv
<1>10. ASSUME NEW i \in Evals, RemoveWorktree(i) \/ OrphanRemoves(i)
       PROVE  ResultsInv'
  BY <1>10 DEF RemoveWorktree, OrphanRemoves, Drop, Safe, TypeOK, Passed,
     ResultsInv
<1>11. CASE UNCHANGED vars
  BY <1>11 DEF vars, Passed, ResultsInv
<1> QED
  BY <1>1, <1>2, <1>3, <1>4, <1>5, <1>6, <1>7, <1>8, <1>9, <1>10, <1>11
     DEF Next, NodeStep, EvalStep, Done

(* What the contract sees of the repository and of the results. *)
Made == {b \in Strategies : base[b] # 0}
Held == {b \in Strategies : InWorktree(b)}
Winners == {i \in Evals : Passed(i)}

Seen == <<Outcome, cands, Winners, head, Made, Held, leaked \cup prunable, undeleted>>

(* A worktree that git does not know of holds nothing. *)
LEMMA HeldBranches ==
  ASSUME TypeOK, PlacesInv
  PROVE  Held = leaked \cup prunable \cup
                  {cands[i] : i \in {j \in Evals : registered[j]}}
  BY OrderTypes DEF Held, InWorktree, TypeOK, PlacesInv

(* Steps that the contract does not see. *)
LEMMA InnerStep ==
  ASSUME UNCHANGED <<head, base, leaked, prunable, cands, registered, verdict,
                     undeleted>>,
         Outcome' = Outcome
  PROVE  UNCHANGED Seen
  BY DEF Seen, Made, Held, Winners, Passed, InWorktree

(* A round begins with what earlier ones left. *)
LEMMA ForkImplements ==
  ASSUME Safe, Fork
  PROVE  Contract!Begin
<1> USE DEF repo, evals, choice
<1>1. /\ Outcome # "running"
      /\ Outcome' = IF cands' = <<>> THEN "failed" ELSE "running"
  BY DEF Fork, Outcome, Over
<1>2. cands' \in Contract!Orders /\ head' = Attempt /\ undeleted' = {}
  BY DEF Fork, Contract!Orders, Orders
<1>3. Winners' = {}
  BY DEF Fork, Winners, Passed
<1>4. /\ leaked' \cup prunable' = Held
      /\ UNCHANGED <<Made, Held>>
  <2>1. /\ leaked' = leaked \cup Left(FALSE) /\ prunable' = prunable \cup Left(TRUE)
        /\ \A k \in Evals : ~registered'[k]
        /\ base' = base
    BY DEF Fork, Fresh
  <2>2. Left(FALSE) \cup Left(TRUE) = {cands[k] : k \in {l \in Evals : registered[l]}}
    BY DEF Left, Safe, TypeOK
  <2>3. Held = leaked \cup prunable \cup Left(FALSE) \cup Left(TRUE)
    BY <2>2, HeldBranches DEF Safe
  <2>4. Held' = leaked' \cup prunable'
    <3>1. leaked' \subseteq Strategies /\ prunable' \subseteq Strategies
      BY TypeNext DEF Safe, TypeOK, Next
    <3>2. QED BY <2>1, <3>1 DEF Held, InWorktree
  <2>5. QED BY <2>1, <2>3, <2>4 DEF Made
<1>5. QED
  BY <1>1, <1>2, <1>3, <1>4 DEF Contract!Begin, Winners, Made, Held

(* What the node does after its evaluations are over. *)
LEMMA NodeImplements ==
  ASSUME Safe, ResultsInv, NodeStep \/ Cancel
  PROVE  [Contract!Next]_Contract!vars
<1> USE DEF repo, evals, choice
<1>0. /\ Winners = {k \in Evals : Passed(k)}
      /\ Made = {b \in Strategies : base[b] # 0}
      /\ Held = {b \in Strategies : InWorktree(b)}
  BY DEF Winners, Made, Held
<1>1. CASE Choose
  <2>1. UNCHANGED Seen
    BY <1>1, InnerStep DEF Choose, Outcome, Over
  <2>2. QED
    BY <2>1 DEF Seen, Made, Held, Winners, Contract!vars
<1>11. CASE PruneFails
  <2>1. /\ Outcome = "running" /\ Outcome' = "broken"
        /\ UNCHANGED <<cands, head, Winners, Made, Held, leaked, prunable, undeleted>>
    BY <1>11 DEF PruneFails, Outcome, Over, Winners, Passed, Made, Held, InWorktree
  <2>2. Contract!Break
    BY <2>1 DEF Contract!Break, Made, Held, Winners
  <2>3. QED BY <2>2 DEF Contract!Next
<1>2. CASE Prune
  <2>1. /\ Outcome = "running"
        /\ UNCHANGED <<Outcome, cands, head, Winners, Made, undeleted>>
    BY <1>2 DEF Prune, Outcome, Over, Winners, Passed, Made
  <2>2. /\ prunable' = {} /\ leaked' = leaked
        /\ \A k \in Evals : ~registered'[k]
    BY <1>2 DEF Prune, Pruned, Safe, EndInv, ThreadsInv, Quiet
  <2>3. Held' = leaked /\ leaked \subseteq Held
    BY <2>2 DEF Held, InWorktree, Safe, TypeOK
  <2>4. Contract!CloseWorktrees
    BY <2>1, <2>2, <2>3 DEF Contract!CloseWorktrees, Contract!Open, Made, Held, Winners
  <2>5. QED BY <2>4 DEF Contract!Next
<1>3. ASSUME NEW b \in Strategies, DeleteBranch(b)
      PROVE  [Contract!Next]_Contract!vars
  <2>1. Outcome = "running" /\ UNCHANGED <<Outcome, cands, head, Winners, Held>>
    BY <1>3 DEF DeleteBranch, Outcome, Over, Winners, Passed, Held, InWorktree
  <2>2. CASE CheckedOut(b)
    <3>1. UNCHANGED Seen
      BY <1>3, <2>1, <2>2 DEF DeleteBranch, Seen, Made
    <3>2. QED
      BY <3>1 DEF Seen, Made, Held, Winners, Contract!vars
  <2>3. CASE ~CheckedOut(b)
    <3>1. PICK k \in DOMAIN cands : cands[k] = b /\ ~Passed(k)
      <4>1. CASE winner = 0
        BY <1>3, <4>1, OrderTypes DEF DeleteBranch, Safe, TypeOK, ResultsInv
      <4>2. CASE winner # 0
        <5>1. winner \in Evals /\ FirstPass(winner)
          BY <1>3, <4>2 DEF DeleteBranch, Safe, TypeOK, ChoiceInv, Evals
        <5>2. PICK k \in 1..(winner - 1) : cands[k] = b
          BY <1>3, <4>2 DEF DeleteBranch, Safe, ChoiceInv
        <5>3. winner \in DOMAIN cands
          BY <5>1 DEF FirstPass, Passed, Safe, PlacesInv
        <5>4. QED BY <5>1, <5>2, <5>3, OrderTypes DEF FirstPass, Safe, TypeOK
      <4>3. QED BY <4>1, <4>2
    <3>2. b \notin Held \cup {head}
      BY <2>3 DEF CheckedOut, Held
    <3>3. CASE base' = [base EXCEPT ![b] = 0] /\ undeleted' = undeleted
      <4>1. Made' = Made \ {b}
        BY <3>3 DEF Made, Safe, TypeOK
      <4>2. Contract!DeleteBranch(k)
        BY <1>3, <2>1, <3>1, <3>2, <3>3, <4>1
           DEF DeleteBranch, Contract!DeleteBranch, Made, Held, Winners
      <4>3. QED BY <3>1, <4>2 DEF Contract!Next, Contract!Places
    <3>4. CASE undeleted' = undeleted \cup {b} /\ base' = base
      <4>1. Contract!KeepBranch(k)
        BY <1>3, <2>1, <3>1, <3>2, <3>4
           DEF DeleteBranch, Contract!KeepBranch, Made, Held, Winners
      <4>2. QED BY <3>1, <4>1 DEF Contract!Next, Contract!Places
    <3>5. QED BY <1>3, <2>3, <3>3, <3>4 DEF DeleteBranch
  <2>4. QED BY <2>2, <2>3
<1>4. ASSUME phase = "deleting"
      PROVE  Held \subseteq leaked \cup prunable
  BY <1>4 DEF Held, InWorktree, Safe, EndInv
<1>5. CASE AllFailed
  <2>1. /\ phase = "deleting" /\ doomed = {} /\ winner = 0
        /\ Outcome = "running" /\ Outcome' = "failed"
        /\ UNCHANGED <<cands, head, Winners, Made, Held, leaked, prunable, undeleted>>
    BY <1>5 DEF AllFailed, Outcome, Over, Winners, Passed, Made, Held, InWorktree
  <2>2. Winners = {}
    BY <2>1 DEF Winners, ResultsInv
  <2>3. \A k \in DOMAIN cands :
          base[cands[k]] # 0 => InWorktree(cands[k]) \/ cands[k] \in undeleted
    BY <2>1 DEF Safe, ChoiceInv, InWorktree
  <2>4. Contract!Tried \cap Made \subseteq Held \cup undeleted
    BY <2>3 DEF Contract!Tried, Contract!Places, Made, Held
  <2>5. Contract!Fail
    BY <1>4, <2>1, <2>2, <2>4 DEF Contract!Fail, Contract!Ends, Made, Held, Winners
  <2>6. QED BY <2>5 DEF Contract!Next
<1>6. CASE CheckoutWinner
  <2>1. /\ phase = "deleting" /\ doomed = {} /\ winner # 0
        /\ Outcome = "running"
        /\ UNCHANGED <<cands, Winners, Made, Held, leaked, prunable, undeleted>>
    BY <1>6 DEF CheckoutWinner, Outcome, Over, Winners, Passed, Made, Held, InWorktree
  <2>2. winner \in Evals /\ FirstPass(winner)
    BY <2>1 DEF Safe, TypeOK, ChoiceInv, Evals
  <2>3. winner \in Contract!Places /\ cands[winner] \in Strategies
    BY <2>2, OrderTypes DEF FirstPass, Passed, Safe, TypeOK, PlacesInv, Contract!Places
  <2>4. winner \in Winners /\ \A k \in Winners : winner <= k
    BY <2>2 DEF Winners, FirstPass, Evals
  <2>5. Free(cands[winner]) => cands[winner] \in Made \ Held
    BY <2>3 DEF Free, Made, Held
  <2>6. CASE Free(cands[winner]) /\ phase' = "won" /\ head' = cands[winner]
    <3>1. Outcome' = "won"
      BY <2>6 DEF Outcome, Over
    <3>2. Contract!Win
      BY <1>4, <2>1, <2>3, <2>4, <2>5, <2>6, <3>1
         DEF Contract!Win, Contract!Ends, Contract!Best, Contract!Free,
             Made, Held, Winners
    <3>3. QED BY <3>2 DEF Contract!Next
  <2>7. CASE phase' = "raised" /\ head' = head
    <3>1. Outcome' = "raised"
      BY <2>7 DEF Outcome, Over
    <3>2. Distinct => Free(cands[winner])
      BY <2>1 DEF Safe, ChoiceInv, WinnerCanBeCheckedOut
    <3>3. Contract!Raise
      BY <1>4, <2>1, <2>3, <2>4, <2>5, <2>7, <3>1, <3>2
         DEF Contract!Raise, Contract!Ends, Contract!Best, Contract!Free,
             Contract!Distinct, Contract!Places, Distinct, Made, Held, Winners
    <3>4. QED BY <3>3 DEF Contract!Next
  <2>8. QED BY <1>6, <2>6, <2>7 DEF CheckoutWinner
<1>7. CASE Cancel
  <2>1. /\ Outcome = "running" /\ Outcome' = "cancelled"
        /\ UNCHANGED <<cands, head, Winners, Made, Held, leaked, prunable, undeleted>>
    BY <1>7 DEF Cancel, Outcome, Over, Winners, Passed, Made, Held, InWorktree
  <2>2. Contract!Cancel
    BY <2>1 DEF Contract!Cancel, Made, Held, Winners
  <2>3. QED BY <2>2 DEF Contract!Next
<1>8. QED
  BY <1>1, <1>2, <1>3, <1>5, <1>6, <1>7, <1>11 DEF NodeStep

(* What threads and coroutines do in a round or after it was cancelled. *)
LEMMA EvaluationImplements ==
  ASSUME Safe, ResultsInv, NEW i \in Evals, CreatorStep(i) \/ EvalStep(i)
  PROVE  [Contract!Next]_Contract!vars
<1> USE DEF repo, evals, choice
<1>0. /\ Contract!Open
      /\ phase' = phase /\ Outcome' = Outcome
      /\ cands' = cands /\ head' = head /\ head = Attempt
      /\ leaked' = leaked /\ prunable' = prunable /\ undeleted' = undeleted
  <2>1. phase \in {"evaluating", "cancelled"}
    BY DEF Safe, ThreadsInv, Quiet, CreatorStep, EvalStep, CreatorChecks,
       CreatorAdds, CreatorFails, CreateReturns, CreateRaises, RunSubgraph,
       RemoveWorktree, OrphanRemoves
  <2>2. QED
    BY <2>1 DEF Contract!Open, Outcome, Over, Safe, RepoInv, CreatorStep,
       EvalStep, CreatorChecks, CreatorAdds, CreatorFails, CreateReturns,
       CreateRaises, RunSubgraph, RemoveWorktree, OrphanRemoves
<1>1. ASSUME UNCHANGED <<base, registered, verdict>>
      PROVE  [Contract!Next]_Contract!vars
  <2>1. UNCHANGED Seen
    BY <1>0, <1>1, InnerStep
  <2>2. QED
    BY <2>1 DEF Seen, Made, Held, Winners, Contract!vars
<1>2. CASE CreatorAdds(i)
  <2>0. i \in DOMAIN cands
    BY <1>2 DEF CreatorAdds, Safe, PlacesInv
  <2>1. PICK b \in Strategies : b = cands[i]
    BY <2>0, OrderTypes DEF Safe, TypeOK
  <2>2. ~CheckedOut(b)
    <3>1. CASE found[i]
      BY <1>2, <2>1, <3>1 DEF CreatorAdds, CanAdd
    <3>2. CASE ~found[i]
      BY <1>0, <1>2, <2>1, <3>2, StrategiesAssumption
         DEF CreatorAdds, CanAdd, CheckedOut, InWorktree, Safe, RepoInv
    <3>3. QED BY <3>1, <3>2
  <2>3. b \in Contract!Tried \ (Held \cup {head})
    BY <2>0, <2>1, <2>2 DEF Contract!Tried, Contract!Places, CheckedOut, Held
  <2>4. Made' = Made \cup {b}
    <3>1. (base' = base /\ base[b] # 0) \/ base' = [base EXCEPT ![b] = round]
      BY <1>2, <2>1 DEF CreatorAdds, CanAdd
    <3>2. round # 0 /\ base \in [Strategies -> 0..MaxRounds]
      BY <1>2 DEF CreatorAdds, Safe, ThreadsInv, Quiet, TypeOK
    <3>3. QED BY <3>1, <3>2 DEF Made
  <2>5. Held' = Held \cup {b}
    BY <1>0, <1>2, <2>1 DEF CreatorAdds, Held, InWorktree, Safe, TypeOK
  <2>6. Winners' = Winners
    BY <1>2 DEF CreatorAdds, Winners, Passed
  <2>7. Contract!OpenWorktree(b)
    BY <1>0, <2>3, <2>4, <2>5, <2>6 DEF Contract!OpenWorktree, Made, Held, Winners
  <2>8. QED BY <2>7 DEF Contract!Next
<1>3. CASE RunSubgraph(i)
  <2>0. i \in DOMAIN cands
    BY <1>3 DEF RunSubgraph, Safe, PlacesInv
  <2>1. Outcome = "running" /\ cands[i] \in Held /\ UNCHANGED <<Made, Held>>
    BY <1>3, <2>0, OrderTypes DEF RunSubgraph, ResultsInv, Outcome, Over, Safe, TypeOK, RepoInv,
       Made, Held, InWorktree
  <2>2. Winners' \in {Winners, Winners \cup {i}}
    BY <1>3 DEF RunSubgraph, ResultsInv, Winners, Passed, Safe, TypeOK
  <2>3. CASE Winners' = Winners
    BY <1>0, <2>1, <2>3 DEF Made, Held, Winners, Contract!vars
  <2>4. CASE Winners' = Winners \cup {i}
    <3>1. Contract!Pass(i)
      BY <1>0, <2>1, <2>4 DEF Contract!Pass, Made, Held, Winners
    <3>2. QED BY <2>0, <3>1 DEF Contract!Next, Contract!Places
  <2>5. QED BY <2>2, <2>3, <2>4
<1>4. CASE RemoveWorktree(i) \/ OrphanRemoves(i)
  <2>1. UNCHANGED <<base, verdict>>
    BY <1>4 DEF RemoveWorktree, OrphanRemoves
  <2>2. UNCHANGED <<Made, Winners>>
    BY <2>1 DEF Made, Winners, Passed
  <2>3. \A k \in Evals : registered'[k] => registered[k]
    BY <1>4 DEF RemoveWorktree, OrphanRemoves, Drop, Safe, TypeOK
  <2>4. Held' \subseteq Held /\ leaked \cup prunable \subseteq Held'
    BY <1>0, <2>3 DEF Held, InWorktree, Safe, TypeOK
  <2>5. Contract!CloseWorktrees
    BY <1>0, <2>2, <2>4 DEF Contract!CloseWorktrees, Made, Held, Winners
  <2>6. QED BY <2>5 DEF Contract!Next
<1>5. QED
  BY <1>1, <1>2, <1>3, <1>4 DEF CreatorStep, EvalStep, CreatorChecks,
     CreatorFails, CreateReturns, CreateRaises

(* The node implements the contract of speculation, for any strategies,
   parallelism and number of rounds. *)
THEOREM SpeculationKeepsContract == Spec => ImplementsContract
<1>1. Init => ResultsInv
  BY DEF Init, ResultsInv, Passed
<1>2. Init => Contract!Init
  BY DEF Init, Fresh, Contract!Init, Contract!Places, Evals, Outcome, Over,
     Passed, InWorktree
<1>3. Safe /\ ResultsInv /\ [Next]_vars => [Contract!Next]_Contract!vars
  <2> SUFFICES ASSUME Safe, ResultsInv, [Next]_vars
               PROVE  [Contract!Next]_Contract!vars
    OBVIOUS
  <2>1. CASE Fork
    BY <2>1, ForkImplements DEF Contract!Next
  <2>2. CASE NodeStep \/ Cancel
    BY <2>2, NodeImplements
  <2>3. ASSUME NEW i \in Evals, CreatorStep(i) \/ EvalStep(i)
        PROVE  [Contract!Next]_Contract!vars
    BY <2>3, EvaluationImplements
  <2>4. CASE UNCHANGED vars
    BY <2>4 DEF vars, repo, evals, choice, Outcome, Passed, InWorktree, Contract!vars
  <2>5. QED
    BY <2>1, <2>2, <2>3, <2>4 DEF Next, Done
<1>4. QED
  BY <1>1, <1>2, <1>3, SpecIsSafe, ResultsNext, PTL
     DEF Spec, ImplementsContract, Contract!Spec
-----------------------------------------------------------------------------
(* What can be proved of NodeEnds: a round is a descent. *)

LEMMA LeftValues ==
  /\ PhaseLeft("evaluating") = 3 /\ PhaseLeft("pruning") = 2
  /\ PhaseLeft("deleting") = 1 /\ \A p \in Over : PhaseLeft(p) = 0
  /\ EvalLeft("creating") = 4 /\ EvalLeft("running") = 3
  /\ EvalLeft("removing") = 2 /\ EvalLeft("orphan") = 1 /\ EvalLeft("ended") = 0
  /\ CreatorLeft("check") = 2 /\ CreatorLeft("add") = 1
  /\ CreatorLeft("done") = 0 /\ CreatorLeft("failed") = 0
  BY DEF PhaseLeft, Over, EvalLeft, CreatorLeft

LEMMA LeftIsNatural ==
  ASSUME TypeOK
  PROVE  /\ PhaseLeft(phase) \in 0..3
         /\ \A i \in Evals : EvalLeft(pc[i]) \in 0..4 /\ CreatorLeft(creator[i]) \in 0..2
<1>1. PhaseLeft(phase) \in 0..3
  BY LeftValues DEF TypeOK
<1>2. ASSUME NEW i \in Evals
      PROVE  EvalLeft(pc[i]) \in 0..4 /\ CreatorLeft(creator[i]) \in 0..2
  <2>1. pc[i] \in Labels /\ creator[i] \in {"check", "add", "done", "failed"}
    BY DEF TypeOK
  <2> QED
    BY <2>1, LeftValues DEF Labels
<1> QED
  BY <1>1, <1>2

(* One evaluation, or its thread, is nearer to its end and the rest is as it
   was. *)
EvalNearer(i) ==
    /\ pc' = [pc EXCEPT ![i] = pc'[i]]
    /\ creator' = [creator EXCEPT ![i] = creator'[i]]
    /\ EvalLeft(pc'[i]) <= EvalLeft(pc[i])
    /\ CreatorLeft(creator'[i]) <= CreatorLeft(creator[i])
    /\ \/ EvalLeft(pc'[i]) < EvalLeft(pc[i])
       \/ CreatorLeft(creator'[i]) < CreatorLeft(creator[i])
    /\ UNCHANGED <<phase, doomed>>

LEMMA ThreadStepIsNearer ==
  ASSUME TypeOK, NEW i \in Evals, CreatorStep(i)
  PROVE  EvalNearer(i)
<1>1. /\ pc \in [Evals -> Labels] /\ EvalLeft(pc[i]) \in 0..4
      /\ creator \in [Evals -> {"check", "add", "done", "failed"}]
  BY LeftIsNatural DEF TypeOK
<1>2. PICK c \in {"add", "done", "failed"} :
        /\ creator' = [creator EXCEPT ![i] = c]
        /\ creator[i] = "check" \/ (creator[i] = "add" /\ c # "add")
  BY DEF CreatorStep, CreatorChecks, CreatorAdds, CreatorFails
<1>3. pc' = pc /\ UNCHANGED <<phase, doomed>>
  BY DEF CreatorStep, CreatorChecks, CreatorAdds, CreatorFails, choice
<1>4. creator'[i] = c /\ pc'[i] = pc[i]
  BY <1>1, <1>2, <1>3
<1>5. CreatorLeft(creator'[i]) < CreatorLeft(creator[i])
  BY <1>2, <1>4, LeftValues
<1>6. CreatorLeft(creator'[i]) <= CreatorLeft(creator[i])
  BY <1>2, <1>4, LeftValues
<1>7. /\ pc' = [pc EXCEPT ![i] = pc'[i]]
      /\ creator' = [creator EXCEPT ![i] = creator'[i]]
  BY <1>1, <1>2, <1>3, <1>4
<1> QED
  BY <1>1, <1>3, <1>4, <1>5, <1>6, <1>7 DEF EvalNearer

LEMMA CoroutineStepIsNearer ==
  ASSUME TypeOK, NEW i \in Evals, EvalStep(i)
  PROVE  EvalNearer(i)
<1>1. /\ pc \in [Evals -> Labels] /\ CreatorLeft(creator[i]) \in 0..2
      /\ creator \in [Evals -> {"check", "add", "done", "failed"}]
  BY LeftIsNatural DEF TypeOK
<1>2. PICK l \in {"running", "removing", "ended"} :
        /\ pc' = [pc EXCEPT ![i] = l]
        /\ \/ pc[i] = "creating" /\ l # "ended"
           \/ pc[i] = "running" /\ l = "removing"
           \/ pc[i] \in {"removing", "orphan"} /\ l = "ended"
  BY DEF EvalStep, CreateReturns, CreateRaises, RunSubgraph, RemoveWorktree,
     OrphanRemoves
<1>3. creator' = creator /\ UNCHANGED <<phase, doomed>>
  BY DEF EvalStep, CreateReturns, CreateRaises, RunSubgraph, RemoveWorktree,
     OrphanRemoves, choice
<1>4. pc'[i] = l /\ creator'[i] = creator[i]
  BY <1>1, <1>2, <1>3
<1>5. EvalLeft(pc'[i]) < EvalLeft(pc[i])
  BY <1>2, <1>4, LeftValues
<1>6. EvalLeft(pc'[i]) <= EvalLeft(pc[i])
  BY <1>2, <1>4, LeftValues
<1>7. /\ pc' = [pc EXCEPT ![i] = pc'[i]]
      /\ creator' = [creator EXCEPT ![i] = creator'[i]]
  BY <1>1, <1>2, <1>3, <1>4
<1> QED
  BY <1>1, <1>3, <1>4, <1>5, <1>6, <1>7 DEF EvalNearer

(* The step of a round. *)
Nearer ==
    /\ PhaseLeft(phase') <= PhaseLeft(phase)
    /\ \A i \in Evals : /\ EvalLeft(pc'[i]) <= EvalLeft(pc[i])
                       /\ CreatorLeft(creator'[i]) <= CreatorLeft(creator[i])
    /\ phase # "evaluating" => doomed' \subseteq doomed
    /\ \/ PhaseLeft(phase') < PhaseLeft(phase)
       \/ \E i \in Evals : \/ EvalLeft(pc'[i]) < EvalLeft(pc[i])
                          \/ CreatorLeft(creator'[i]) < CreatorLeft(creator[i])
       \/ phase = "deleting" /\ doomed' # doomed

LEMMA NextIsNearer ==
  ASSUME TypeOK, [Next]_vars
  PROVE  UNCHANGED vars \/ round' # round \/ Nearer
<1> USE DEF evals, choice
<1>0. /\ PhaseLeft(phase) \in 0..3
      /\ \A i \in Evals : EvalLeft(pc[i]) \in 0..4 /\ CreatorLeft(creator[i]) \in 0..2
  BY LeftIsNatural
<1>1. CASE Fork
  BY <1>1 DEF Fork, TypeOK
<1>2. CASE Choose
  BY <1>0, <1>2, LeftValues DEF Choose, Nearer
<1>3. CASE Prune
  BY <1>0, <1>3, LeftValues DEF Prune, Nearer
<1>4. CASE PruneFails \/ AllFailed \/ CheckoutWinner
  <2>1. /\ phase \in {"pruning", "deleting"}
        /\ phase' \in {"broken", "failed", "won", "raised"}
        /\ UNCHANGED <<pc, creator, doomed>>
    BY <1>4 DEF PruneFails, AllFailed, CheckoutWinner
  <2> QED
    BY <1>0, <2>1, LeftValues DEF Nearer, Over
<1>5. ASSUME NEW b \in Strategies, DeleteBranch(b)
      PROVE  Nearer
  BY <1>0, <1>5 DEF DeleteBranch, Nearer
<1>6. CASE Cancel
  <2>1. /\ phase \in {"evaluating", "pruning", "deleting"} /\ phase' = "cancelled"
        /\ UNCHANGED <<creator, doomed>>
        /\ \A i \in Evals : pc'[i] = AfterCancel(pc[i])
    BY <1>6 DEF Cancel
  <2>2. \A i \in Evals : EvalLeft(AfterCancel(pc[i])) <= EvalLeft(pc[i])
    <3> SUFFICES ASSUME NEW i \in Evals
                 PROVE  EvalLeft(AfterCancel(pc[i])) <= EvalLeft(pc[i])
      OBVIOUS
    <3>1. \/ pc[i] \in {"creating", "running"} /\ AfterCancel(pc[i]) = "removing"
          \/ pc[i] = "removing" /\ AfterCancel(pc[i]) = "orphan"
          \/ AfterCancel(pc[i]) = pc[i]
      BY DEF AfterCancel
    <3> QED
      BY <1>0, <3>1, LeftValues
  <2>3. PhaseLeft(phase') = 0 /\ PhaseLeft(phase) > 0
    BY <2>1, LeftValues DEF Over
  <2> QED
    BY <1>0, <2>1, <2>2, <2>3 DEF Nearer
<1>7. ASSUME NEW i \in Evals, CreatorStep(i) \/ EvalStep(i)
      PROVE  Nearer
  <2>1. EvalNearer(i)
    BY <1>7, ThreadStepIsNearer, CoroutineStepIsNearer
  <2>2. \A j \in Evals \ {i} : pc'[j] = pc[j] /\ creator'[j] = creator[j]
    BY <2>1 DEF EvalNearer, TypeOK
  <2> QED
    BY <1>0, <2>1, <2>2 DEF EvalNearer, Nearer
<1> QED
  BY <1>1, <1>2, <1>3, <1>4, <1>5, <1>6, <1>7 DEF Next, NodeStep, Done

(* Every step of a round takes something nearer to its end and nothing back, for
   any strategies and any order of the threads. *)
THEOREM RoundsGoForward == Spec => RoundDescends
<1>1. Safe => TypeOK
  BY DEF Safe
<1>2. TypeOK /\ [Next]_vars => [round' = round => Nearer]_vars
  BY NextIsNearer
<1>3. QED
  BY <1>1, <1>2, SpecIsSafe, PTL DEF Spec, RoundDescends, Nearer

================================================================================
