--------------------------- MODULE MCGitWorkspace ---------------------------
(* A small instance of GitWorkspace for TLC.  The steps of consolidation and
   escalation read correction_state no more, and between sessions nothing of
   the last one is read: the view forgets it there. *)
EXTENDS GitWorkspace, TLC

Symmetries == Permutations(Pieces) \cup Permutations(Tasks)

View ==
    <<ignored, repo, files, stash, sessions, specStash, verified, failed,
      IF phase \in Nodes THEN <<correction, replans>> ELSE << >>,
      IF phase \in Rest \ {"paused", "done"} THEN payload ELSE <<phase, task, payload>>>>
=============================================================================
