------------------------- MODULE GitWorkspaceProofs -------------------------
(***************************************************************************)
(* Proofs about GitWorkspace, for any tasks, diffs, limits and number of   *)
(* sessions: what becomes of commits, stashes, main and the green commit,  *)
(* and that the sessions stay on the graph.                                *)
(***************************************************************************)
EXTENDS GitWorkspace, SequenceTheorems, TLAPS

USE AuthorsAssumption, LimitsAssumption, SessionsAssumption, GitFailsAssumption

(* What a commit holds, and what one more set of changes adds to it. *)
LEMMA ContentFacts ==
  /\ \A c \in Commits : Content(c) \subseteq Changes /\ IsPrefix(c, c)
  /\ \A c \in Commits, s \in SUBSET Changes :
        /\ Append(c, s) \in Commits
        /\ Content(Append(c, s)) = Content(c) \cup s
        /\ IsPrefix(c, Append(c, s))
  /\ << >> \in Commits /\ Content(<< >>) = {}
<1>1. ASSUME NEW c \in Commits  PROVE Content(c) \subseteq Changes
  BY <1>1 DEF Commits, Content, ToSet
<1>2. ASSUME NEW c \in Commits  PROVE IsPrefix(c, c)
  BY <1>2 DEF Commits, IsPrefix
<1>3. ASSUME NEW c \in Commits, NEW s \in SUBSET Changes
      PROVE  /\ Append(c, s) \in Commits
             /\ Content(Append(c, s)) = Content(c) \cup s
             /\ IsPrefix(c, Append(c, s))
  <2>1. /\ Append(c, s) \in Commits /\ Len(c) \in Nat
        /\ Len(Append(c, s)) = Len(c) + 1
        /\ \A i \in 1..Len(c) : Append(c, s)[i] = c[i]
        /\ Append(c, s)[Len(c) + 1] = s
    BY <1>3 DEF Commits
  <2>2. ToSet(Append(c, s)) = ToSet(c) \cup {s}
    BY <1>3, <2>1 DEF Commits, ToSet
  <2>3. Content(Append(c, s)) = Content(c) \cup s
    BY <2>2 DEF Content
  <2>4. IsPrefix(c, Append(c, s))
    BY <1>3, <2>1 DEF Commits, IsPrefix
  <2>5. QED
    BY <2>1, <2>3, <2>4
<1>4. << >> \in Commits /\ Content(<< >>) = {}
  BY DEF Commits, Content, ToSet
<1>5. QED
  BY <1>1, <1>2, <1>3, <1>4

(* What of TypeOK git's commands keep together: the branches, the tree and what
   is staged in it. *)
RepoOK ==
    /\ DOMAIN refs \subseteq Branches /\ {Main, head} \subseteq DOMAIN refs
    /\ \A b \in DOMAIN refs : refs[b] \in Commits
    /\ tree \subseteq Changes
    /\ Committed \subseteq tree
    /\ index \subseteq Dirty
    /\ green \subseteq Commits

Entries(last, current) ==
    [id : 1..last, by : {"speculation", "escalation"}, session : 1..current,
     work : SUBSET Changes]
Payloads(last) ==
    [branch : Branches \cup {NoBranch}, stash : 0..last, reset : BOOLEAN,
     work : SUBSET Changes]

(* The rest of TypeOK. *)
SessionOK ==
    /\ ignored \in BOOLEAN
    /\ pushed \in Nat
    /\ stashes \subseteq Entries(pushed, sessions)
    /\ markers \subseteq Tasks
    /\ sessions \in 0..MaxSessions /\ task \in Tasks
    /\ phase \in Rest \cup Nodes \cup InEscalation \cup DOMAIN Following
    /\ attempt \in 0..(MaxCycles + 1)
    /\ branch \in {NoBranch} \cup ({task} \X (0..MaxCycles))
    /\ replans \in 0..MaxReplan /\ specStash \in 0..pushed
    /\ payload \in Payloads(pushed)
    /\ verified \subseteq Changes /\ failed \in BOOLEAN

(* Where a session is: on the branch that it remembers, and with a clean tree
   when it is about to check out another one; only an exception of the verifier
   takes the attempts over the limit, and then it escalates. *)
Placed ==
    /\ phase \in Nodes /\ branch # NoBranch => head = branch
    /\ phase \in {"evaluate", "leave"} => Dirty = {}
    /\ phase \notin Rest => sessions > 0
    /\ phase \in Nodes \ {"escalate"} => attempt <= MaxCycles

TInv == RepoOK /\ SessionOK /\ Placed

LEMMA Names ==
  /\ Main \in Branches /\ NoBranch \notin Branches
  /\ \A t \in Tasks, n \in 0..MaxCycles :
        <<t, n>> \in Branches /\ <<t, n>> # Main /\ <<t, n>> # NoBranch
  BY DEF Main, NoBranch, Branches

LEMMA Phases ==
  DOMAIN Following = {"inventory", "code", "learn", "notes", "record", "drop"}
  BY DEF Following

(* git commit appends to the branch that is checked out. *)
LEMMA CommitStep ==
  ASSUME RepoOK, NEW staged, Commit(staged),
         staged \subseteq tree' \ Committed, index \subseteq staged,
         tree \subseteq tree', tree' \subseteq Changes, UNCHANGED <<head, green>>
  PROVE  /\ RepoOK'
         /\ DOMAIN refs' = DOMAIN refs
         /\ \A b \in DOMAIN refs : b # head => refs'[b] = refs[b]
         /\ IsPrefix(refs[head], refs'[head])
         /\ \/ Content(refs'[head]) = Committed \cup staged /\ index' = {}
            \/ refs' = refs /\ index' = staged /\ failed'
         /\ failed => failed'
<1>1. refs[head] \in Commits /\ staged \in SUBSET Changes
  BY DEF RepoOK
<1>2. CASE /\ staged # {} /\ index' = {}
           /\ refs' = [refs EXCEPT ![head] = Append(@, staged)]
           /\ UNCHANGED failed
  <2>1. /\ DOMAIN refs' = DOMAIN refs /\ refs'[head] = Append(refs[head], staged)
        /\ \A b \in DOMAIN refs : b # head => refs'[b] = refs[b]
    BY <1>2 DEF RepoOK
  <2>2. /\ refs'[head] \in Commits /\ Content(refs'[head]) = Committed \cup staged
        /\ IsPrefix(refs[head], refs'[head])
    BY <1>1, <2>1, ContentFacts DEF Committed
  <2>3. QED
    BY <1>2, <2>1, <2>2 DEF RepoOK, Committed, Dirty
<1>3. CASE staged = {} /\ UNCHANGED <<refs, index, failed>>
  <2>1. index = {} /\ IsPrefix(refs[head], refs'[head])
    BY <1>1, <1>3, ContentFacts
  <2>2. QED
    BY <1>3, <2>1 DEF RepoOK, Committed, Dirty
<1>4. CASE staged # {} /\ index' = staged /\ CommandFails /\ UNCHANGED refs
  <2>1. IsPrefix(refs[head], refs'[head])
    BY <1>1, <1>4, ContentFacts
  <2>2. QED
    BY <1>4, <2>1 DEF RepoOK, Committed, Dirty, CommandFails
<1>5. QED
  BY <1>2, <1>3, <1>4 DEF Commit

-----------------------------------------------------------------------------
(* Every action keeps the repository in order.  Of a step that consolidation or
   the oracle commits with, CommitStep says what becomes of it. *)

USE DEF repo, files, stash, correction, session, UserFrame, OracleFrame,
        ActorFrame, ChecksFrame, EvaluateFrame, EscalationFrame, Consolidates

LEMMA UnchangedRepo ==
  ASSUME RepoOK, UNCHANGED repo, green' \subseteq green
  PROVE  RepoOK'
  BY DEF RepoOK, Committed, Dirty

LEMMA PushStep ==
  ASSUME TInv, NEW by \in {"speculation", "escalation"},
         Push(by) \/ NothingToStash, UNCHANGED <<head, refs>>
  PROVE  /\ RepoOK'
         /\ Dirty' = {} /\ index' = {}
         /\ UNCHANGED Committed
  BY DEF TInv, RepoOK, Push, NothingToStash, Dirty, Committed

(* The oracle and consolidation write at most one file before they commit. *)
LEMMA OracleSteps ==
  ASSUME TInv, OracleFails \/ OracleConfirms
  PROVE  /\ RepoOK'
         /\ DOMAIN refs' = DOMAIN refs
         /\ \A b \in DOMAIN refs : b # head => refs'[b] = refs[b]
         /\ IsPrefix(refs[head], refs'[head])
         /\ Content(refs'[head]) \subseteq Committed \cup index \cup {Tests}
         /\ index' \subseteq index \cup {Tests}
<1> USE DEF TInv, RepoOK, SessionOK
<1>1. /\ Tests \in Changes /\ IsPrefix(refs[head], refs[head])
      /\ Content(refs[head]) = Committed
  BY ContentFacts DEF Tests, Changes, Committed
<1>2. CASE OracleFails
  BY <1>1, <1>2 DEF OracleFails, Committed, Dirty
<1>3. CASE /\ OracleConfirms /\ tree' = tree \cup {Tests}
           /\ Commit(index \cup ({Tests} \ Committed))
  <2> DEFINE staged == index \cup ({Tests} \ Committed)
  <2>1. /\ staged \subseteq tree' \ Committed /\ index \subseteq staged
        /\ tree \subseteq tree' /\ tree' \subseteq Changes /\ Commit(staged)
        /\ UNCHANGED <<head, green>> /\ RepoOK
    BY <1>1, <1>3 DEF OracleConfirms, Dirty
  <2> HIDE DEF staged
  <2>2. /\ RepoOK' /\ DOMAIN refs' = DOMAIN refs
        /\ \A b \in DOMAIN refs : b # head => refs'[b] = refs[b]
        /\ IsPrefix(refs[head], refs'[head])
        /\ \/ Content(refs'[head]) = Committed \cup staged /\ index' = {}
           \/ refs' = refs /\ index' = staged /\ failed'
    BY <2>1, CommitStep
  <2>3. QED
    BY <1>1, <2>2 DEF staged
<1>4. CASE /\ OracleConfirms
           /\ tree' \in {tree, tree \cup {Tests}} /\ UNCHANGED <<refs, index>>
  BY <1>1, <1>4 DEF OracleConfirms, Committed, Dirty
<1>5. QED
  BY <1>2, <1>3, <1>4 DEF OracleConfirms

LEMMA ConsolidationSteps ==
  ASSUME TInv, Consolidation
  PROVE  /\ RepoOK'
         /\ DOMAIN refs' = DOMAIN refs
         /\ \A b \in DOMAIN refs : b # head => refs'[b] = refs[b]
         /\ IsPrefix(refs[head], refs'[head])
         /\ Content(refs'[head]) \subseteq tree \cup {Notes}
         /\ index' \subseteq tree \cup {Notes}
         /\ tree' \subseteq tree \cup {Notes}
         /\ ~failed' => /\ ~failed
                        /\ phase = "code" => Dirty' = {}
                        /\ Dirty = {} => Dirty' = {}
                        /\ phase = "record" => green' = {refs'[head']}
<1> USE DEF TInv, RepoOK, SessionOK
<1>1. /\ Notes \in Changes /\ IsPrefix(refs[head], refs[head])
      /\ Content(refs[head]) = Committed
  BY ContentFacts DEF Notes, Changes, Committed
<1>2. CASE CommitTestInventory
  <2> DEFINE staged == index \cup ({Tests} \cap Dirty)
  <2>1. CASE Commit(staged)
    <3>1. /\ staged \subseteq tree' \ Committed /\ index \subseteq staged
          /\ tree \subseteq tree' /\ tree' \subseteq Changes
          /\ UNCHANGED <<head, green>>
      BY <1>1, <1>2, <2>1 DEF CommitTestInventory, Dirty
    <3> HIDE DEF staged
    <3>2. /\ RepoOK' /\ DOMAIN refs' = DOMAIN refs
          /\ \A b \in DOMAIN refs : b # head => refs'[b] = refs[b]
          /\ IsPrefix(refs[head], refs'[head])
          /\ \/ Content(refs'[head]) = Committed \cup staged /\ index' = {}
             \/ refs' = refs /\ index' = staged /\ failed'
          /\ failed => failed'
      BY <2>1, <3>1, CommitStep
    <3>3. Content(refs'[head]) = Committed'
      BY <3>1 DEF Committed
    <3>4. QED
      BY <1>1, <1>2, <2>1, <3>1, <3>2, <3>3 DEF staged, CommitTestInventory, Dirty
  <2>2. CASE UNCHANGED <<refs, index>> /\ (CommandFails \/ UNCHANGED failed)
    BY <1>1, <1>2, <2>2 DEF CommitTestInventory, CommandFails, Committed, Dirty
  <2>3. QED
    BY <1>2, <2>1, <2>2 DEF CommitTestInventory
<1>3. CASE CommitProductionCode
  <2> DEFINE staged == Dirty
  <2>1. CASE Commit(staged)
    <3>1. /\ staged \subseteq tree' \ Committed /\ index \subseteq staged
          /\ tree \subseteq tree' /\ tree' \subseteq Changes
          /\ UNCHANGED <<head, green>>
      BY <1>1, <1>3, <2>1 DEF CommitProductionCode, Dirty
    <3> HIDE DEF staged
    <3>2. /\ RepoOK' /\ DOMAIN refs' = DOMAIN refs
          /\ \A b \in DOMAIN refs : b # head => refs'[b] = refs[b]
          /\ IsPrefix(refs[head], refs'[head])
          /\ \/ Content(refs'[head]) = Committed \cup staged /\ index' = {}
             \/ refs' = refs /\ index' = staged /\ failed'
          /\ failed => failed'
      BY <2>1, <3>1, CommitStep
    <3>3. Content(refs'[head]) = Committed'
      BY <3>1 DEF Committed
    <3>4. QED
      BY <1>1, <1>3, <2>1, <3>1, <3>2, <3>3 DEF staged, CommitProductionCode, Dirty
  <2>2. QED
    BY <1>3, <2>1 DEF CommitProductionCode
<1>4. CASE UpdateNotes
  <2> DEFINE staged == index \cup ({Notes} \ Committed)
  <2>1. CASE Commit(staged) /\ tree' = tree \cup {Notes}
    <3>1. /\ staged \subseteq tree' \ Committed /\ index \subseteq staged
          /\ tree \subseteq tree' /\ tree' \subseteq Changes
          /\ UNCHANGED <<head, green>>
      BY <1>1, <1>4, <2>1 DEF UpdateNotes, Dirty
    <3> HIDE DEF staged
    <3>2. /\ RepoOK' /\ DOMAIN refs' = DOMAIN refs
          /\ \A b \in DOMAIN refs : b # head => refs'[b] = refs[b]
          /\ IsPrefix(refs[head], refs'[head])
          /\ \/ Content(refs'[head]) = Committed \cup staged /\ index' = {}
             \/ refs' = refs /\ index' = staged /\ failed'
          /\ failed => failed'
      BY <2>1, <3>1, CommitStep
    <3>3. Content(refs'[head]) = Committed'
      BY <3>1 DEF Committed
    <3>4. QED
      BY <1>1, <1>4, <2>1, <3>1, <3>2, <3>3 DEF staged, UpdateNotes, Dirty
  <2>2. CASE /\ UNCHANGED <<refs, index>>
             /\ \/ tree' = tree \cup {Notes} /\ CommandFails
                \/ UNCHANGED <<tree, failed>>
    BY <1>1, <1>4, <2>2 DEF UpdateNotes, CommandFails, Committed, Dirty
  <2>3. QED
    BY <1>4, <2>1, <2>2 DEF UpdateNotes
<1>5. CASE StoreLesson \/ RecordGreen \/ DropStash
  BY <1>1, <1>5
     DEF StoreLesson, RecordGreen, DropStash, CommandFails, Committed, Dirty
<1>6. QED
  BY <1>2, <1>3, <1>4, <1>5 DEF Consolidation

(* The actor's branch starts where the session is, so the tree is carried over
   as it is. *)
LEMMA BranchStep ==
  ASSUME TInv, phase = "actor", attempt < MaxCycles, Branched
  PROVE  /\ DOMAIN refs' \subseteq Branches /\ {Main, head'} \subseteq DOMAIN refs'
         /\ refs'[head'] = refs[head]
         /\ \A b \in DOMAIN refs : b \in DOMAIN refs' /\ refs'[b] = refs[b]
         /\ \A b \in DOMAIN refs' : \E c \in DOMAIN refs : refs'[b] = refs[c]
         /\ CarryTo(refs'[head']) = tree
         /\ head' \in {task} \X (0..MaxCycles)
         /\ branch # NoBranch => head' = branch
<1>1. Attempts \in Branches /\ Attempts \in {task} \X (0..MaxCycles)
  BY Names DEF TInv, SessionOK, Attempts
<1>2. NoBranch \notin DOMAIN refs
  BY Names DEF TInv, RepoOK
<1>3. branch # NoBranch => HasBranch /\ head = branch
  BY DEF TInv, RepoOK, Placed, Nodes, HasBranch
<1>4. CASE ~HasBranch /\ Attempts \notin DOMAIN refs
  BY <1>1, <1>2, <1>3, <1>4 DEF TInv, RepoOK, Branched, CarryTo, Committed, Dirty
<1>5. CASE HasBranch
  BY <1>2, <1>3, <1>5
     DEF TInv, RepoOK, SessionOK, Branched, HasBranch, CarryTo, Committed, Dirty
<1>6. QED
  BY <1>4, <1>5 DEF Branched

LEMMA ActorSteps ==
  ASSUME TInv, Actor
  PROVE  /\ RepoOK'
         /\ \A b \in DOMAIN refs : b \in DOMAIN refs' /\ refs'[b] = refs[b]
         /\ \A b \in DOMAIN refs' : \E c \in DOMAIN refs : refs'[b] = refs[c]
         /\ attempt' \in 0..MaxCycles
         /\ branch' \in {NoBranch} \cup ({task} \X (0..MaxCycles))
         /\ phase' \in Nodes /\ branch' # NoBranch => head' = branch'
         /\ phase = "actor" /\ phase' \in {"crashed", "actor", "escalate", "checks"}
         /\ UNCHANGED <<ignored, index, files, stash, session, payload, verified, failed>>
<1> USE DEF TInv, RepoOK, SessionOK
<1>1. CASE ActorStagnates \/ ActorBranchTaken
  BY <1>1 DEF ActorStagnates, ActorBranchTaken, Committed, Dirty, Placed, Nodes
<1>2. CASE ActorNoDiff
  BY <1>2, BranchStep DEF ActorNoDiff, Committed, Dirty
<1>3. ASSUME NEW proposal \in SUBSET Patches, NEW bad \in SUBSET proposal,
             Apply(proposal, bad), phase' \in {"actor", "escalate", "checks"}
      PROVE  /\ RepoOK'
             /\ \A b \in DOMAIN refs : b \in DOMAIN refs' /\ refs'[b] = refs[b]
             /\ \A b \in DOMAIN refs' : \E c \in DOMAIN refs : refs'[b] = refs[c]
             /\ attempt' \in 0..MaxCycles
             /\ branch' = head' /\ head' \in {task} \X (0..MaxCycles)
             /\ phase = "actor"
             /\ UNCHANGED <<ignored, index, files, stash, session, payload,
                            verified, failed>>
  <2>1. Patches \subseteq Changes
    BY DEF Patches, Changes
  <2>2. QED
    BY <1>3, <2>1, BranchStep DEF Apply, Committed, Dirty
<1>4. QED
  BY <1>1, <1>2, <1>3 DEF Actor, ActorApplyFails, ActorApplies

(* Speculation has stashed what was uncommitted: the winner's branch is checked
   out clean. *)
LEMMA SpeculationSteps ==
  ASSUME TInv, Speculation
  PROVE  /\ RepoOK'
         /\ refs'[Main] = refs[Main]
         /\ \A b \in DOMAIN refs' : \E c \in DOMAIN refs : refs'[b] = refs[c]
         /\ index' \subseteq index
         /\ phase' \in {"evaluate", "inventory"} => Dirty' = {}
         /\ phase' \in Nodes => head' = head
         /\ UNCHANGED <<ignored, payload, sessions, task, failed>>
<1> USE DEF TInv, RepoOK
<1>1. /\ StrategyBranch \in Branches /\ StrategyBranch # Main
      /\ branch # Main
  BY Names DEF SessionOK, StrategyBranch, Main, NoBranch
<1>2. CASE Speculate
  <2>1. RepoOK' /\ Dirty' = {} /\ index' = {}
    BY <1>2, PushStep DEF Speculate
  <2>2. QED
    BY <1>2, <2>1 DEF Speculate
<1>3. CASE SpeculateFails
  BY <1>3 DEF SpeculateFails, Committed, Dirty, Nodes
<1>4. CASE SpeculativeBranchWins
  <2>1. /\ Dirty = {} /\ index = {} /\ head # StrategyBranch
        /\ refs' = [b \in (DOMAIN refs \ ({branch} \ {head})) \cup {StrategyBranch} |->
                      IF b = StrategyBranch THEN StrategyCommit ELSE refs[b]]
        /\ \E c \in DOMAIN refs : StrategyCommit = refs[c]
        /\ UNCHANGED <<index, green>>
    BY <1>4 DEF SpeculativeBranchWins, Placed, StrategyCommit
  <2>2. /\ DOMAIN refs' \subseteq Branches /\ {Main, head} \subseteq DOMAIN refs'
        /\ refs'[StrategyBranch] = StrategyCommit /\ StrategyBranch \in DOMAIN refs'
        /\ refs'[Main] = refs[Main] /\ refs'[head] = refs[head]
        /\ \A b \in DOMAIN refs' : \E c \in DOMAIN refs : refs'[b] = refs[c]
    BY <1>1, <2>1
  <2>3. Content(StrategyCommit) \subseteq Changes
    BY <2>1, ContentFacts
  <2>4. CASE /\ head' = StrategyBranch /\ tree' = CarryTo(StrategyCommit)
             /\ phase' = "inventory"
    BY <1>4, <2>1, <2>2, <2>3, <2>4
       DEF SpeculativeBranchWins, CarryTo, Committed, Dirty, Nodes
  <2>5. CASE phase' = "crashed" /\ UNCHANGED <<head, tree>>
    BY <1>4, <2>1, <2>2, <2>5 DEF SpeculativeBranchWins, Committed, Dirty, Nodes
  <2>6. QED
    BY <1>4, <2>4, <2>5 DEF SpeculativeBranchWins
<1>5. CASE SpeculativeBranchFails
  <2>1. /\ {Main, head} \subseteq DOMAIN refs' /\ DOMAIN refs' \subseteq DOMAIN refs
        /\ \A b \in DOMAIN refs' : refs'[b] = refs[b]
    BY <1>1, <1>5 DEF SpeculativeBranchFails
  <2>2. QED
    BY <1>5, <2>1 DEF SpeculativeBranchFails, Committed, Dirty
<1>6. QED
  BY <1>2, <1>3, <1>4, <1>5 DEF Speculation

(* Main is moved by a reset only when it is checked out. *)
LEMMA EscalationSteps ==
  ASSUME TInv, Escalation
  PROVE  /\ RepoOK'
         /\ DOMAIN refs' = DOMAIN refs
         /\ \A b \in DOMAIN refs : refs'[b] = refs[b] \/ (phase = "reset" /\ b = head)
         /\ refs'[head] \in {refs[head]} \cup green
         /\ green' \subseteq green
         /\ phase' \notin Nodes
         /\ phase' = "leave" => Dirty' = {}
         /\ index' \subseteq index
         /\ UNCHANGED <<ignored, correction, session, verified>>
<1> USE DEF TInv, RepoOK
<1>1. CASE EscalationReturns \/ EscalationPauses
  BY <1>1 DEF EscalationReturns, EscalationPauses, Committed, Dirty, Nodes
<1>2. CASE EscalationStashes
  <2>1. CASE UNCHANGED <<tree, index, files, stash>>
    BY <1>2, <2>1 DEF EscalationStashes, Committed, Dirty, Nodes
  <2>2. CASE Push("escalation") \/ NothingToStash
    <3>1. RepoOK' /\ index' = {}
      BY <1>2, <2>2, PushStep DEF EscalationStashes
    <3>2. green' \subseteq green
      BY <2>2 DEF Push, NothingToStash
    <3>3. QED
      BY <1>2, <3>1, <3>2 DEF EscalationStashes, Nodes
  <2>3. QED
    BY <1>2, <2>1, <2>2 DEF EscalationStashes
<1>3. CASE EscalationResets
  <2>1. ASSUME NEW left \in SUBSET Dirty, ResetHard(left),
               phase' = "leave" => left = {}
        PROVE  /\ RepoOK' /\ DOMAIN refs' = DOMAIN refs
               /\ \A b \in DOMAIN refs : refs'[b] = refs[b] \/ b = head
               /\ refs'[head] \in {refs[head]} \cup green
               /\ index' \subseteq index
               /\ phase' = "leave" => Dirty' = {}
    <3>1. PICK target \in LastGreen :
            /\ refs' = [refs EXCEPT ![head] = target]
            /\ tree' = Content(target) \cup left /\ index' = {}
      BY <2>1 DEF ResetHard
    <3>2. /\ target \in Commits /\ Content(target) \subseteq Changes
          /\ target \in {refs[head]} \cup green
      BY <3>1, ContentFacts DEF LastGreen
    <3>3. green' \subseteq green /\ head' = head
      BY <1>3 DEF EscalationResets, Clean
    <3>4. QED
      BY <2>1, <3>1, <3>2, <3>3 DEF Committed, Dirty
  <2>2. /\ phase = "reset" /\ phase' \in {"leave", "pause"} /\ green' \subseteq green
        /\ UNCHANGED <<ignored, correction, session, verified>>
    BY <1>3 DEF EscalationResets, EscalationFrame, Clean
  <2>3. CASE phase' = "pause" /\ UNCHANGED <<refs, tree, index, files>>
    BY <1>3, <2>2, <2>3 DEF EscalationResets, Committed, Dirty, Nodes
  <2>4. CASE \E left \in SUBSET Dirty : ResetHard(left) /\ (phase' = "leave" => left = {})
    BY <2>1, <2>2, <2>4 DEF Nodes
  <2>5. QED
    BY <1>3, <2>3, <2>4 DEF EscalationResets
<1>4. CASE EscalationLeaves
  <2>1. Dirty = {} /\ Content(refs[Main]) \subseteq Changes
    BY <1>4, ContentFacts DEF EscalationLeaves, Placed
  <2>2. QED
    BY <1>4, <2>1 DEF EscalationLeaves, CommandFails, CarryTo, Committed, Dirty, Nodes
<1>5. QED
  BY <1>1, <1>2, <1>3, <1>4 DEF Escalation

LEMMA SessionSteps ==
  ASSUME TInv, \/ User_ \/ StartSession \/ Crash \/ ChecksFail \/ VerifierRaises
               \/ ChecksPass \/ UNCHANGED vars
  PROVE  /\ RepoOK'
         /\ UNCHANGED <<ignored, refs, index, files, stash, failed>>
<1> USE DEF TInv, RepoOK
<1>1. CASE UserEdits
  BY <1>1 DEF UserEdits, Changes, Committed, Dirty
<1>2. CASE UserChecksOutMain
  BY <1>2, ContentFacts DEF UserChecksOutMain, Committed, Dirty
<1>3. CASE StartSession
  BY <1>3 DEF StartSession, Begin, Committed, Dirty
<1>4. CASE Crash \/ ChecksFail \/ VerifierRaises \/ ChecksPass \/ UNCHANGED vars
  BY <1>4 DEF Crash, ChecksFail, VerifierRaises, ChecksPass, vars, Committed, Dirty
<1>5. QED
  BY <1>1, <1>2, <1>3, <1>4 DEF User_

-----------------------------------------------------------------------------
(* Type correctness *)

LEMMA TypesOfTInv == TInv => TypeOK
  BY DEF TInv, RepoOK, SessionOK, TypeOK, Entries, Payloads

LEMMA LaterTypes ==
  ASSUME NEW m \in Nat, NEW n \in Nat, NEW a \in Nat, NEW b \in Nat, m <= n, a <= b
  PROVE  Entries(m, a) \subseteq Entries(n, b) /\ Payloads(m) \subseteq Payloads(n)
  BY DEF Entries, Payloads

LEMMA StashTypes ==
  ASSUME TInv, sessions > 0, NEW by \in {"speculation", "escalation"},
         \/ Push(by) \/ NothingToStash
         \/ UNCHANGED <<stash, markers>>,
         UNCHANGED sessions
  PROVE  /\ pushed' \in Nat /\ pushed' >= pushed /\ Stashed \in 0..pushed'
         /\ stashes' \subseteq Entries(pushed', sessions')
         /\ markers' \subseteq Tasks
<1> USE DEF TInv, RepoOK, SessionOK
<1>1. CASE Push(by)
  <2>1. pushed' = pushed + 1 /\ pushed' \in Nat /\ markers' \subseteq Tasks
    BY <1>1 DEF Push
  <2>2. [id |-> pushed', by |-> by, session |-> sessions, work |-> Dirty]
          \in Entries(pushed', sessions')
    BY <2>1, SessionsAssumption DEF Dirty, Entries
  <2>3. Entries(pushed, sessions) \subseteq Entries(pushed', sessions')
    BY <2>1, SessionsAssumption, LaterTypes
  <2>4. stashes' \subseteq Entries(pushed', sessions')
    BY <1>1, <2>2, <2>3 DEF Push
  <2>5. QED
    BY <2>1, <2>4 DEF Stashed, NoStash
<1>2. CASE NothingToStash \/ UNCHANGED <<stash, markers>>
  BY <1>2 DEF NothingToStash, Stashed, NoStash
<1>3. QED
  BY <1>1, <1>2

LEMMA SessionKeeps ==
  ASSUME TInv, [Next]_vars
  PROVE  SessionOK' /\ Placed'
<1> USE DEF Rest, Nodes, InEscalation
<1>1. CASE UserEdits \/ UserChecksOutMain
  BY <1>1 DEF UserEdits, UserChecksOutMain, BetweenSessions, TInv, SessionOK, Placed
<1>2. CASE StartSession
  <2>1. PICK t \in Tasks : Begin(t, NoStash)
    BY <1>2 DEF StartSession
  <2>2. /\ sessions' = sessions + 1 /\ sessions' \in 0..MaxSessions /\ sessions' > 0
        /\ NoPayload \in Payloads(pushed')
    BY <2>1 DEF Begin, BetweenSessions, TInv, SessionOK, NoPayload, NoStash, Payloads
  <2>3. Entries(pushed, sessions) \subseteq Entries(pushed', sessions')
    BY <2>1, <2>2, LaterTypes DEF Begin, TInv, SessionOK
  <2>4. QED
    BY <2>1, <2>2, <2>3 DEF Begin, NoStash, TInv, SessionOK, Placed
<1>3. CASE Crash \/ ChecksFail \/ ChecksPass \/ UNCHANGED vars
  <2>1. UNCHANGED <<Dirty, ignored, head, branch, pushed, stashes, markers, sessions,
                    task, attempt, replans, specStash, payload, failed>>
    BY <1>3 DEF Crash, ChecksFail, ChecksPass, vars, Dirty, Committed
  <2>2. verified' \subseteq verified \cup tree
    BY <1>3 DEF Crash, ChecksFail, ChecksPass, vars
  <2>3. /\ phase' \in Rest \cup Nodes \cup InEscalation \cup DOMAIN Following
        /\ phase' = phase \/ phase' \in {"crashed", "inventory"}
             \/ (phase = "checks" /\ phase' \in {"actor", "escalate", "speculate"})
    BY <1>3, Phases DEF Crash, ChecksFail, ChecksPass, vars, TInv, SessionOK
  <2>4. SessionOK'
    BY <2>1, <2>2, <2>3 DEF TInv, RepoOK, SessionOK
  <2>5. phase' \notin Rest => sessions > 0
    BY <1>3 DEF Crash, ChecksFail, ChecksPass, vars, TInv, Placed
  <2>6. phase' \in Nodes \ {"escalate"} => phase \in Nodes \ {"escalate"}
    BY <1>3 DEF Crash, ChecksFail, ChecksPass, vars
  <2>7. QED
    BY <2>1, <2>3, <2>4, <2>5, <2>6 DEF TInv, Placed
<1>4. CASE OracleFails \/ OracleConfirms
  <2>1. /\ phase = "tdd_gate" /\ phase' \in {"tdd_gate", "escalate", "actor"}
        /\ UNCHANGED <<ignored, head, files, stash, correction, session, payload,
                       verified>>
    BY <1>4 DEF OracleFails, OracleConfirms
  <2>2. failed' \in {failed, TRUE}
    BY <1>4 DEF OracleFails, OracleConfirms, Commit, CommandFails
  <2>3. SessionOK'
    BY <2>1, <2>2 DEF TInv, SessionOK
  <2>4. QED
    BY <2>1, <2>3 DEF TInv, Placed
<1>5. CASE Actor
  BY <1>5, ActorSteps DEF TInv, RepoOK, SessionOK, Placed
<1>6. CASE Speculation
  <2>1. /\ RepoOK' /\ UNCHANGED <<ignored, payload, sessions, task, failed>>
        /\ phase' \in {"evaluate", "inventory"} => Dirty' = {}
        /\ phase' \in Nodes => head' = head
        /\ phase \in Nodes /\ sessions > 0
    BY <1>6, SpeculationSteps
       DEF Speculation, Speculate, SpeculateFails, SpeculativeBranchWins,
           SpeculativeBranchFails, TInv, Placed
  <2>2. /\ phase' \in {"evaluate", "crashed", "inventory", "tdd_gate", "escalate"}
        /\ replans' \in 0..MaxReplan
        /\ <<attempt', branch'>> \in {<<attempt, branch>>, <<0, NoBranch>>}
    BY <1>6 DEF Speculation, Speculate, SpeculateFails, SpeculativeBranchWins,
                SpeculativeBranchFails, TInv, SessionOK
  <2>3. /\ pushed' \in Nat /\ pushed' >= pushed /\ specStash' \in 0..pushed'
        /\ stashes' \subseteq Entries(pushed', sessions')
        /\ markers' \subseteq Tasks
    <3>1. CASE Speculate
      BY <2>1, <3>1, StashTypes DEF Speculate
    <3>2. CASE UNCHANGED <<stash, markers, specStash>>
      BY <2>1, <3>2 DEF TInv, SessionOK
    <3>3. QED
      BY <1>6, <3>1, <3>2 DEF Speculation, SpeculateFails, SpeculativeBranchWins,
                              SpeculativeBranchFails
  <2>4. verified' \subseteq Changes
    <3>1. CASE SpeculativeBranchWins
      <4>1. Patches \subseteq Changes
        BY DEF Patches, Changes, TInv, SessionOK
      <4>2. Content(StrategyCommit) \subseteq Changes
        BY ContentFacts DEF StrategyCommit, TInv, RepoOK
      <4>3. QED
        BY <3>1, <4>1, <4>2 DEF SpeculativeBranchWins, TInv, SessionOK
    <3>2. CASE UNCHANGED verified
      BY <3>2 DEF TInv, SessionOK
    <3>3. QED
      BY <1>6, <3>1, <3>2 DEF Speculation, Speculate, SpeculateFails,
                              SpeculativeBranchFails
  <2>5. payload' \in Payloads(pushed')
    BY <2>1, <2>3, LaterTypes DEF TInv, SessionOK
  <2>6. SessionOK'
    BY <2>1, <2>2, <2>3, <2>4, <2>5, Phases DEF TInv, SessionOK
  <2>7. attempt' <= MaxCycles
    <3>1. attempt <= MaxCycles
      BY <1>6 DEF Speculation, Speculate, SpeculateFails, SpeculativeBranchWins,
                  SpeculativeBranchFails, TInv, Placed
    <3>2. QED
      BY <2>2, <3>1, LimitsAssumption
  <2>8. QED
    BY <2>1, <2>2, <2>6, <2>7 DEF TInv, Placed
<1>7. CASE Consolidation
  <2>1. /\ phase \in DOMAIN Following
        /\ phase' \in {"code", "learn", "notes", "record", "drop", "done"}
        /\ UNCHANGED <<ignored, head, correction, session, payload, verified, pushed,
                       markers>>
        /\ stashes' \subseteq stashes
    BY <1>7, Phases
       DEF Consolidation, CommitTestInventory, CommitProductionCode, StoreLesson,
           UpdateNotes, RecordGreen, DropStash, Following
  <2>2. failed' \in {failed, TRUE}
    BY <1>7 DEF Consolidation, CommitTestInventory, CommitProductionCode, StoreLesson,
           UpdateNotes, RecordGreen, DropStash, Commit, CommandFails
  <2>3. SessionOK'
    BY <2>1, <2>2, Phases DEF TInv, SessionOK
  <2>4. QED
    BY <2>1, <2>3, Phases DEF TInv, Placed
<1>8. CASE Escalation
  <2>1. /\ RepoOK' /\ phase' \notin Nodes
        /\ phase' = "leave" => Dirty' = {}
        /\ UNCHANGED <<ignored, correction, session, verified>>
        /\ phase \in {"escalate", "reset", "leave", "pause"} /\ sessions > 0
    BY <1>8, EscalationSteps
       DEF Escalation, EscalationReturns, EscalationStashes, EscalationResets,
           EscalationLeaves, EscalationPauses, TInv, Placed
  <2>2. /\ phase' \in {"ended", "reset", "crashed", "leave", "pause", "paused"}
        /\ failed' \in {failed, TRUE}
    BY <1>8
       DEF Escalation, EscalationReturns, EscalationStashes, EscalationResets,
           EscalationLeaves, EscalationPauses, CommandFails
  <2>3. /\ pushed' \in Nat /\ pushed' >= pushed /\ Stashed \in 0..pushed'
        /\ stashes' \subseteq Entries(pushed', sessions')
        /\ markers' \subseteq Tasks
    <3>1. CASE UNCHANGED stash /\ markers' \subseteq markers \cup {task}
      BY <2>1, <3>1 DEF TInv, SessionOK, Stashed, NoStash
    <3>2. CASE Push("escalation") \/ NothingToStash
      BY <2>1, <3>2, StashTypes
    <3>3. QED
      BY <1>8, <3>1, <3>2
         DEF Escalation, EscalationReturns, EscalationStashes, EscalationResets,
             Clean, EscalationLeaves, EscalationPauses
  <2>4. payload' \in Payloads(pushed')
    <3>1. payload \in Payloads(pushed')
      BY <2>1, <2>3, LaterTypes DEF TInv, SessionOK
    <3>2. ActiveBranch \in Branches \cup {NoBranch} /\ Dirty \subseteq Changes
      BY Names DEF ActiveBranch, TInv, SessionOK, RepoOK, Dirty
    <3>3. \/ payload' = payload
          \/ \E b \in Branches \cup {NoBranch}, id \in 0..pushed' :
                payload' = [branch |-> b, stash |-> id, reset |-> FALSE, work |-> Dirty]
          \/ payload' = [payload EXCEPT !.reset = TRUE]
      BY <1>8, <2>3, <3>2
         DEF Escalation, EscalationReturns, EscalationStashes, EscalationResets,
             EscalationLeaves, EscalationPauses
    <3>4. CASE payload' = [payload EXCEPT !.reset = TRUE]
      BY <3>1, <3>4 DEF Payloads
    <3>5. ASSUME NEW b \in Branches \cup {NoBranch}, NEW id \in 0..pushed',
                 payload' = [branch |-> b, stash |-> id, reset |-> FALSE, work |-> Dirty]
          PROVE  payload' \in Payloads(pushed')
      BY <3>2, <3>5 DEF Payloads
    <3>6. QED
      BY <3>1, <3>3, <3>4, <3>5
  <2>5. SessionOK'
    <3>1. UNCHANGED <<ignored, attempt, branch, sessions, task, replans, specStash,
                      verified>>
      BY <2>1
    <3>2. phase' \in Rest \cup Nodes \cup InEscalation \cup DOMAIN Following
      BY <2>2
    <3>3. failed' \in BOOLEAN
      BY <2>2 DEF TInv, SessionOK
    <3>4. specStash' \in 0..pushed'
      BY <2>3, <3>1 DEF TInv, SessionOK
    <3>5. QED
      BY <2>3, <2>4, <3>1, <3>2, <3>3, <3>4 DEF TInv, SessionOK
  <2>6. QED
    BY <2>1, <2>2, <2>5 DEF Placed
<1>9. CASE VerifierRaises
  <2>1. /\ phase = "checks" /\ phase' \in {"escalate", "speculate"}
        /\ attempt' = attempt + 1 /\ attempt <= MaxCycles
        /\ phase' = "speculate" => attempt' <= MaxCycles
        /\ UNCHANGED <<ignored, head, files, stash, branch, session, payload,
                       verified, failed>>
    BY <1>9 DEF VerifierRaises, TInv, Placed
  <2>2. attempt' \in 0..(MaxCycles + 1)
    BY <2>1, LimitsAssumption DEF TInv, SessionOK
  <2>3. SessionOK'
    BY <2>1, <2>2 DEF TInv, SessionOK
  <2>4. QED
    BY <2>1, <2>3 DEF TInv, Placed
<1>10. QED
  BY <1>1, <1>2, <1>3, <1>4, <1>5, <1>6, <1>7, <1>8, <1>9 DEF Next, User_

LEMMA TInvInit == Init => TInv
<1> SUFFICES ASSUME Init PROVE TInv
  OBVIOUS
<1>1. RepoOK
  BY Names, ContentFacts DEF Init, RepoOK, Committed, Dirty
<1>2. SessionOK
  <2>1. NoPayload \in Payloads(0)
    BY DEF NoPayload, NoStash, Payloads
  <2>2. /\ phase \in Rest /\ failed \in BOOLEAN /\ stashes \subseteq Entries(pushed, sessions)
        /\ markers \subseteq Tasks /\ verified \subseteq Changes
    BY DEF Init, Rest
  <2>3. QED
    BY <2>1, <2>2 DEF Init, SessionOK, NoStash
<1>3. Placed
  BY DEF Init, Placed, Rest, Nodes
<1>4. QED
  BY <1>1, <1>2, <1>3 DEF TInv

LEMMA TInvNext == TInv /\ [Next]_vars => TInv'
<1> SUFFICES ASSUME TInv, [Next]_vars PROVE RepoOK'
  BY SessionKeeps DEF TInv
<1> QED
  BY OracleSteps, ConsolidationSteps, ActorSteps, SpeculationSteps, EscalationSteps,
     SessionSteps DEF Next

LEMMA TInvAlways == Spec => []TInv
  BY TInvInit, TInvNext, PTL DEF Spec

(* All variables keep their types, and what is staged is in the tree and not yet
   committed, through every checkout that takes uncommitted work along. *)
THEOREM TypeCorrect == Spec => []TypeOK
  BY TInvAlways, TypesOfTInv, PTL

-----------------------------------------------------------------------------
(* Main *)

(* Main loses commits only to an escalation of a session that never left it: the
   other git commands append to it or leave it alone. *)
THEOREM MainIsKept == Spec => MainKeepsItsCommits
<1>1. TInv /\ [Next]_vars =>
        IsPrefix(refs[Main], refs'[Main]) \/ (phase = "reset" /\ head = Main)
  <2> SUFFICES ASSUME TInv, [Next]_vars, ~(phase = "reset" /\ head = Main)
               PROVE  IsPrefix(refs[Main], refs'[Main])
    OBVIOUS
  <2>1. Main \in DOMAIN refs /\ head \in DOMAIN refs /\ IsPrefix(refs[Main], refs[Main])
    BY ContentFacts DEF TInv, RepoOK
  <2>2. CASE OracleFails \/ OracleConfirms
    BY <2>1, <2>2, OracleSteps
  <2>3. CASE Consolidation
    BY <2>1, <2>3, ConsolidationSteps
  <2>4. CASE Actor
    BY <2>1, <2>4, ActorSteps
  <2>5. CASE Speculation
    BY <2>1, <2>5, SpeculationSteps
  <2>6. CASE Escalation
    BY <2>1, <2>6, EscalationSteps
  <2>7. CASE \/ User_ \/ StartSession \/ Crash \/ ChecksFail \/ VerifierRaises \/ ChecksPass
             \/ UNCHANGED vars
    BY <2>1, <2>7, SessionSteps
  <2>8. QED
    BY <2>2, <2>3, <2>4, <2>5, <2>6, <2>7 DEF Next
<1>2. QED
  BY <1>1, TInvAlways, PTL DEF Spec, MainKeepsItsCommits

-----------------------------------------------------------------------------
(* Stashes *)

(* The reference of a session to its speculation's stash is never another's. *)
OwnReference ==
    \A e \in stashes : e.id = specStash => e.by = "speculation" /\ e.session = sessions

LEMMA StashIds ==
  ASSUME TInv
  PROVE  /\ \A e \in stashes : e.id \in 1..pushed /\ e.id # NoStash
         /\ pushed \in Nat /\ specStash \in 0..pushed /\ pushed + 1 # specStash
  BY DEF TInv, SessionOK, Entries, NoStash

(* A stash is dropped only by the session whose speculation made it. *)
THEOREM OwnStashesOnly == Spec => OnlyOwnStashIsDropped
<1> DEFINE Drop == \A e \in stashes \ stashes' : e.by = "speculation" /\ e.session = sessions
<1>1. Init => OwnReference
  BY DEF Init, OwnReference
<1>2. TInv /\ OwnReference /\ [Next]_vars => OwnReference' /\ Drop
  <2> SUFFICES ASSUME TInv, OwnReference, [Next]_vars PROVE OwnReference' /\ Drop
    OBVIOUS
  <2> USE StashIds DEF OwnReference
  <2>1. CASE StartSession
    BY <2>1 DEF StartSession, Begin
  <2>2. CASE Speculate
    BY <2>2 DEF Speculate, Push, NothingToStash, Stashed, NoStash
  <2>3. CASE EscalationStashes
    BY <2>3 DEF EscalationStashes, Push, NothingToStash
  <2>4. CASE DropStash
    BY <2>4 DEF DropStash
  <2>5. CASE UNCHANGED <<stashes, specStash, sessions>>
    BY <2>5
  <2>6. CASE User_ \/ Crash \/ ChecksFail \/ VerifierRaises \/ ChecksPass \/ UNCHANGED vars
    BY <2>5, <2>6 DEF User_, UserEdits, UserChecksOutMain, Crash, ChecksFail,
       VerifierRaises, ChecksPass, vars
  <2>7. CASE OracleFails \/ OracleConfirms
    BY <2>5, <2>7 DEF OracleFails, OracleConfirms
  <2>8. CASE Actor
    BY <2>5, <2>8, ActorSteps
  <2>9. CASE SpeculateFails \/ SpeculativeBranchWins \/ SpeculativeBranchFails
    BY <2>5, <2>9 DEF SpeculateFails, SpeculativeBranchWins, SpeculativeBranchFails
  <2>10. CASE \/ CommitTestInventory \/ CommitProductionCode \/ StoreLesson
              \/ UpdateNotes \/ RecordGreen
    BY <2>5, <2>10
       DEF CommitTestInventory, CommitProductionCode, StoreLesson, UpdateNotes, RecordGreen
  <2>11. CASE EscalationReturns \/ EscalationResets \/ EscalationLeaves \/ EscalationPauses
    BY <2>5, <2>11 DEF EscalationReturns, EscalationResets, EscalationLeaves, EscalationPauses
  <2>12. QED
    BY <2>1, <2>2, <2>3, <2>4, <2>6, <2>7, <2>8, <2>9, <2>10, <2>11
       DEF Next, Speculation, Consolidation, Escalation
<1>3. Spec => [](TInv /\ OwnReference)
  BY <1>1, <1>2, TInvAlways, PTL DEF Spec
<1>4. QED
  BY <1>2, <1>3, PTL DEF Spec, OnlyOwnStashIsDropped

(* While a session works, its escalation has said nothing yet. *)
Escalated ==
    /\ phase \in Nodes \cup DOMAIN Following => payload = NoPayload
    /\ EscalatedWorkIsStashed

(* What was uncommitted when an escalation began off main is in the stash that
   its payload names, whatever fails or dies later. *)
THEOREM EscalatedWorkStays == Spec => []EscalatedWorkIsStashed
<1> USE DEF Escalated, EscalatedWorkIsStashed
<1>0. NoPayload.branch = NoBranch /\ NoPayload.work = {}
  BY DEF NoPayload
<1>1. Init => Escalated
  BY <1>0 DEF Init
<1>2. TInv /\ Escalated /\ [Next]_vars => Escalated'
  <2> SUFFICES ASSUME TInv, Escalated, [Next]_vars PROVE Escalated'
    OBVIOUS
  <2>1. CASE StartSession
    BY <1>0, <2>1 DEF StartSession, Begin
  <2>2. CASE UNCHANGED <<payload, stashes>> /\ (phase' \in Nodes \cup DOMAIN Following
                                                 => phase \in Nodes \cup DOMAIN Following)
    BY <2>2
  <2>3. CASE User_ \/ Crash \/ ChecksFail \/ VerifierRaises \/ ChecksPass \/ UNCHANGED vars
    BY <2>2, <2>3, Phases
       DEF User_, UserEdits, UserChecksOutMain, Crash, ChecksFail,
           VerifierRaises, ChecksPass, vars, Nodes
  <2>4. CASE OracleFails \/ OracleConfirms
    BY <2>2, <2>4 DEF OracleFails, OracleConfirms, Nodes
  <2>5. CASE Actor
    BY <2>2, <2>5, ActorSteps DEF Nodes
  <2>6. CASE Speculation
    <3>1. payload = NoPayload /\ payload' = payload
      BY <2>6 DEF Speculation, Speculate, SpeculateFails, SpeculativeBranchWins,
                  SpeculativeBranchFails, Nodes
    <3>2. QED
      BY <1>0, <3>1
  <2>7. CASE Consolidation
    <3>1. payload = NoPayload /\ payload' = payload
      BY <2>7, Phases
         DEF Consolidation, CommitTestInventory, CommitProductionCode, StoreLesson,
             UpdateNotes, RecordGreen, DropStash
    <3>2. QED
      BY <1>0, <3>1
  <2>8. CASE EscalationReturns \/ EscalationPauses
    BY <2>2, <2>8, Phases DEF EscalationReturns, EscalationPauses, Nodes
  <2>9. CASE EscalationStashes
    <3>1. phase' \notin Nodes \cup DOMAIN Following
      BY <2>9, Phases DEF EscalationStashes, Nodes
    <3>2. CASE UNCHANGED <<payload, stashes>>
      BY <2>2, <3>1, <3>2
    <3>3. CASE phase' = "reset"
      <4>1. /\ ActiveBranch = Main \/ Push("escalation") \/ NothingToStash
            /\ payload' = [branch |-> ActiveBranch, stash |-> Stashed,
                           reset |-> FALSE, work |-> Dirty]
        BY <2>9, <3>3 DEF EscalationStashes
      <4>2. CASE Push("escalation")
        <5> DEFINE entry == [id |-> pushed', by |-> "escalation",
                             session |-> sessions, work |-> Dirty]
        <5>1. entry \in stashes' /\ entry.id = pushed' /\ entry.work = Dirty
          BY <4>2 DEF Push
        <5>2. payload'.stash = pushed' /\ payload'.work = Dirty
          BY <4>1, <4>2, StashIds DEF Stashed, Push
        <5>3. QED
          BY <3>1, <5>1, <5>2
      <4>3. CASE NothingToStash
        BY <3>1, <4>1, <4>3 DEF NothingToStash
      <4>4. CASE ActiveBranch = Main
        BY <3>1, <4>1, <4>4
      <4>5. QED
        BY <4>1, <4>2, <4>3, <4>4
    <3>4. QED
      BY <2>9, <3>2, <3>3 DEF EscalationStashes
  <2>10. CASE EscalationResets \/ EscalationLeaves
    <3>1. phase' \notin Nodes \cup DOMAIN Following /\ stashes' = stashes
      BY <2>10, Phases DEF EscalationResets, EscalationLeaves, Nodes
    <3>2. /\ payload'.branch = payload.branch /\ payload'.stash = payload.stash
          /\ payload'.work = payload.work
      BY <2>10 DEF EscalationResets, EscalationLeaves, TInv, SessionOK, Payloads
    <3>3. QED
      BY <3>1, <3>2
  <2>11. QED
    BY <2>1, <2>3, <2>4, <2>5, <2>6, <2>7, <2>8, <2>9, <2>10 DEF Next, Escalation
<1>3. QED
  BY <1>1, <1>2, TInvAlways, PTL DEF Spec

-----------------------------------------------------------------------------
(* Verified work *)

(* What is committed, staged or recorded as green was verified, and so is the
   whole tree once consolidation may commit it. *)
Vetted ==
    /\ OnlyVerifiedWorkIsCommitted
    /\ index \cap AgentWork \subseteq verified
    /\ \A commit \in green : Content(commit) \cap AgentWork \subseteq verified
    /\ phase \in DOMAIN Following => tree \cap AgentWork \subseteq verified

LEMMA FilesAreNoWork ==
  ASSUME TInv
  PROVE  Tests \notin AgentWork /\ Notes \notin AgentWork
  BY PiecesAssumption DEF Tests, Notes, AgentWork

(* A commit has an actor's diff only if it was in a tree that passed. *)
THEOREM CommitsAreVerified == Spec => []OnlyVerifiedWorkIsCommitted
<1> USE DEF Vetted, OnlyVerifiedWorkIsCommitted
<1>1. Init => Vetted
  BY ContentFacts, Phases DEF Init
<1>2. TInv /\ Vetted /\ [Next]_vars => Vetted'
  <2> SUFFICES ASSUME TInv, Vetted, [Next]_vars PROVE Vetted'
    OBVIOUS
  <2>1. head \in DOMAIN refs /\ Committed = Content(refs[head])
    BY DEF TInv, RepoOK, Committed
  <2>2. CASE User_ \/ StartSession \/ Crash \/ ChecksFail \/ VerifierRaises \/ ChecksPass \/ UNCHANGED vars
    <3>1. UNCHANGED <<refs, index, green>>
      BY <2>2, SessionSteps
    <3>2. /\ verified \subseteq verified'
          /\ phase' \in DOMAIN Following => tree' \cap AgentWork \subseteq verified'
      BY <2>2, Phases
         DEF User_, UserEdits, UserChecksOutMain, StartSession, Begin, Crash,
             ChecksFail, VerifierRaises,
             ChecksPass, vars
    <3>3. QED
      BY <3>1, <3>2
  <2>3. CASE OracleFails \/ OracleConfirms
    <3>1. /\ phase' \notin DOMAIN Following /\ UNCHANGED <<head, green, verified>>
      BY <2>3, Phases DEF OracleFails, OracleConfirms
    <3>2. QED
      BY <2>1, <2>3, <3>1, OracleSteps, FilesAreNoWork
  <2>4. CASE Consolidation
    <3>1. /\ phase \in DOMAIN Following /\ UNCHANGED <<head, verified>>
          /\ green' \subseteq green \cup {refs[head]}
      BY <2>4, Phases
         DEF Consolidation, CommitTestInventory, CommitProductionCode, StoreLesson,
             UpdateNotes, RecordGreen, DropStash
    <3>2. QED
      BY <2>1, <2>4, <3>1, ConsolidationSteps, FilesAreNoWork
  <2>5. CASE Actor
    BY <2>5, ActorSteps, Phases
  <2>6. CASE Speculation
    <3>1. green' \subseteq green
      BY <2>6 DEF Speculation, Speculate, SpeculateFails, SpeculativeBranchWins,
                  SpeculativeBranchFails, Push, NothingToStash
    <3>2. /\ verified \subseteq verified'
          /\ phase' \in DOMAIN Following => phase' = "inventory"
      BY <2>6, Phases
         DEF Speculation, Speculate, SpeculateFails, SpeculativeBranchWins,
             SpeculativeBranchFails
    <3>3. \A b \in DOMAIN refs' : Content(refs'[b]) \cap AgentWork \subseteq verified'
      BY <2>6, <3>2, SpeculationSteps
    <3>4. phase' = "inventory" => tree' = Content(refs'[head']) /\ head' \in DOMAIN refs'
      BY <2>6, SpeculationSteps DEF RepoOK, Dirty, Committed
    <3>5. QED
      BY <2>6, <3>1, <3>2, <3>3, <3>4, SpeculationSteps
  <2>7. CASE Escalation
    <3>1. phase' \notin DOMAIN Following
      BY <2>7, Phases
         DEF Escalation, EscalationReturns, EscalationStashes, EscalationResets,
             EscalationLeaves, EscalationPauses
    <3>2. QED
      BY <2>1, <2>7, <3>1, EscalationSteps
  <2>8. QED
    BY <2>2, <2>3, <2>4, <2>5, <2>6, <2>7 DEF Next
<1>3. QED
  BY <1>1, <1>2, TInvAlways, PTL DEF Spec

-----------------------------------------------------------------------------
(* The green commit *)

(* From the commit of the code on, what consolidation adds is committed before
   HEAD is recorded. *)
Greened ==
    /\ phase \in {"learn", "notes", "record", "drop", "done"} /\ ~failed => Dirty = {}
    /\ phase \in {"drop", "done"} /\ ~failed => green = {refs[head]}

(* BUG-011: when consolidation is over and no command failed, the green commit has
   everything, and nothing is left in the tree that a reset to it would take. *)
THEOREM GreenHasEverything == Spec => []GreenIsComplete
<1> USE DEF Greened
<1>1. Init => Greened
  BY DEF Init
<1>2. TInv /\ Greened /\ [Next]_vars => Greened'
  <2> SUFFICES ASSUME TInv, Greened, [Next]_vars PROVE Greened'
    OBVIOUS
  <2>1. CASE Consolidation
    <3>1. /\ phase \in DOMAIN Following /\ phase' = Following[phase] /\ head' = head
          /\ phase \in {"learn", "notes", "drop"} =>
                 green' = green
          /\ phase = "drop" => refs' = refs
      BY <2>1, Phases
         DEF Consolidation, CommitTestInventory, CommitProductionCode, StoreLesson,
             UpdateNotes, RecordGreen, DropStash
    <3>2. /\ phase' \in {"learn", "notes", "record", "drop", "done"} =>
                 phase = "code" \/ phase \in {"learn", "notes", "record", "drop"}
          /\ phase' \in {"drop", "done"} => phase = "record" \/ phase = "drop"
      BY <3>1, Phases DEF Following
    <3>3. QED
      BY <2>1, <3>1, <3>2, ConsolidationSteps
  <2>2. CASE UNCHANGED vars
    BY <2>2 DEF vars, Dirty, Committed
  <2>3. CASE ~Consolidation /\ Next
    <3>1. phase' \notin {"learn", "notes", "record", "drop", "done"}
      BY <2>3
         DEF Next, User_, UserEdits, UserChecksOutMain, StartSession, Begin, Crash,
             OracleFails, OracleConfirms, Actor, ActorStagnates, ActorBranchTaken,
             ActorNoDiff, ActorApplyFails, ActorApplies, ChecksFail, VerifierRaises,
             ChecksPass,
             Speculation, Speculate, SpeculateFails, SpeculativeBranchWins,
             SpeculativeBranchFails, Escalation, EscalationReturns, EscalationStashes,
             EscalationResets, EscalationLeaves, EscalationPauses
    <3>2. QED
      BY <3>1
  <2>4. QED
    BY <2>1, <2>2, <2>3
<1>3. Greened => GreenIsComplete
  BY DEF GreenIsComplete
<1>4. QED
  BY <1>1, <1>2, <1>3, TInvAlways, PTL DEF Spec

(* What the steps of an escalation leave for the next one; the branch in the
   payload is the one that the reset moves. *)
RollingBack ==
    /\ \A c \in green, d \in green : c = d
    /\ phase = "reset" => payload.branch = head
    /\ phase \in {"leave", "pause", "paused"} /\ ignored /\ ~failed =>
          /\ Dirty = {} /\ payload.branch \in DOMAIN refs
          /\ \A commit \in green : refs[payload.branch] = commit
    /\ phase \in {"pause", "paused"} /\ ignored /\ ~failed => head = Main

LEMMA RollsBack == Spec => []RollingBack
<1> USE DEF RollingBack
<1>1. Init => RollingBack
  BY DEF Init
<1>2. TInv /\ RollingBack /\ [Next]_vars => RollingBack'
  <2> SUFFICES ASSUME TInv, RollingBack, [Next]_vars PROVE RollingBack'
    OBVIOUS
  <2>1. CASE EscalationReturns
    BY <2>1 DEF EscalationReturns
  <2>2. CASE EscalationStashes
    <3>1. green' \subseteq green /\ head' = head /\ phase' \in {"reset", "crashed"}
      BY <2>2, EscalationSteps DEF Escalation, EscalationStashes
    <3>2. phase' = "reset" => payload'.branch = ActiveBranch
      BY <2>2 DEF EscalationStashes
    <3>3. ActiveBranch = head
      BY <2>2 DEF EscalationStashes, ActiveBranch, TInv, Placed, Nodes
    <3>4. QED
      BY <3>1, <3>2, <3>3
  <2>3. CASE EscalationResets
    <3>1. CASE phase' = "leave"
      <4>1. PICK target \in LastGreen :
              /\ refs' = [refs EXCEPT ![head] = target]
              /\ tree' = Content(target)
        BY <2>3, <3>1 DEF EscalationResets, ResetHard
      <4>2. /\ payload'.branch = head /\ head \in DOMAIN refs /\ head' = head
            /\ green' \subseteq green
        BY <2>3, <3>1
           DEF EscalationResets, Clean, TInv, RepoOK, SessionOK, Payloads
      <4>3. refs'[head] = target /\ head \in DOMAIN refs' /\ Dirty' = {}
        BY <4>1, <4>2 DEF Dirty, Committed
      <4>4. \A commit \in green' : target = commit
        BY <4>1, <4>2 DEF LastGreen
      <4>5. QED
        BY <3>1, <4>2, <4>3, <4>4
    <3>2. CASE phase' = "pause"
      <4>1. failed' /\ green' \subseteq green
        BY <2>3, <3>2 DEF EscalationResets, CommandFails, Clean
      <4>2. QED
        BY <3>2, <4>1
    <3>3. QED
      BY <2>3, <3>1, <3>2 DEF EscalationResets
  <2>4. CASE EscalationLeaves
    <3>1. Dirty' = {} \/ failed'
      BY <2>4 DEF EscalationLeaves, CommandFails, CarryTo, Dirty, Committed, TInv, Placed
    <3>2. QED
      BY <2>4, <3>1 DEF EscalationLeaves, CommandFails
  <2>5. CASE EscalationPauses
    BY <2>5 DEF EscalationPauses, Dirty, Committed
  <2>6. CASE UNCHANGED vars
    BY <2>6 DEF vars, Dirty, Committed
  <2>7. CASE ~Escalation /\ Next
    <3>1. phase' \notin {"reset", "leave", "pause", "paused"}
      <4>1. CASE Consolidation
        <5>1. /\ phase \in {"inventory", "code", "learn", "notes", "record", "drop"}
              /\ phase' = Following[phase]
          BY <4>1 DEF Consolidation, CommitTestInventory, CommitProductionCode,
                      StoreLesson, UpdateNotes, RecordGreen, DropStash
        <5>2. QED
          BY <5>1 DEF Following
      <4>2. CASE ~Consolidation
        BY <2>7, <4>2
           DEF Next, User_, UserEdits, UserChecksOutMain, StartSession, Begin, Crash,
               OracleFails, OracleConfirms, Actor, ActorStagnates, ActorBranchTaken,
               ActorNoDiff, ActorApplyFails, ActorApplies, ChecksFail,
               VerifierRaises, ChecksPass,
               Speculation, Speculate, SpeculateFails, SpeculativeBranchWins,
               SpeculativeBranchFails
      <4>3. QED
        BY <4>1, <4>2
    <3>2. green' \subseteq green \/ green' = {refs[head]}
      BY <2>7
         DEF Next, User_, UserEdits, UserChecksOutMain, StartSession, Begin, Crash,
             OracleFails, OracleConfirms, Actor, ActorStagnates, ActorBranchTaken,
             ActorNoDiff, ActorApplyFails, ActorApplies, Apply, ChecksFail,
             VerifierRaises, ChecksPass,
             Speculation, Speculate, SpeculateFails, SpeculativeBranchWins,
             SpeculativeBranchFails, Consolidation, CommitTestInventory,
             CommitProductionCode, StoreLesson, UpdateNotes, RecordGreen, DropStash,
             Push, NothingToStash
    <3>3. QED
      BY <3>1, <3>2
  <2>8. QED
    BY <2>1, <2>2, <2>3, <2>4, <2>5, <2>6, <2>7 DEF Escalation
<1>3. QED
  BY <1>1, <1>2, TInvAlways, PTL DEF Spec

(* When a session pauses and no command failed, main is checked out and clean and
   the session's branch is at the green commit; where .workflow/ is ignored. *)
THEOREM EscalationReturnsToGreen == Spec => []EscalationRollsBack
<1>1. RollingBack => EscalationRollsBack
  BY DEF RollingBack, EscalationRollsBack
<1>2. QED
  BY <1>1, RollsBack, PTL

(* A strategy's branch stands beside the first branch of the actor, so a task
   that has one never comes to speculate again; until a session does, the green
   commit is on another branch than the one it would delete. *)
Rooted ==
    /\ \A t \in Tasks : <<t, MaxCycles>> \in DOMAIN refs => <<t, 0>> \in DOMAIN refs
    /\ phase = "tdd_gate" => attempt = 0 /\ branch = NoBranch
    /\ phase = "actor" /\ attempt = 0 => branch = NoBranch
    /\ phase \in {"checks", "speculate", "evaluate"} => attempt > 0
    /\ phase \in {"actor", "checks", "speculate", "evaluate"} /\ attempt > 0 =>
          /\ <<task, 0>> \in DOMAIN refs
          /\ \A commit \in green : \E b \in DOMAIN refs :
                b # StrategyBranch /\ IsPrefix(commit, refs[b])

LEMMA PrefixIsTransitive ==
  ASSUME NEW c \in Commits, NEW d \in Commits, NEW e \in Commits,
         IsPrefix(c, d), IsPrefix(d, e)
  PROVE  IsPrefix(c, e)
  BY DEF Commits, IsPrefix

(* reset_hard finds the commit of green-sha: through resets, forced deletions and
   switches it stays in the history of a branch. *)
THEOREM GreenIsReachable == Spec => []GreenStaysOnABranch
<1>1. Init => Rooted /\ GreenStaysOnABranch
  BY DEF Init, Rooted, GreenStaysOnABranch, Main
<1>2. TInv /\ RollingBack /\ Rooted /\ GreenStaysOnABranch /\ [Next]_vars
        => Rooted' /\ GreenStaysOnABranch'
  <2> SUFFICES ASSUME TInv, RollingBack, Rooted, GreenStaysOnABranch, [Next]_vars
               PROVE  Rooted' /\ GreenStaysOnABranch'
    OBVIOUS
  <2>0. RepoOK /\ RepoOK' /\ head \in DOMAIN refs
    BY TInvNext DEF TInv, RepoOK
  <2>1. CASE \/ User_ \/ StartSession \/ Crash \/ ChecksFail \/ VerifierRaises \/ ChecksPass
             \/ UNCHANGED vars
    <3>1. UNCHANGED <<refs, green>>
      BY <2>1, SessionSteps
    <3>2. /\ phase' = "tdd_gate" => attempt' = 0 /\ branch' = NoBranch
          /\ phase' \in {"actor", "checks", "speculate", "evaluate"} =>
                /\ phase \in {"actor", "checks", "speculate", "evaluate"}
                /\ UNCHANGED <<task, branch>>
                /\ \/ UNCHANGED attempt /\ (phase = "checks" \/ phase = phase')
                   \/ phase = "checks" /\ phase' = "speculate" /\ attempt' > 0
      BY <2>1
         DEF User_, UserEdits, UserChecksOutMain, StartSession, Begin, Crash,
             ChecksFail, VerifierRaises,
             ChecksPass, vars, Rooted
    <3>3. GreenStaysOnABranch'
      BY <3>1 DEF GreenStaysOnABranch
    <3>4. Rooted'
      BY <3>1, <3>2 DEF Rooted, StrategyBranch
    <3>5. QED
      BY <3>3, <3>4
  <2>2. CASE OracleFails \/ OracleConfirms \/ Consolidation
    <3>1. /\ DOMAIN refs' = DOMAIN refs
          /\ \A b \in DOMAIN refs : b # head => refs'[b] = refs[b]
          /\ IsPrefix(refs[head], refs'[head]) /\ head' = head
      BY <2>2, OracleSteps, ConsolidationSteps
         DEF OracleFails, OracleConfirms, Consolidation, CommitTestInventory,
             CommitProductionCode, StoreLesson, UpdateNotes, RecordGreen, DropStash
    <3>2. green' = green \/ green' = {refs'[head]}
      BY <2>2
         DEF OracleFails, OracleConfirms, Consolidation, CommitTestInventory,
             CommitProductionCode, StoreLesson, UpdateNotes, RecordGreen, DropStash
    <3>3. IsPrefix(refs'[head], refs'[head])
      BY <2>0, <3>1, ContentFacts DEF RepoOK
    <3>4. \A commit \in green, b \in DOMAIN refs :
             IsPrefix(commit, refs[b]) => IsPrefix(commit, refs'[b])
      BY <2>0, <3>1, PrefixIsTransitive DEF RepoOK
    <3>5. GreenStaysOnABranch'
      BY <2>0, <3>1, <3>2, <3>3, <3>4 DEF GreenStaysOnABranch
    <3>6. /\ phase' = "tdd_gate" => phase = "tdd_gate"
          /\ phase' \in {"actor", "checks", "speculate", "evaluate"} =>
               phase = "tdd_gate" /\ phase' = "actor"
          /\ UNCHANGED <<attempt, branch, task>>
      <4>1. CASE OracleFails \/ OracleConfirms
        BY <4>1 DEF OracleFails, OracleConfirms
      <4>2. CASE Consolidation
        <5>1. /\ phase \in {"inventory", "code", "learn", "notes", "record", "drop"}
              /\ phase' = Following[phase] /\ UNCHANGED <<attempt, branch, task>>
          BY <4>2 DEF Consolidation, CommitTestInventory, CommitProductionCode,
                      StoreLesson, UpdateNotes, RecordGreen, DropStash
        <5>2. QED
          BY <5>1 DEF Following
      <4>3. QED
        BY <2>2, <4>1, <4>2
    <3>7. Rooted'
      BY <3>1, <3>6 DEF Rooted
    <3>8. QED
      BY <3>5, <3>7
  <2>3. CASE Actor
    <3>1. /\ \A b \in DOMAIN refs : b \in DOMAIN refs' /\ refs'[b] = refs[b]
          /\ phase = "actor" /\ phase' \in {"crashed", "actor", "escalate", "checks"}
          /\ UNCHANGED <<green, task>>
      BY <2>3, ActorSteps
    <3>2. GreenStaysOnABranch'
      BY <3>1 DEF GreenStaysOnABranch
    <3>3. CASE phase' \in {"crashed", "escalate"} /\ DOMAIN refs' = DOMAIN refs
      BY <3>1, <3>2, <3>3 DEF Rooted
    <3>4. CASE attempt < MaxCycles /\ Branched
      <4>1. attempt \in Nat /\ MaxCycles \in Nat
        BY LimitsAssumption DEF TInv, SessionOK
      <4>2. \A t \in Tasks : <<t, MaxCycles>> # Attempts
        BY <3>4, <4>1 DEF Attempts
      <4>3. DOMAIN refs' \subseteq DOMAIN refs \cup {Attempts}
        BY <3>4 DEF Branched
      <4>4. \A t \in Tasks : <<t, MaxCycles>> \in DOMAIN refs' => <<t, 0>> \in DOMAIN refs'
        BY <3>1, <4>2, <4>3 DEF Rooted
      <4>5. attempt = 0 =>
              /\ <<task, 0>> \in DOMAIN refs' /\ StrategyBranch \notin DOMAIN refs
        <5>1. SUFFICES ASSUME attempt = 0
                       PROVE  /\ <<task, 0>> \in DOMAIN refs'
                              /\ StrategyBranch \notin DOMAIN refs
          OBVIOUS
        <5>2. branch = NoBranch /\ task \in Tasks
          BY <3>1, <5>1 DEF Rooted, TInv, SessionOK
        <5>3. Attempts = <<task, 0>> /\ Attempts \notin DOMAIN refs /\ Attempts \in DOMAIN refs'
          BY <3>4, <5>1, <5>2 DEF Branched, HasBranch, Attempts
        <5>4. QED
          BY <5>2, <5>3 DEF Rooted, StrategyBranch
      <4>6. /\ <<task, 0>> \in DOMAIN refs'
            /\ \A commit \in green : \E b \in DOMAIN refs' :
                  b # StrategyBranch /\ IsPrefix(commit, refs'[b])
        <5>1. CASE attempt = 0
          BY <3>1, <4>5, <5>1 DEF GreenStaysOnABranch
        <5>2. CASE attempt > 0
          BY <3>1, <5>2 DEF Rooted
        <5>3. QED
          BY <4>1, <5>1, <5>2
      <4>7. StrategyBranch' = StrategyBranch
        BY <3>1 DEF StrategyBranch
      <4>8. /\ phase' = "actor" /\ attempt' = 0 => branch' = NoBranch
            /\ phase' = "checks" => attempt' > 0
        BY <2>3, <3>1, <4>1
           DEF Actor, ActorStagnates, ActorBranchTaken, ActorNoDiff, ActorApplyFails,
               ActorApplies, Apply, Rooted
      <4>9. Rooted'
        BY <3>1, <4>4, <4>6, <4>7, <4>8 DEF Rooted
      <4>10. QED
        BY <3>2, <4>9
    <3>5. QED
      BY <2>3, <3>2, <3>3, <3>4
         DEF Actor, ActorStagnates, ActorBranchTaken, ActorNoDiff, ActorApplyFails,
             ActorApplies, Apply
  <2>4. CASE Speculate \/ SpeculateFails
    <3>1. /\ UNCHANGED <<refs, attempt, branch, task>> /\ green' \subseteq green
          /\ phase = "speculate" /\ phase' \in {"evaluate", "crashed"}
      BY <2>4 DEF Speculate, SpeculateFails, Push, NothingToStash
    <3>2. GreenStaysOnABranch'
      BY <3>1 DEF GreenStaysOnABranch
    <3>3. Rooted'
      BY <3>1 DEF Rooted, StrategyBranch
    <3>4. QED
      BY <3>2, <3>3
  <2>5. CASE SpeculativeBranchWins \/ SpeculativeBranchFails
    <3>1. /\ phase = "evaluate" /\ attempt > 0 /\ green' = green /\ task \in Tasks
          /\ <<task, 0>> \in DOMAIN refs
          /\ \A commit \in green : \E b \in DOMAIN refs :
                b # StrategyBranch /\ IsPrefix(commit, refs[b])
      BY <2>5 DEF SpeculativeBranchWins, SpeculativeBranchFails, Rooted, TInv, SessionOK
    <3>2. branch = NoBranch \/ branch = head
      BY <3>1 DEF TInv, Placed, Nodes
    <3>3. NoBranch \notin DOMAIN refs
      BY Names DEF TInv, RepoOK
    <3>4. /\ DOMAIN refs \ {StrategyBranch} \subseteq DOMAIN refs'
          /\ DOMAIN refs' \subseteq DOMAIN refs \cup {StrategyBranch}
          /\ \A b \in DOMAIN refs : b # StrategyBranch => refs'[b] = refs[b]
      BY <2>5, <3>2, <3>3 DEF SpeculativeBranchWins, SpeculativeBranchFails
    <3>5. GreenStaysOnABranch'
      BY <3>1, <3>4 DEF GreenStaysOnABranch
    <3>6. \A t \in Tasks : <<t, MaxCycles>> \in DOMAIN refs' => <<t, 0>> \in DOMAIN refs'
      BY <3>1, <3>4 DEF Rooted, StrategyBranch
    <3>7. /\ phase' \in {"inventory", "crashed", "tdd_gate", "escalate"}
          /\ phase' = "tdd_gate" => attempt' = 0 /\ branch' = NoBranch
      BY <2>5 DEF SpeculativeBranchWins, SpeculativeBranchFails
    <3>8. Rooted'
      BY <3>6, <3>7 DEF Rooted
    <3>9. QED
      BY <3>5, <3>8
  <2>6. CASE Escalation
    <3>1. /\ DOMAIN refs' = DOMAIN refs
          /\ \A b \in DOMAIN refs : b # head => refs'[b] = refs[b]
          /\ refs'[head] \in {refs[head]} \cup green
          /\ green' \subseteq green /\ phase' \notin Nodes
      BY <2>6, EscalationSteps
    <3>2. \A c \in green, d \in green : c = d
      BY DEF RollingBack
    <3>3. \A commit \in green : IsPrefix(commit, commit)
      BY <2>0, ContentFacts DEF RepoOK
    <3>4. GreenStaysOnABranch'
      <4>1. CASE refs'[head] = refs[head]
        BY <3>1, <4>1 DEF GreenStaysOnABranch
      <4>2. CASE refs'[head] \in green
        BY <2>0, <3>1, <3>2, <3>3, <4>2 DEF GreenStaysOnABranch
      <4>3. QED
        BY <3>1, <4>1, <4>2
    <3>5. Rooted'
      BY <3>1 DEF Rooted, Nodes
    <3>6. QED
      BY <3>4, <3>5
  <2>7. QED
    BY <2>1, <2>2, <2>3, <2>4, <2>5, <2>6 DEF Next, Speculation
<1>3. QED
  BY <1>1, <1>2, RollsBack, TInvAlways, PTL DEF Spec
-----------------------------------------------------------------------------
(* The graph *)

(* What is checked was patched, on a branch. *)
NamedAtChecks == phase = "checks" => branch # NoBranch

LEMMA GitNodes ==
    /\ phase \in Rest => GitNode = "out"
    /\ phase \in DOMAIN Following => GitNode = "consolidate"
    /\ phase \in InEscalation => GitNode = "escalate"
    /\ phase = "evaluate" => GitNode = "speculate"
    /\ phase \in Nodes \ {"evaluate"} => GitNode = phase
BY Phases DEF GitNode, Rest, InEscalation, Nodes

LEMMA LaterGitNodes ==
    /\ phase' \in Rest => GitNode' = "out"
    /\ phase' \in DOMAIN Following => GitNode' = "consolidate"
    /\ phase' \in InEscalation => GitNode' = "escalate"
    /\ phase' = "evaluate" => GitNode' = "speculate"
    /\ phase' \in Nodes \ {"evaluate"} => GitNode' = phase'
BY Phases DEF GitNode, Rest, InEscalation, Nodes

LEMMA Inside ==
    ASSUME phase \in Rest \cup Nodes \cup InEscalation \cup DOMAIN Following
    PROVE  InRepository <=> GitNode # "out"
BY GitNodes, Phases DEF InRepository, Nodes, InEscalation, Rest

LEMMA OutsideStutters ==
    ASSUME phase \in Rest, phase' \in Rest
    PROVE  UNCHANGED Graph!vars
BY GitNodes, LaterGitNodes DEF InRepository, Graph!vars, Graph!correction

LEMMA LeavesRepository ==
    ASSUME phase \in Nodes \cup InEscalation \cup DOMAIN Following, phase' \in Rest
    PROVE  Graph!Leave
<1>1. GitNode # "out" /\ GitNode' = "out" /\ ~InRepository'
  BY GitNodes, LaterGitNodes, Phases DEF InRepository, Nodes, InEscalation, Rest
<1>2. QED BY <1>1 DEF Graph!Leave

(* A command inside a node, or a step to the next part of it. *)
LEMMA PlaceStutters ==
    ASSUME GitNode' = GitNode, InRepository <=> InRepository',
           UNCHANGED <<attempt, branch, replans>>
    PROVE  UNCHANGED Graph!vars
BY DEF Graph!vars, Graph!correction

LEMMA ActorGraphStep ==
    ASSUME TInv, Actor
    PROVE  Graph!Next /\ NamedAtChecks'
<1> USE DEF Graph!Next, Graph!correction
<1>0. phase = "actor" /\ GitNode = "actor" /\ InRepository
  BY GitNodes DEF Actor, ActorStagnates, ActorBranchTaken, ActorNoDiff,
     ActorApplyFails, ActorApplies, Apply, Nodes, InRepository, Rest
<1>1. ASSUME phase' \in {"actor", "escalate", "checks"}
      PROVE  GitNode' = phase' /\ InRepository'
  BY <1>1, LaterGitNodes DEF Nodes, InRepository, Rest
<1>2. CASE ActorStagnates
  <2>1. /\ phase' = "escalate" /\ attempt' = MaxCycles
        /\ UNCHANGED <<branch, replans>>
    BY <1>2 DEF ActorStagnates, ActorFrame, session
  <2>2. QED BY <1>0, <1>1, <2>1 DEF Graph!ActorStagnates, NamedAtChecks
<1>3. CASE ActorBranchTaken
  <2>1. phase' \in Rest /\ phase' # "checks"
    BY <1>3 DEF ActorBranchTaken, Rest
  <2>2. QED BY <1>0, <2>1, LeavesRepository DEF Nodes, NamedAtChecks
<1>4. CASE ActorNoDiff
  <2>1. /\ attempt < MaxCycles /\ attempt' \in {attempt, attempt + 1}
        /\ phase' \in {"actor", "escalate"} /\ UNCHANGED <<branch, replans>>
    BY <1>4 DEF ActorNoDiff, ActorFrame, session
  <2>2. QED BY <1>0, <1>1, <2>1 DEF Graph!ActorNoDiff, NamedAtChecks
<1>5. CASE ActorApplyFails \/ ActorApplies
  <2>1. /\ attempt < MaxCycles /\ attempt' = attempt + 1 /\ UNCHANGED replans
        /\ phase' \in {"actor", "escalate", "checks"}
        /\ branch' = head' /\ Branched
    BY <1>5 DEF ActorApplyFails, ActorApplies, Apply, ActorFrame, session
  <2>2. branch' # NoBranch
    <3>1. task \in Tasks /\ attempt \in 0..MaxCycles
      BY <2>1 DEF TInv, SessionOK
    <3>2. Attempts # NoBranch
      BY <3>1, Names DEF Attempts
    <3>3. QED BY <2>1, <3>2 DEF Branched, HasBranch
  <2>3. QED BY <1>0, <1>1, <2>1, <2>2 DEF Graph!ActorPatches, NamedAtChecks
<1>6. QED BY <1>2, <1>3, <1>4, <1>5 DEF Actor

LEMMA CheckedGraphStep ==
    ASSUME TInv, NamedAtChecks, ChecksFail \/ VerifierRaises \/ ChecksPass
    PROVE  Graph!Next /\ NamedAtChecks'
<1> USE DEF Graph!Next, Graph!correction
<1>1. /\ phase = "checks" /\ GitNode = "checks" /\ InRepository
      /\ branch # NoBranch /\ UNCHANGED <<branch, replans>>
  BY GitNodes DEF ChecksFail, VerifierRaises, ChecksPass, ChecksFrame, NamedAtChecks,
     correction, session, Nodes, InRepository, Rest
<1>2. /\ phase' \in {"actor", "escalate", "speculate"}
            => GitNode' = phase' /\ InRepository'
      /\ phase' = "inventory" => GitNode' = "consolidate" /\ InRepository'
  BY LaterGitNodes, Phases DEF Nodes, InRepository, Rest
<1>3. CASE ChecksFail \/ ChecksPass
  <2>1. /\ UNCHANGED attempt
        /\ \/ phase' \in {"actor", "escalate", "inventory"}
           \/ attempt \in 2..(MaxCycles - 1) /\ phase' = "speculate"
    BY <1>3 DEF ChecksFail, ChecksPass, ChecksFrame, correction
  <2>2. QED
    BY <1>1, <1>2, <2>1 DEF Graph!Checks, Graph!Speculates, NamedAtChecks
<1>4. CASE VerifierRaises
  <2>1. /\ attempt' = attempt + 1
        /\ \/ phase' = "escalate"
           \/ attempt' \in 2..(MaxCycles - 1) /\ phase' = "speculate"
    BY <1>4 DEF VerifierRaises
  <2>2. QED
    BY <1>1, <1>2, <2>1 DEF Graph!VerifierRaises, Graph!Speculates, NamedAtChecks
<1>5. QED BY <1>3, <1>4

LEMMA SpeculationGraphStep ==
    ASSUME TInv, Speculation
    PROVE  (Graph!Next \/ UNCHANGED Graph!vars) /\ NamedAtChecks'
<1> USE DEF Graph!Next, Graph!correction
<1>0. phase \in {"speculate", "evaluate"} /\ GitNode = "speculate" /\ InRepository
  BY GitNodes DEF Speculation, Speculate, SpeculateFails, SpeculativeBranchWins,
     SpeculativeBranchFails, Nodes, InRepository, Rest
<1>1. CASE Speculate
  <2>1. phase' = "evaluate" /\ UNCHANGED <<attempt, branch, replans>>
    BY <1>1 DEF Speculate, correction
  <2>2. GitNode' = "speculate" /\ InRepository'
    BY <2>1, LaterGitNodes DEF InRepository, Rest
  <2>3. QED BY <1>0, <2>1, <2>2, PlaceStutters DEF NamedAtChecks
<1>2. CASE phase' = "crashed"
  BY <1>0, <1>2, LeavesRepository DEF Nodes, Rest, NamedAtChecks
<1>3. CASE SpeculativeBranchWins /\ phase' # "crashed"
  <2>1. phase' = "inventory" /\ UNCHANGED <<attempt, branch, replans>>
    BY <1>3 DEF SpeculativeBranchWins, correction
  <2>2. GitNode' = "consolidate" /\ InRepository'
    BY <2>1, LaterGitNodes, Phases DEF InRepository, Rest
  <2>3. QED BY <1>0, <2>1, <2>2 DEF Graph!SpeculativeBranch, NamedAtChecks
<1>4. CASE SpeculativeBranchFails
  <2>1. /\ phase' \in {"tdd_gate", "escalate"}
        /\ \/ /\ replans < MaxReplan /\ replans' = replans + 1
              /\ attempt' = 0 /\ branch' = NoBranch
           \/ /\ replans = MaxReplan /\ phase' = "escalate"
              /\ UNCHANGED <<attempt, branch, replans>>
    BY <1>4 DEF SpeculativeBranchFails, correction
  <2>2. GitNode' = phase' /\ InRepository'
    BY <2>1, LaterGitNodes DEF InRepository, Rest, Nodes
  <2>3. QED BY <1>0, <2>1, <2>2 DEF Graph!SpeculativeBranch, NamedAtChecks
<1>5. QED
  BY <1>1, <1>2, <1>3, <1>4 DEF Speculation, SpeculateFails

(* Each command is a step of the graph or inside of one of its nodes. *)
LEMMA NextTakesGraphStep ==
    ASSUME TInv, NamedAtChecks, [Next]_vars
    PROVE  (Graph!Next \/ UNCHANGED Graph!vars) /\ NamedAtChecks'
<1> USE DEF Graph!Next, Graph!correction
<1>0. phase \in Rest \cup Nodes \cup InEscalation \cup DOMAIN Following
  BY DEF TInv, SessionOK
<1>1. CASE User_
  <2>1. phase \in Rest /\ phase' = "start"
    BY <1>1 DEF User_, UserEdits, UserChecksOutMain, UserFrame, BetweenSessions
  <2>2. QED BY <2>1, OutsideStutters DEF Rest, NamedAtChecks
<1>2. CASE StartSession
  <2>1. /\ phase \in Rest /\ phase' \in {"tdd_gate", "escalate"}
        /\ attempt' = 0 /\ branch' = NoBranch /\ replans' = 0
    BY <1>2 DEF StartSession, Begin, BetweenSessions
  <2>2. GitNode = "out" /\ ~InRepository /\ GitNode' = phase'
    BY <2>1, GitNodes, LaterGitNodes DEF InRepository, Nodes
  <2>3. QED BY <2>1, <2>2 DEF Graph!Begin, NamedAtChecks
<1>3. CASE Crash
  BY <1>0, <1>3, LeavesRepository DEF Crash, Rest, NamedAtChecks
<1>4. CASE OracleFails \/ OracleConfirms
  <2>1. /\ phase = "tdd_gate" /\ phase' \in {"tdd_gate", "actor", "escalate"}
        /\ UNCHANGED <<attempt, branch, replans>>
    BY <1>4 DEF OracleFails, OracleConfirms, OracleFrame, correction, session
  <2>2. GitNode = phase /\ InRepository /\ GitNode' = phase' /\ InRepository'
    BY <2>1, GitNodes, LaterGitNodes DEF InRepository, Nodes, Rest
  <2>3. QED BY <2>1, <2>2 DEF Graph!Oracle, NamedAtChecks
<1>5. CASE Actor
  BY <1>5, ActorGraphStep
<1>6. CASE ChecksFail \/ VerifierRaises \/ ChecksPass
  BY <1>6, CheckedGraphStep
<1>7. CASE Speculation
  BY <1>7, SpeculationGraphStep
<1>8. CASE Consolidation
  <2>1. /\ phase \in DOMAIN Following /\ UNCHANGED <<attempt, branch, replans>>
        /\ phase' \in DOMAIN Following \cup {"done"}
    BY <1>8, Phases DEF Consolidation, CommitTestInventory, CommitProductionCode,
       StoreLesson, UpdateNotes, RecordGreen, DropStash, Consolidates, Following,
       correction, session
  <2>2. CASE phase' = "done"
    BY <2>1, <2>2, LeavesRepository DEF Rest, NamedAtChecks
  <2>3. CASE phase' \in DOMAIN Following
    <3>1. /\ GitNode = "consolidate" /\ GitNode' = "consolidate"
          /\ InRepository /\ InRepository' /\ phase' # "checks"
      BY <2>1, <2>3, GitNodes, LaterGitNodes, Phases DEF InRepository, Rest
    <3>2. QED BY <2>1, <3>1, PlaceStutters DEF NamedAtChecks
  <2>4. QED BY <2>1, <2>2, <2>3
<1>9. CASE Escalation
  <2>1. /\ phase \in {"escalate"} \cup InEscalation
        /\ UNCHANGED <<attempt, branch, replans>>
        /\ phase' \in InEscalation \cup {"ended", "paused", "crashed"}
    BY <1>9 DEF Escalation, EscalationReturns, EscalationStashes, EscalationResets,
       EscalationLeaves, EscalationPauses, EscalationFrame, InEscalation,
       correction, session
  <2>2. CASE phase' \in {"ended", "paused", "crashed"}
    BY <2>1, <2>2, LeavesRepository DEF Rest, Nodes, NamedAtChecks
  <2>3. CASE phase' \in InEscalation
    <3>1. /\ GitNode = "escalate" /\ GitNode' = "escalate"
          /\ InRepository /\ InRepository' /\ phase' # "checks"
      BY <2>1, <2>3, GitNodes, LaterGitNodes DEF InRepository, Rest, Nodes,
         InEscalation
    <3>2. QED BY <2>1, <3>1, PlaceStutters DEF NamedAtChecks
  <2>4. QED BY <2>1, <2>2, <2>3
<1>10. CASE UNCHANGED vars
  BY <1>10 DEF vars, correction, session, GitNode, InRepository, Graph!vars,
     NamedAtChecks
<1>11. QED
  BY <1>1, <1>2, <1>3, <1>4, <1>5, <1>6, <1>7, <1>8, <1>9, <1>10 DEF Next

(* The sessions of the repository take the steps of GitGraph and no others, as
   those of SACVWorkflow do. *)
THEOREM RepositoryFollowsGitGraph == Spec => FollowsGitGraph
<1>1. Init => NamedAtChecks /\ Graph!Init
  BY DEF Init, NamedAtChecks, Graph!Init, GitNode, InRepository, Rest
<1>2. TInv /\ NamedAtChecks /\ [Next]_vars => [Graph!Next]_Graph!vars /\ NamedAtChecks'
  BY NextTakesGraphStep
<1>3. QED
  BY <1>1, <1>2, TInvAlways, PTL DEF Spec, FollowsGitGraph, Graph!Spec
=============================================================================
