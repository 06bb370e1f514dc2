---------------------------- MODULE GitWorkspace ----------------------------
(***************************************************************************)
(* What sessions do to the git repository they work in: the oracle commits *)
(* tests, the actor makes branches and patches the tree, speculation       *)
(* stashes and switches branches, consolidation commits and records the    *)
(* green commit, escalation stashes, resets and goes back to main.         *)
(* Sessions of several tasks follow each other in one repository, in which *)
(* the user works too; each may die between any two git commands.          *)
(*                                                                         *)
(* A commit is the sequence of the changes that its history adds, one set  *)
(* of changes for each commit; a tree is the set of changes in the files.  *)
(* SACVWorkflow has the decisions of the graph and SpeculativeBranch the   *)
(* worktrees: here a node decides whatever its edges allow.                *)
(***************************************************************************)
EXTENDS Integers, SequencesExt

CONSTANTS
    Tasks,          \* task ids, which differ in their first eight characters
    User,           \* author of what the agents did not write
    Pieces,         \* the diffs that an actor may propose
    MaxCycles,      \* max_self_correction_cycles
    MaxReplan,      \* max_replan_attempts
    GitFails,       \* TRUE: a git command may fail (lock, hook, disk)
    Unparsable,     \* bound: attempts at which the answer may be unusable
    MaxSessions     \* bound: sessions in this repository

ASSUME AuthorsAssumption == User \notin Tasks
ASSUME PiecesAssumption == {"tests", "notes"} \cap Pieces = {}
ASSUME LimitsAssumption == MaxCycles \in Nat /\ MaxReplan \in Nat
ASSUME SessionsAssumption == MaxSessions \in Nat
ASSUME GitFailsAssumption == GitFails \in BOOLEAN

VARIABLES
    ignored,    \* the repository ignores .workflow/
    head,       \* branch that is checked out
    refs,       \* commit of each branch
    tree,       \* changes in the working tree
    index,      \* changes staged for the next commit
    stashes,    \* entries of git stash
    pushed,     \* number of entries ever made, their SHAs
    green,      \* the commit in .workflow/green-sha, if there is the file
    markers,    \* tasks with an escalation marker in .workflow/escalations
    sessions,   \* number of the current session
    task,       \* its task
    phase,      \* the node that it runs next, or a step inside one
    attempt,    \* correction_state.attempt_count
    branch,     \* correction_state.branch_name, NoBranch for None
    replans,    \* replan_count
    specStash,  \* speculative_stash_ref, NoStash for None and ""
    payload,    \* git_state of the last escalation
    verified,   \* history: changes that were in a tree that passed
    failed      \* history: a git command failed and the node went on

repo == <<head, refs, tree, index>>
files == <<green, markers>>
stash == <<stashes, pushed>>
correction == <<attempt, branch>>
session == <<sessions, task, replans, specStash>>
vars == <<ignored, repo, files, stash, correction, session, phase, payload,
          verified, failed>>

-----------------------------------------------------------------------------
(* Values *)

NoStash == 0
Main == <<User, 0>>
NoBranch == <<User, 1>>
StrategyBranch == <<task, MaxCycles>>
Branches == {Main} \cup (Tasks \X (0..MaxCycles))

Tests == <<task, "tests">>
Notes == <<task, "notes">>      \* AGENTS.md and the rules of the architecture
Patches == {task} \X Pieces
UserWork == <<User, "work">>
Changes == {UserWork} \cup (Tasks \X (Pieces \cup {"tests", "notes"}))
AgentWork == Tasks \X Pieces
Commits == Seq(SUBSET Changes)

(* git_state; `work' is history *)
NoPayload == [branch |-> NoBranch, stash |-> NoStash, reset |-> FALSE, work |-> {}]

Content(commit) == UNION ToSet(commit)
Committed == Content(refs[head])
Dirty == tree \ Committed

FollowingOfBug011 ==    \* mutation
    [inventory |-> "code", code |-> "record", record |-> "learn",
     learn |-> "notes", notes |-> "drop", drop |-> "done"]

(* The steps of memory_consolidation *)
Following == [inventory |-> "code", code |-> "learn", learn |-> "notes",
              notes |-> "record", record |-> "drop", drop |-> "done"]

Rest == {"start", "done", "ended", "paused", "crashed"}
InEscalation == {"reset", "leave", "pause"}
Nodes == {"tdd_gate", "actor", "checks", "speculate", "evaluate", "escalate"}

Init ==
    /\ ignored \in BOOLEAN
    /\ head = Main /\ refs = [b \in {Main} |-> << >>]
    /\ tree = {} /\ index = {}
    /\ stashes = {} /\ pushed = 0
    /\ green = {} /\ markers = {}
    /\ sessions = 0 /\ task \in Tasks /\ phase = "start"
    /\ attempt = 0 /\ branch = NoBranch /\ replans = 0 /\ specStash = NoStash
    /\ payload = NoPayload
    /\ verified = {} /\ failed = FALSE

-----------------------------------------------------------------------------
(* Git commands, as BranchManager runs them *)

(* A failure that the node survives.  Bound: there is one in the life of the
   repository. *)
CommandFails ==
    /\ GitFails /\ ~failed
    /\ failed' = TRUE

(* git commit of what is staged; that there is nothing is an error too, which
   all callers only log. *)
Commit(staged) ==
    \/ /\ staged # {}
       /\ refs' = [refs EXCEPT ![head] = Append(@, staged)]
       /\ index' = {}
       /\ UNCHANGED failed
    \/ /\ staged = {}
       /\ UNCHANGED <<refs, index, failed>>
    \/ /\ staged # {} /\ index' = staged
       /\ CommandFails
       /\ UNCHANGED refs

(* git stash push -u.  An untracked .workflow/ goes into the stash, and alone
   it may be enough for one. *)
Push(by) ==
    /\ \/ Dirty # {}
       \/ ~ignored
    /\ pushed' = pushed + 1
    /\ stashes' = stashes \cup
           {[id |-> pushed', by |-> by, session |-> sessions, work |-> Dirty]}
    /\ tree' = Committed /\ index' = {}
    /\ IF ignored THEN UNCHANGED files ELSE green' = {} /\ markers' = {}

NothingToStash ==
    /\ Dirty = {}
    /\ UNCHANGED <<stash, tree, index, files>>

Stashed == IF pushed' # pushed THEN pushed' ELSE NoStash

(* git checkout takes what is uncommitted along. *)
CarryTo(commit) == Dirty \cup Content(commit)

-----------------------------------------------------------------------------
(* Between sessions *)

(* Bounds: what happens after the last session is left out, and the user has one
   piece of uncommitted work. *)
BetweenSessions == phase \in Rest /\ sessions < MaxSessions

UserFrame ==
    /\ phase' = "start"
    /\ UNCHANGED <<ignored, refs, index, files, stash, correction, session, payload,
                   verified, failed>>

UserEdits ==
    /\ BetweenSessions
    /\ \A b \in DOMAIN refs : UserWork \notin Content(refs[b])
    /\ \A e \in stashes : UserWork \notin e.work
    /\ tree' = tree \cup {UserWork}
    /\ UNCHANGED head /\ UserFrame

UserChecksOutMain ==
    /\ BetweenSessions /\ Dirty = {} /\ head # Main
    /\ head' = Main /\ tree' = Content(refs[Main])
    /\ UserFrame

Begin(t, ref) ==
    /\ BetweenSessions
    /\ sessions' = sessions + 1 /\ task' = t
    /\ attempt' = 0 /\ branch' = NoBranch /\ replans' = 0 /\ specStash' = ref
    /\ phase' \in {"tdd_gate", "escalate"}
    /\ payload' = NoPayload
    /\ UNCHANGED <<ignored, repo, files, stash, verified, failed>>

StartSessionWithOldStash == \E t \in Tasks : Begin(t, specStash)    \* mutation

(* Up to the oracle nothing touches git; a task without a strategy escalates. *)
StartSession == \E t \in Tasks : Begin(t, NoStash)

Crash ==
    /\ phase \notin Rest
    /\ phase' = "crashed"
    /\ UNCHANGED <<ignored, repo, files, stash, correction, session, payload,
                   verified, failed>>

-----------------------------------------------------------------------------
(* Oracle, actor and checks *)

OracleFrame ==
    UNCHANGED <<ignored, head, files, stash, correction, session, payload, verified>>

(* The tests pass: they stay in the tree, untracked, and are written again. *)
OracleFails ==
    /\ phase = "tdd_gate"
    /\ tree' \in {tree, tree \cup {Tests}}
    /\ phase' \in {"tdd_gate", "escalate"}
    /\ UNCHANGED <<refs, index, failed>> /\ OracleFrame

OracleCommitsAll ==    \* mutation
    /\ phase = "tdd_gate" /\ phase' = "actor"
    /\ tree' = tree \cup {Tests}
    /\ Commit(tree' \ Committed)
    /\ OracleFrame

(* On whatever branch is checked out; a failure is logged only. *)
OracleConfirms ==
    /\ phase = "tdd_gate" /\ phase' = "actor"
    /\ \/ /\ tree' = tree \cup {Tests}
          /\ Commit(index \cup ({Tests} \ Committed))
       \/ /\ tree' = tree \cup {Tests}
          /\ CommandFails /\ UNCHANGED <<refs, index>>
       \/ UNCHANGED <<tree, refs, index, failed>>       \* no test file was left
    /\ OracleFrame

Attempts == <<task, attempt>>      \* agent-task-<id>-a<attempt>

HasBranch == branch # NoBranch /\ branch \in DOMAIN refs

(* git checkout -b from HEAD, then git checkout *)
Branched ==
    \/ /\ ~HasBranch /\ Attempts \notin DOMAIN refs
       /\ head' = Attempts
       /\ refs' = [b \in DOMAIN refs \cup {Attempts} |->
                      IF b = Attempts THEN refs[head] ELSE refs[b]]
    \/ HasBranch /\ head' = branch /\ refs' = refs

ActorFrame ==
    UNCHANGED <<ignored, index, files, stash, session, payload, verified, failed>>

ActorStagnates ==
    /\ phase = "actor" /\ phase' = "escalate"
    /\ attempt' = MaxCycles
    /\ UNCHANGED <<repo, branch>> /\ ActorFrame

ActorBranchTaken ==
    /\ phase = "actor" /\ attempt < MaxCycles
    /\ ~HasBranch /\ Attempts \in DOMAIN refs
    /\ phase' = "crashed"
    /\ UNCHANGED <<repo, correction>> /\ ActorFrame

(* The agent gives no usable answer, or proposes no diff that may be applied (or
   raises, and Crash follows): the branch is there and nobody remembers it. *)
ActorNoDiff ==
    /\ phase = "actor" /\ attempt < MaxCycles
    /\ Branched /\ tree' = CarryTo(refs'[head'])
    /\ attempt' \in {attempt} \cup {n \in {attempt + 1} : attempt \in Unparsable}
    /\ phase' \in {"actor", "escalate"}
    /\ UNCHANGED branch /\ ActorFrame

ApplyAtAnyAttempt(proposal, bad) ==    \* mutation
    /\ phase = "actor"
    /\ Branched
    /\ proposal \cap tree \subseteq bad
    /\ tree' = CarryTo(refs'[head']) \cup (proposal \ bad)
    /\ attempt' = attempt + 1 /\ branch' = head'
    /\ ActorFrame

(* apply_diffs goes on after a diff that fails and takes none back; a diff that
   the tree has already fails. *)
Apply(proposal, bad) ==
    /\ phase = "actor" /\ attempt < MaxCycles
    /\ Branched
    /\ proposal \cap tree \subseteq bad
    /\ tree' = CarryTo(refs'[head']) \cup (proposal \ bad)
    /\ attempt' = attempt + 1 /\ branch' = head'
    /\ ActorFrame

ActorApplyFails ==
    /\ \E proposal \in SUBSET Patches : \E bad \in SUBSET proposal \ {{}} :
          Apply(proposal, bad)
    /\ phase' \in {"actor", "escalate"}

ActorApplies ==
    /\ \E proposal \in SUBSET Patches \ {{}} : Apply(proposal, {})
    /\ phase' = "checks"

ChecksFrame ==
    UNCHANGED <<ignored, repo, files, stash, correction, session, payload, failed>>

(* Preflight, critics, verifier and debugger read the tree. *)
ChecksFail ==
    /\ phase = "checks"
    /\ \/ phase' \in {"actor", "escalate"}
       \/ attempt \in 2..(MaxCycles - 1) /\ phase' = "speculate"
    /\ UNCHANGED verified /\ ChecksFrame

(* An exception of the verifier counts as an attempt. *)
VerifierRaises ==
    /\ phase = "checks" /\ attempt' = attempt + 1
    /\ \/ phase' = "escalate"
       \/ attempt' \in 2..(MaxCycles - 1) /\ phase' = "speculate"
    /\ UNCHANGED <<ignored, repo, files, stash, branch, session, payload, verified,
                   failed>>

ChecksPass ==
    /\ phase = "checks" /\ phase' = "inventory"
    /\ verified' = verified \cup tree
    /\ ChecksFrame

-----------------------------------------------------------------------------
(* Speculation *)

Speculate ==
    /\ phase = "speculate"
    /\ \/ Push("speculation") \/ NothingToStash
    /\ specStash' = Stashed
    /\ phase' = "evaluate"
    /\ UNCHANGED <<ignored, head, refs, correction, sessions, task, replans, payload,
                   verified, failed>>

SpeculateFails ==
    /\ phase = "speculate" /\ phase' = "crashed"
    /\ GitFails
    /\ UNCHANGED <<ignored, repo, files, stash, correction, session, payload,
                   verified, failed>>

(* The strategy's branch is made from HEAD, unless an earlier round left it. *)
StrategyCommit ==
    IF StrategyBranch \in DOMAIN refs THEN refs[StrategyBranch] ELSE refs[head]

EvaluateFrame ==
    UNCHANGED <<ignored, index, files, stash, payload, sessions, task, specStash>>

(* A diff on the strategy's branch passes in a worktree, which is removed with
   the diff; the branch is checked out as it was made. *)
SpeculativeBranchWins ==
    /\ phase = "evaluate" /\ head # StrategyBranch
    /\ \E patch \in Patches :
          verified' = verified \cup Content(StrategyCommit) \cup {patch}
    /\ refs' = [b \in (DOMAIN refs \ ({branch} \ {head})) \cup {StrategyBranch} |->
                   IF b = StrategyBranch THEN StrategyCommit ELSE refs[b]]
    /\ \/ head' = StrategyBranch /\ tree' = CarryTo(StrategyCommit)
          /\ phase' = "inventory"
       \/ phase' = "crashed" /\ GitFails /\ UNCHANGED <<head, tree>>
    /\ UNCHANGED <<correction, replans, failed>> /\ EvaluateFrame

(* Failed branches are deleted by force; git keeps one that is checked out.
   Replan forgets the branch of the attempt. *)
SpeculativeBranchFails ==
    /\ phase = "evaluate"
    /\ \/ refs' = [b \in DOMAIN refs \ ({branch, StrategyBranch} \ {head}) |-> refs[b]]
       \/ UNCHANGED refs
    /\ \/ /\ replans < MaxReplan /\ replans' = replans + 1
          /\ attempt' = 0 /\ branch' = NoBranch
          /\ phase' \in {"tdd_gate", "escalate"}
       \/ /\ replans = MaxReplan /\ phase' = "escalate"
          /\ UNCHANGED <<replans, correction>>
    /\ UNCHANGED <<head, tree, verified, failed>> /\ EvaluateFrame

-----------------------------------------------------------------------------
(* Consolidation: each step is a git command of its own and its failure is only
   logged, but for the memory *)

Consolidates(step) ==
    /\ phase = step /\ phase' = Following[step]
    /\ UNCHANGED <<ignored, head, correction, session, payload, verified>>

CommitTestInventory ==
    /\ Consolidates("inventory")
    /\ \/ Commit(index \cup ({Tests} \cap Dirty))
       \/ /\ CommandFails \/ UNCHANGED failed       \* no inventory
          /\ UNCHANGED <<refs, index>>
    /\ UNCHANGED <<tree, files, stash>>

CommitProductionCode ==
    /\ Consolidates("code")
    /\ Commit(Dirty)
    /\ UNCHANGED <<tree, files, stash>>

StoreLesson ==
    /\ Consolidates("learn")
    /\ UNCHANGED <<tree, refs, index, files, stash, failed>>

UpdateNotes ==
    /\ Consolidates("notes")
    /\ \/ tree' = tree \cup {Notes} /\ Commit(index \cup ({Notes} \ Committed))
       \/ tree' = tree \cup {Notes} /\ CommandFails /\ UNCHANGED <<refs, index>>
       \/ UNCHANGED <<tree, refs, index, failed>>       \* no usable answer
    /\ UNCHANGED <<files, stash>>

RecordGreen ==
    /\ Consolidates("record")
    /\ \/ green' = {refs[head]} /\ UNCHANGED failed
       \/ CommandFails /\ UNCHANGED green
    /\ UNCHANGED <<tree, refs, index, markers, stash>>

DropStash ==
    /\ Consolidates("drop")
    /\ \/ stashes' = {e \in stashes : e.id # specStash} /\ UNCHANGED failed
       \/ CommandFails /\ UNCHANGED stashes
    /\ UNCHANGED <<pushed, tree, refs, index, files>>

-----------------------------------------------------------------------------
(* Escalation *)

EscalationFrame ==
    UNCHANGED <<ignored, correction, session, verified>>

(* The marker of an earlier escalation of the task: the node returns at once. *)
EscalationReturns ==
    /\ phase = "escalate" /\ task \in markers
    /\ phase' = "ended"
    /\ UNCHANGED <<repo, files, stash, payload, failed>> /\ EscalationFrame

ActiveBranch == IF branch # NoBranch THEN branch ELSE head

EscalationStashesNever ==    \* mutation
    /\ phase = "escalate" /\ task \notin markers
    /\ phase' = "reset"
    /\ payload' = [branch |-> ActiveBranch, stash |-> NoStash, reset |-> FALSE,
                   work |-> Dirty]
    /\ UNCHANGED <<repo, files, stash, failed>> /\ EscalationFrame

EscalationStashes ==
    /\ phase = "escalate" /\ task \notin markers
    /\ \/ /\ phase' = "reset"
          /\ IF ActiveBranch = Main
             THEN UNCHANGED <<tree, index, files, stash>>
             ELSE Push("escalation") \/ NothingToStash
          /\ payload' = [branch |-> ActiveBranch, stash |-> Stashed, reset |-> FALSE,
                         work |-> Dirty]
       \/ /\ phase' = "crashed" /\ GitFails
          /\ UNCHANGED <<tree, index, files, stash, payload>>
    /\ UNCHANGED <<head, refs, failed>> /\ EscalationFrame

LastGreen == IF green = {} THEN {refs[head]} ELSE green

EscalationResetsMain ==    \* mutation
    /\ phase = "reset" /\ phase' = "leave"
    /\ \E target \in LastGreen :
          /\ refs' = [refs EXCEPT ![Main] = target]
          /\ head' = Main /\ tree' = Content(target) /\ index' = {}
    /\ payload' = [payload EXCEPT !.reset = TRUE]
    /\ UNCHANGED <<files, stash, failed>> /\ EscalationFrame

EscalationResetsToMain ==    \* mutation
    /\ phase = "reset" /\ phase' = "leave"
    /\ refs' = [refs EXCEPT ![head] = refs[Main]]
    /\ tree' = Content(refs[Main]) /\ index' = {}
    /\ payload' = [payload EXCEPT !.reset = TRUE]
    /\ UNCHANGED <<head, files, stash, failed>> /\ EscalationFrame

(* git reset --hard to the green commit moves the branch that is checked out. *)
ResetHard(left) ==
    /\ \E target \in LastGreen :
          /\ refs' = [refs EXCEPT ![head] = target]
          /\ tree' = Content(target) \cup left
    /\ index' = {}

(* git clean -fd takes an untracked .workflow/ with it. *)
Clean == IF ignored THEN UNCHANGED files ELSE green' = {} /\ markers' = {}

(* Either command may fail: after a reset without a complete clean, untracked
   files are left. *)
EscalationResets ==
    /\ phase = "reset"
    /\ \/ /\ phase' = "leave"
          /\ ResetHard({}) /\ Clean
          /\ payload' = [payload EXCEPT !.reset = TRUE]
          /\ UNCHANGED failed
       \/ /\ phase' = "pause" /\ CommandFails
          /\ \E left \in SUBSET (Dirty \ index) : ResetHard(left)
          /\ Clean \/ UNCHANGED files
          /\ UNCHANGED payload
       \/ /\ phase' = "pause" /\ CommandFails
          /\ UNCHANGED <<refs, tree, index, files, payload>>
    /\ UNCHANGED <<head, stash>> /\ EscalationFrame

EscalationLeaves ==
    /\ phase = "leave" /\ phase' = "pause"
    /\ \/ head' = Main /\ tree' = CarryTo(refs[Main]) /\ UNCHANGED failed
       \/ CommandFails /\ UNCHANGED <<head, tree>>
    /\ UNCHANGED <<refs, index, files, stash, payload>> /\ EscalationFrame

(* The payload is written, and the marker, before the memory is asked. *)
EscalationPauses ==
    /\ phase = "pause" /\ phase' \in {"paused", "crashed"}
    /\ markers' = markers \cup {task}
    /\ UNCHANGED <<repo, green, stash, payload, failed>> /\ EscalationFrame

-----------------------------------------------------------------------------

User_ == UserEdits \/ UserChecksOutMain
Actor == ActorStagnates \/ ActorBranchTaken \/ ActorNoDiff \/ ActorApplyFails \/ ActorApplies
Speculation == Speculate \/ SpeculateFails \/ SpeculativeBranchWins \/ SpeculativeBranchFails
Consolidation ==
    \/ CommitTestInventory \/ CommitProductionCode \/ StoreLesson \/ UpdateNotes
    \/ RecordGreen \/ DropStash
Escalation ==
    \/ EscalationReturns \/ EscalationStashes \/ EscalationResets \/ EscalationLeaves
    \/ EscalationPauses

Next ==
    \/ User_ \/ StartSession \/ Crash
    \/ OracleFails \/ OracleConfirms
    \/ Actor
    \/ ChecksFail \/ VerifierRaises \/ ChecksPass
    \/ Speculation \/ Consolidation \/ Escalation

Spec == Init /\ [][Next]_vars

-----------------------------------------------------------------------------
(* Properties *)

(* All variables keep their types; what is staged is in the tree and not yet
   committed. *)
TypeOK ==
    /\ ignored \in BOOLEAN
    /\ DOMAIN refs \subseteq Branches /\ {Main, head} \subseteq DOMAIN refs
    /\ \A b \in DOMAIN refs : refs[b] \in Commits
    /\ tree \subseteq Changes /\ index \subseteq Dirty
    /\ pushed \in Nat
    /\ stashes \subseteq [id : 1..pushed, by : {"speculation", "escalation"},
                          session : 1..sessions, work : SUBSET Changes]
    /\ green \subseteq Commits
    /\ markers \subseteq Tasks
    /\ sessions \in 0..MaxSessions /\ task \in Tasks
    /\ phase \in Rest \cup Nodes \cup InEscalation \cup DOMAIN Following
    /\ attempt \in 0..(MaxCycles + 1)
    /\ branch \in {NoBranch} \cup ({task} \X (0..MaxCycles))
    /\ replans \in 0..MaxReplan /\ specStash \in 0..pushed
    /\ payload \in [branch : Branches \cup {NoBranch}, stash : 0..pushed,
                    reset : BOOLEAN, work : SUBSET Changes]
    /\ verified \subseteq Changes /\ failed \in BOOLEAN

(* "Partial or failed work is NOT committed" (hitl_escalation.py): whatever
   failed attempts, half applied diffs and sessions that died leave in the tree,
   a commit has an actor's diff only if it was in a tree that passed. *)
OnlyVerifiedWorkIsCommitted ==
    \A b \in DOMAIN refs : Content(refs[b]) \cap AgentWork \subseteq verified

(* BUG-011 of memory_consolidation.py: when consolidation is over and no command
   failed, the green commit has everything, the notes too, and nothing is left in
   the tree that a reset to it would take. *)
GreenIsComplete ==
    phase = "done" /\ ~failed => green = {refs[head]} /\ Dirty = {}

(* reset_hard needs the commit of green-sha: through resets, forced deletions and
   switches it stays in the history of a branch, and git does not collect it. *)
GreenStaysOnABranch ==
    \A commit \in green : \E b \in DOMAIN refs : IsPrefix(commit, refs[b])

(* The hard reset runs before the checkout of main (hitl_escalation.py:103): main
   loses commits only if the session never left it. *)
MainKeepsItsCommits ==
    [][IsPrefix(refs[Main], refs'[Main]) \/ (phase = "reset" /\ head = Main)]_vars

(* What was uncommitted when an escalation began off main is in the stash that
   its payload names, whatever failed or died later. *)
EscalatedWorkIsStashed ==
    payload.branch \notin {Main, NoBranch} /\ payload.work # {} =>
        \E e \in stashes : e.id = payload.stash /\ payload.work \subseteq e.work

(* "Stash the active branch and reset to the last known green commit": when the
   session pauses, main is checked out and clean and the branch of the session is
   at the green commit.  Only where .workflow/ is ignored: elsewhere the stash
   has just taken green-sha away. *)
EscalationRollsBack ==
    phase = "paused" /\ ignored /\ ~failed =>
        /\ head = Main /\ Dirty = {}
        /\ \A commit \in green : refs[payload.branch] = commit

(* A stash is dropped only by the session whose speculation made it, although the
   reference lives in a state that reruns and replans write over. *)
OnlyOwnStashIsDropped ==
    [][\A e \in stashes \ stashes' : e.by = "speculation" /\ e.session = sessions]_vars
-----------------------------------------------------------------------------
(* The graph that SACVWorkflow decides *)

GitNode ==
    IF phase \in Rest THEN "out"
    ELSE IF phase \in DOMAIN Following THEN "consolidate"
    ELSE IF phase \in InEscalation THEN "escalate"
    ELSE IF phase = "evaluate" THEN "speculate"
    ELSE phase

InRepository == phase \notin Rest

Graph == INSTANCE GitGraph WITH
    at <- GitNode,
    attempt <- IF InRepository THEN attempt ELSE 0,
    named <- InRepository /\ branch # NoBranch,
    replans <- IF InRepository THEN replans ELSE 0

(* The sessions here take steps of the graph and no others, so a path of the
   repository is one of sessions. *)
FollowsGitGraph == Graph!Spec
=============================================================================
