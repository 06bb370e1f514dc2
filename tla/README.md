# Verification of SACV

SACV runs coding agents as a LangGraph graph: a planner proposes strategies, a
test oracle writes failing tests, an actor writes diffs, checks and critics
review them, a verifier runs the tests in a container, and whatever fails goes
round again until it passes or a human takes over. This directory holds TLA+
models of that system, the TLC runs that check them, and TLAPS proofs.

Paths below are relative to `src/src/sacv/`.

## 1. Inventory

| Component | State it keeps | Operations | What makes it correct |
|---|---|---|---|
| Workflow graph, routing, reducers (`orchestration/`) | `WorkflowState`, one checkpoint per node | 14 nodes, 6 conditional edges, the reducers of `state.py`, the confidence score, `run_verifier_with_confidence` | circuit breakers hold together, no state of an old plan reaches a new one, only verified patches are consolidated, sessions end |
| Test oracle (`nodes/tdd_gate.py`) | evidence, inventory, attempts; a commit | write tests, run them, confirm that they fail | a red phase before each actor of a plan |
| Actor (`nodes/actor.py`, `git/diff_engine.py`) | branch of the attempt, diff, retries | stagnation guard, branch, LLM call, apply | an attempt is counted once, on a branch of its own |
| Preflight and critics (`nodes/preflight_node.py`, `nodes/critics/`, `orchestration/graph.py`) | `preflight_result`, `critic_findings`, cost | checks; three concurrent critics | only required checks block; no finding or cost is lost |
| Verifier (`nodes/verifier.py`) | verdict, error history, outcome signature | deletion guard, critic block, two test phases, diagnosis | a PASS means that both phases ran on this patch |
| Debugger (`nodes/intelligent_debugger.py`, `_debug_strategies.py`) | `debug_observations` | one debug session | once per plan, observations read by the next actor only |
| Speculative branches (`nodes/speculative_branch.py`) | branches, worktrees, a stash | evaluate strategies concurrently, choose a winner, clean up | the winner's patch survives, losers are removed, main is not touched |
| Replan (`nodes/replan.py`) | `replan_count` | reset, new strategies | forgets what belongs to the old plan |
| Memory consolidation (`nodes/memory_consolidation.py`) | commits, `.workflow/green-sha` | commit, learn, write notes, record green, drop the stash | commits only what was verified, records green when all of it is committed |
| HITL escalation (`nodes/hitl_escalation.py`) | payload and marker files, stash | stash, reset, write, interrupt; return on resume | a human sees each escalation, and the work is kept |
| CLI (`cli.py`) | checkpoint database, thread id = task id | run, resume, timeout | a rerun starts clean |
| Git (`git/branch_manager.py`) | branches, worktrees, index, stash, HEAD | thin wrappers that raise on failure | uncommitted work and commits survive what the nodes do in turn |
| MCP transport and adapters (`adapters/mcp_transport.py`, `adapters/memory`, `adapters/graph`) | subprocess, lock, request id | start, call, reconnect, stop | each call gets its own answer |
| CDP and JDWP clients (`adapters/debug/`) | pending futures, paused future | send, receive loop, wait for pause | no event is lost, no waiter is left |
| Docker sandbox (`adapters/sandbox/`) | containers | start, exec, timeout, stop | no container is leaked |
| Structured output, Claude adapter (`nodes/_structured_output.py`, `adapters/claude/`) | retries, running cost | call, parse, retry | each charge is billed once, the budget breaker sees it |
| Scoring, modes, logging, tracing, interfaces | none that is routed on | | |

**How they interact.** LangGraph executes one node at a time and merges what it
returns into the state by a reducer per field; the conditional edges read the
merged state. Nodes call the adapters through `NodeDeps`. Concurrency exists
inside three nodes only (critics, speculative branches, debugger) and in the
adapters that speak to subprocesses. State outlives a session in four places:
the checkpoint database (thread id = task id), git branches, the git stash and
the files of `.workflow/`.

**What is hard.** Three nested retry loops and replans whose counters are reset
by different nodes; fields that a reset forgets; a crash between a side effect
on git and the checkpoint; a rerun on what the last session left; concurrent
worktrees; late answers on a pipe after a timeout. `PROJECT.json` lists the
hazards at their lines.

## 2. Modules and runs

Seven modules, each with an `MC` module that gives TLC its instance and a module
of proofs:

| Module | Models | Composed with |
|---|---|---|
| `SACVWorkflow` | the graph: what each node decides and where it leads | implements `SessionContract`, `GitGraph` and the edges of `AgentGraph` |
| `GitWorkspace` | what the nodes do to the repository, over many sessions | implements `GitGraph` |
| `AgentLedger` | the agent's calls and the money in them | runs on the edges of `AgentGraph` |
| `SpeculativeBranch` | one node: concurrent evaluations in worktrees | implements `SpeculationContract`; a step of the three above |
| `DebugSession` | one node: the debugger on a Node.js program | a step of `SACVWorkflow` |
| `DeltaDebug` | the search for a small failing request, inside the debugger | |
| `McpTransport` | the adapters' calls on the pipe of a server | implements `CallContract` |

Three of the other modules are contracts, which say what a component promises
without its mechanism. Two are the coarse graphs through which `SACVWorkflow`
is tied to the modules that work on one aspect of it:

* `AgentGraph` has the nodes that call the agent and the edges between them.
  `AgentLedger` takes any of these edges; `SACVWorkflow` takes no others
  (`FollowsAgentGraph`), needs no call where the edge is silent, and leaves a
  failed verification below the critical budget only.
* `GitGraph` has the nodes that work on the repository and what their git commands
  depend on: the attempts, whether a branch is named, the new plans. Both
  `SACVWorkflow` and `GitWorkspace` implement it (`FollowsGitGraph` of each, proved
  and not repeated by a run), so that sessions come to git only with what
  `GitWorkspace` expects, and `GitWorkspace` has no path that the graph does not
  allow. That it has every path that sessions take is no refinement but for the
  reader to see: its actions add no guard to those of `GitGraph` but what git
  refuses and the bounds that are named.

### SACVWorkflow: the session

`SACVWorkflow.tla` models the whole orchestration graph. `node` is the node
LangGraph runs next (or how the session ended), the other variables are the
fields of `WorkflowState` that some edge or node decides on, plus the branches
in the repository, the escalation marker file, and history variables that
only properties read. An action is one whole node: what it returns, merged by
the reducers, and the edge evaluated on the merged state (`node' = Route...'`).

* Confidence is computed as in `compute_confidence`, with exact integers: the
  inequality `score < threshold` is multiplied by its denominators. Money is in
  steps of ten dollars and capped at `critical_dollar`; no condition tells
  higher values apart.
* Diffs, evidence, debug sessions and verdicts are known by the plan they were
  made for. Error texts are known by their similarity class (`stagnation` only
  asks whether the last two are similar), problems by their rule.
* What agents, the sandbox and git answer is chosen with `\E`; each node may
  raise or be cancelled by the session timeout (`NodeRaises`), which keeps the last
  checkpoint and the side effects done so far.
* Preflight has the check of the blast radius for some module types only
  (`checks/routing/check_profiles.py`: `backend-api`). `limited` says whether the
  session's profile has it; `BlastChecks` are the values a run allows.
* `Rerun` is a new `sacv run` of the same task, on the checkpoint, branches and
  marker the last one left. `Resume` is `sacv resume` after an escalation. It
  assumes that LangGraph resumes the interrupted node for
  `Command(resume=None)`; the node then finds its marker and returns.
* `GitStrict` chooses between `BranchManager`, where `git checkout -b` fails on
  a name that exists, and the stub of the tests, which accepts it. The strict
  instance shows what happens in production; the stub lets the runs go past
  the crashes it causes, which is what the repository's tests exercise.

| Run | Question | Result |
|---|---|---|
| `workflow_default` | default limits (3 cycles, 1 replan, 3 red attempts, 3 empty diffs), default weights, threshold 0.25, budget 50/80, two sessions, two error classes, two findings, real git: do the safety properties and the contract hold? | 2,384,317 states, all properties hold |
| `workflow_stub` | 5 cycles, 2 replans, git of the tests, skipping the oracle allowed, with and without a limit on the blast radius, weak fairness of the graph: is `main` safe on the paths that real git cuts short, and does every session end? | 775,995 states, both hold |
| `claim_branch` | does the actor get the branch its comments promise? | violated, finding 1 |

Properties, each aimed at a hazard: `OnlyVerifiedPatchesConsolidate`,
`NoCrossPlanLeak`, `CountersBounded`, `MainBranchIsKept`,
`SpeculationOnlyAfterGreenTests` (under the default weights a branch of
speculation never answers a failing test: the confidence of a second failed
attempt is below the threshold first; the sources say the contrary, see below), `OutcomeNeverStagnates` (the third guard
against stagnation never fires), `FollowsAgentGraph` (above), `EveryStepDescends`
(each step descends in a lexicographic order of run, plan, stage and counters) and
`SessionEnds`.
`DebuggerOncePerPlan` and `BlastLimitNeverVerified` (of sessions that are `limited`)
are proved for all limits and no run repeats them.

**The abstract session.** `SessionContract.tla` says in nine actions and five
variables what a session promises without its nodes: it plans, codes, checks and
keeps or hands over; code comes after red tests of this plan, a check after a
patch of this plan, and what is kept is red, patched and green; a new plan or a
rerun starts from nothing, and there are at most `MaxReplan` new plans.
`SACVWorkflow` implements it (`ImplementsContract`) under the mapping `Contract`:
the activity is that of the node LangGraph runs next, `red` is that there is
evidence, `patch` that there is a diff, `green` that the verdict is a PASS.
A field that a reset forgot breaks the refinement at the reset or at the next
step that needs the field to be empty; `NoCrossPlanLeak` says it by the plan the
data are of.

**Bounds.** Every limit of the configuration is a constant and the default run
takes the default values, so the counters are not truncated. `MaxRuns = 2` is
enough for what a session inherits: a third session starts from the same kind
of leftovers as the second; `workflow_stub` has one session, since its question
is the loops within one. Two error classes and two findings suffice to tell
a repeated one from a new one. The one abstraction that is bounded is money, by
the cap argument above.

**Fairness.** `FairSpec` has weak fairness of the graph's own steps: LangGraph
runs the next node as soon as the last has returned, and each call of a node
has a timeout. Resume and Rerun are a user's free choice.

### GitWorkspace: the repository over many sessions

`GitWorkspace.tla` models what sessions do to the repository they work in, one
git command at a time, with a crash possible between any two. A commit is the
sequence of the change sets of its history, a tree is the set of changes in its
files; `Dirty` is what is not committed.

* Sessions of several tasks follow each other in one repository. In between
  the user may edit a file (`UserEdits`) or check out `main`. Nothing here
  merges into `main`, so that a session starts on whatever branch the last one
  left.
* The graph is coarser than in `SACVWorkflow`: a node decides whatever its edges
  allow. `GitGraph` says what that is, and `SACVWorkflow` implements it too. What
  this module adds is the effect of each node on HEAD, branches, tree, index,
  stash and the files of `.workflow/`.
* `VerifierRaises` is the exception that `run_verifier_with_confidence` catches:
  it counts an attempt, which may be the one above the limit, and goes on to
  speculation or to the escalation.
* `Commit` is `git add` and `git commit`, which may fail and leave its files
  staged; all callers only log that. `Push` is `git stash push -u`. If the
  repository does not ignore `.workflow/` (`ignored`), stash and clean take
  `green-sha` and the markers away.
* `git checkout` carries uncommitted changes to the other branch (`CarryTo`).
  That two diffs on the same lines would make it refuse is left out; the session
  crashes then, which `Crash` covers.
* Consolidation is six steps in the order of `Following`, escalation three:
  stash, reset and clean, checkout of `main`; then payload and marker. If the clean
  fails after the reset, the branch has moved and untracked files are left.
* `SpeculativeBranchWins` checks out the winner's branch, whose patch was
  removed with its worktree (finding 3); the worktrees themselves are in
  `SpeculativeBranch`.

| Run | Question | Result |
|---|---|---|
| `git_workspace` | two sessions of any of two tasks, the user at work in between, one command that fails, a crash anywhere: do commits, stashes, `main` and the green commit stay right? | 3,214,826 states, all properties hold |

* `OnlyVerifiedWorkIsCommitted`: whatever failed attempts, half applied diffs,
  stale index entries and sessions that died leave in the tree, a commit holds
  an actor's diff only if it was in a tree that passed.
* `GreenIsComplete` (the repository's BUG-011), `GreenStaysOnABranch` (git does
  not collect the commit that a later escalation resets to).
* `EscalatedWorkIsStashed`, `EscalationRollsBack`, `MainKeepsItsCommits`,
  `OnlyOwnStashIsDropped`.

Their exceptions are what the code does: `GreenIsComplete` and
`EscalationRollsBack` speak of sessions in which no git command failed,
`EscalationRollsBack` of repositories that ignore `.workflow/`,
`EscalatedWorkIsStashed` of escalations off `main`.

**Bounds.** Two sessions have every pair of leftover and successor; two tasks
the successor of the same and of another task. Two diffs tell a verified one
from one that is not. One command fails and the node goes on, at any place, in
the life of the repository; the user has one piece of work. `Unparsable` limits
the answers that count an attempt without a branch to one attempt. The proofs
have none of these bounds. Tasks and diffs are symmetric, and the view forgets
what no later step reads (the counters after consolidation or escalation began,
the task between sessions).

### AgentLedger: what the agent costs

`AgentLedger.tla` models `extract_structured` with its retries, `run_task` of the
Claude adapter with the tries of tenacity below it, the three critics at once
behind the semaphore, and `cumulative_cost_dollars`, which each node replaces by
its own running total.

* `call[c]` is the call of a critic or of the one node that runs: where it is,
  its running cost (`bill`), and the retries and tries it has used. An answer
  may be usable or not, an error transient or not.
* `spent` is what was charged, `lost` what no running total holds any more: a
  try that failed, an exception after unusable answers, the speculative branches, the
  verifier's classifier, all but the last answer for `AGENTS.md`.
* `FanIn` is `SumOfIncrements`, the sum the fan-out puts together from what the
  critics return.

| Run | Question | Result |
|---|---|---|
| `agent_ledger` | each call with one retry and a second try, two critics at a time, three runs of gate and actor, a budget of six answers: do the books balance, and does every review end? | 445,678 states, all properties hold |

`BooksBalance` says that every charge is in the ledger once, in the running cost
of one call, or in `lost`; `GoesOnUnderBudget` that the circuit breaker reads a
ledger that has all the rest; `AtMostParallelAsk` and `CriticsReturn` that the
semaphore limits and never blocks.

**Bounds.** Two answers of two tries each reach every order of retries and errors;
three critics at two places make one wait. Costs are equal since only their sum
counts. The proofs have none of these bounds.

**Fairness.** Weak fairness of each call, of the semaphore and of the fan-out:
`asyncio.timeout` bounds each try, tenacity the tries and a counter the answers.

### SpeculativeBranch: concurrent evaluations in worktrees

`SpeculativeBranch.tla` models `nodes/speculative_branch.py` with the
worktrees, branches and threads under it, over several rounds: the node runs
again after a replan or in a rerun of the task, on what earlier rounds left in
the repository. `SACVWorkflow` sees only its two outcomes.

* `phase` is how far the node is, from `Fork` (stash, sort, temporary
  directories) over `gather`, the choice, the prune and the deletions to the
  checkout of the winner. `pc[i]` is how far the coroutine of evaluation `i`
  is. `asyncio.to_thread` cannot stop its thread: `creator[i]` is the thread in
  `create_worktree`, and `pc[i] = "orphan"` a `remove_worktree` whose coroutine
  was cancelled. Both go on after `Cancel`.
* A strategy stands for the branch named after it. `base[b]` is the round whose
  commit a branch was made from (0: there is none), `registered` and `dir` are
  what git and the file system know of a worktree, `leaked` and `prunable` the
  same for worktrees of earlier rounds. `patch` is the uncommitted diff.
* `CreatorChecks` and `CreatorAdds` are apart, as they are two git commands;
  other evaluations run between them.
* `RunSubgraph` is the whole sub-graph with any outcome. As the code stands,
  `build_branch_subgraph` (`orchestration/graph.py:155-189`) declares no edge
  from `START` and `ainvoke` is given no thread id, so that it depends on the
  installed LangGraph whether an evaluation gets beyond an exception; the model
  has both.
* Every git command of a thread may fail, a removal may fail and leave the
  registration. In the node the prune may fail, which ends it (`PruneFails`), so may
  the checkout of the winner, for whatever reason git has, and so may the deletion
  of a branch that nothing holds, which the node logs (`undeleted`). A round may
  have no strategy left to try. Assumed: `git worktree add` is atomic, the stash
  and the creation of the temporary directories succeed, and rmtree removes the
  directory.

| Run | Question | Result |
|---|---|---|
| `spec_rounds` | three strategies, two at a time, two rounds, ids that may be equal, cancellation anywhere: does the node keep its contract, is the winner's branch there and free to be checked out, and does the node end? | 564,807 states: all properties hold |
| `claim_winner_patch` | is the winner's diff kept? | violated, finding 3 |

`WinnerCanBeCheckedOut` is stated for distinct ids (`Distinct`): the planner's
ids are not checked (`nodes/value_node.py:148`), and with two equal ones the
branch of the winner may be the one that is deleted, so that the checkout
raises. It says that the branch exists and no worktree holds it; that git may
refuse for a reason of its own is in the model and no property.
`NoBranchTwice`, `BestPassWins`, `FailedBranchesAreDeleted` (but for branches that
a worktree of an earlier round still holds and those that git failed to delete),
`WorktreesAreRemoved` (of nodes that were not cancelled and whose prune did not
fail) and `RoundDescends` are proved and no run repeats them.

**The abstract round.** `SpeculationContract.tla` says what a round promises without
threads and git commands: a branch is checked out in one place at a time, only those
of strategies that did not pass are deleted, and only in a round that is neither
cancelled nor broken off by the prune; the first in the order that passed wins and is
checked out; a round in which none passed leaves no branch but those that worktrees
of earlier rounds hold and those that git failed to delete; a round that was neither
cancelled nor broken off ends without worktrees of its own, and if the checkout of
the winner raises its branch was there and free, unless strategies are equal. The mapping forgets the phases, the coroutines, the
threads, the commits and the directories.

**Bounds.** Two evaluations have every interleaving of two threads; the third
strategy lets a round meet branches that it does not use. Two rounds show what
one leaves to the next. The proofs have none of these bounds.

**Fairness.** Weak fairness of the node, of each coroutine and of each thread:
the event loop and the operating system run what can go on, and the git
commands and calls below have timeouts. `Fork` and `Cancel` are not fair.

### DebugSession: one run of the debugger

`DebugSession.tla` models `intelligent_debugger` when it debugs a Node.js
program: the container it starts for itself, `CdpClient` on the inspector, the
hypothesis and the `finally` clause. `SACVWorkflow` sees one step.

* `phase` is how far the node is: `warming` and `polling` are before the `try`,
  `InTry` inside it, `stopping` and `removing` in the `finally` clause. `label`
  is the command that is sent next or waited for: enable the debugger, enable
  the runtime, set the breakpoint, resume; then for each pause its variables,
  for the first one the expressions, and the next step. The variables of all
  scopes are one command, and so are the expressions.
* Two tasks of one event loop share the client. `Receive` resolves a future and
  goes on with the next message, while the coroutine wakes in a step of its own
  (`SendReturns`, `PauseSeen`); in between nobody waits for a pause.
* A command is its id, a pause its place in the order of the program; pause 1 is
  the one in the first line that `--inspect-brk` asks for. `pauseFuture` is
  `None`, `Waiting` or the pause it was resolved with.
* The inspector (external) answers in order, or never; it refuses a command that
  needs a paused program if the program runs. The connection may break, the
  container may die, and docker may fail at any time.
* `held` says that the node has the handle, `refused` that docker failed in the
  removal or that the removal was cut off by the session timeout. `Cancel` is
  that timeout.

| Run | Question | Result |
|---|---|---|
| `debug_session` | three steps, five pauses, everything above may happen | 434,045 states: `VariablesAreOfThePause`, `HitsComeInOrder`, `ContainerIsReleased` and `DebuggerEnds` hold |

`VariablesAreOfThePause` says what the ids of replies are for: the variables that
the node is given for a pause were read in that pause, although it may look at a
pause that the program has left since and the reply to a `resume` or a step that
timed out may come in between. If replies were matched in the order in which they
arrive, such a reply would pass for variables.

`ContainerIsReleased` excepts containers whose handle the node never got; the
exception is real (see below).

**Bounds.** `MaxSteps = 3` is the limit of the code (`min(max_steps, 3)`), and
five pauses are the start, the breakpoint and one for each step. The proofs have
neither bound.

**Fairness.** Weak fairness of the node, of which each wait has a timeout. The
receive loop, the inspector and the program owe nothing.

### DeltaDebug: the smallest failing request

`DeltaDebug.tla` models `_delta_minimize` and `_test_payload` of the debugger: a
bisection of the request's fields, then pairs, then single fields. The fields are
numbered, so the list at each level of the recursion is an interval; the tail
recursion is a loop of one action per test.

* `endpoint` rejects a request that has all fields of a culprit or lacks a
  required field. `visible` says how: an answer below 400 with an error in its
  body, the only kind that `_test_payload` can see, or one of 400 or above.
* A test may be disturbed: an error or a timeout of docker counts as a rejection.
  The deadline may pass during any test.

| Run | Question | Result |
|---|---|---|
| `delta_debug` | payloads of up to six fields, every endpoint with at most two culprits of up to three fields and a required first or last field: is the result rejected too, and minimal? | 4,735,890 states, all properties hold |
| `claim_rejection_minimised` | is a rejected request minimised? | violated for answers of 400 or above, finding 4 |

`StillFails` holds of every undisturbed search, `ReasonIsFound` says that for
reasons of one or two fields nothing can be left out of the result, and
`OvertimeIsBounded` how much is tested after the deadline.

**Bounds.** Six fields at `MaxDepth = 1` have odd and even halves, a pair across the
middle, and six pair checks end in the middle of a row. The code divides to a
depth of 6 and checks 20 pairs. The proofs have none of these bounds and take any
endpoint.

### McpTransport: calls on one pipe

`McpTransport.tla` models one `McpStdioTransport` as the command line drives it:
`start`, `validate`, calls by several tasks, the session timeout that cancels a
call, and `stop`. An action is the code between two awaits.

* `main` is how far `cmd_run` is, `pc[c]` how far caller `c` is in `_call`:
  `read` and `reread` wait for a line after the first and the second write,
  `retry` is the `except OSError` clause, `handshake` and `rehandshake` wait in
  `_initialize` for a server that `_ensure_running` has just started.
* A request is its id, an answer the id of the request it answers; 0 is the
  handshake. `inbox` and `out` are the two pipes of the current server. A dead
  server leaves what it had written to be read; a new one has new pipes.
* `alive` is what really runs, `seenDead` what asyncio knows
  (`returncode is not None`): the two differ until `Notice`.
* The server (external) answers in order. It may refuse any request (`Refuse`): an
  answer with an `error`, or without content. `_call` then returns `_on_failure()`;
  an answer of yet another shape, for instance one that is no object, raises
  (`ReadRaises`). `slow` lets a read time out, `chatty`
  lets the server write notifications; both are chosen at the start and kept, so
  that one run has all four kinds of servers and a property can say what it
  asks of the server.
* Assumed: the binary exists, so that a subprocess can be started (the server
  may die at once, which ends the handshake in the same way), and lines are
  shorter than the buffer of asyncio.

| Run | Question | Result |
|---|---|---|
| `mcp_session` | servers of all four kinds that may refuse requests and die twice, two calls of two tasks | 832,278 states: the contract and `EveryCallEnds` hold |
| `claim_own_answer` | does every call return its own answer? | violated with a late server, finding 2 |

**Bounds.** `MaxCalls` and `MaxDeaths` bound the ids and the reconnections. A
late answer needs two calls to do harm; that the shift lasts over later calls is in
the proofs, which have no bounds. A retry after a reconnection needs two deaths to fail. Two callers are
enough for a lock. `Notify` keeps at most two unread lines.

**Fairness.** Weak fairness of each caller's own steps: asyncio runs a task that
can go on and fires each timeout. A server that is not slow answers or refuses,
which is what not being slow means; a slow one owes nothing.

**The abstract call.** `CallContract.tla` says what a call promises without pipes,
lock and reconnections: requests are numbered as they are made and one is under
way at a time. What a call returns depends on the server. If it is steady (in
time, writes one line for each request and has not died) the call returns its own
answer, or fails if the server refused it, or raises; of one that has died it returns
its own answer or fails; of any other it may return the
answer to an earlier request, but never to a later one and never one that is older
than what was returned before. `ImplementsContract` has the server's kind
from `slow`, `chatty` and the deaths, the request under way from the lock, and
`refused`, whether the server has refused the last request. It
implies `AnswersOwnCall` and `AnswersComeInOrder`, which are proved and no run
repeats, as are `OneCallOnThePipe`, `OnlyFirstIsLeftBehind`, `NobodyWaitsInVain`
and `CallsDescend`.

### Disagreements found

`findings` in `PROJECT.json` quotes the lines. Each is the counterexample of a
run:

1. The actor creates a branch whose name is taken and the session crashes:
   after an empty diff, since the name was not kept; after a replan and in a
   rerun, since the count of attempts starts again (`claim_branch`). Under real
   git a replan is therefore never useful.
2. After a timeout a call returns the answer to an earlier one, and so does
   every later call (`claim_own_answer`).
3. The patch that made a branch win is lost with its worktree
   (`claim_winner_patch`).
4. A request that the endpoint answers with 400 or above is never found failing,
   and the whole request is returned as the smallest one
   (`claim_rejection_minimised`).

Seen while modelling, in the models, and without a run of their own.

The graph and its nodes:

* **A second failed attempt does not fork.** The docstring of
  `nodes/speculative_branch.py` (lines 4-6: "When the Actor fails a second time on
  the main branch, the orchestrator forks the state"), that of `route_after_verifier`
  (`orchestration/edges.py:188`: "attempt >= 2 → speculative_branch", and 240-241)
  and the tests of the edge (`tests/unit/test_edges.py:528-558, 658-668`) send failed
  tests of a second attempt to speculation under the default configuration. The graph
  never does, for a failing test of either phase: two of three attempts cost the
  confidence 0.67, a failing unit test 0.30 and one of the second phase 0.15, and
  the threshold of 0.25 is compared before the attempts (line 224), so that the
  session escalates. The tests do not see it since they put a confidence of 1.0 into
  the state (line 40), which no session has at that point. Only a failed visual
  comparison leads to speculation. `SpeculationOnlyAfterGreenTests` is the check of
  `workflow_default` that shows it, for the verifier's verdicts on all paths, and a
  theorem for other limits; it says what the code does and refutes those lines. A
  repair, of the weights or of the order, will break it.
* Outcome stagnation is never seen (`OutcomeNeverStagnates`, a theorem): the
  signature is stored only of a state without problems, so a problem that persists
  never makes one (`nodes/verifier.py:660`, against the comment in
  `nodes/actor.py:101`). That assumes that each problem has a rule, a code or a
  message, as those that the checks and the critics make have.
* Two critic blocks in a row count as stagnation whatever their findings: each
  stores the constant text `critic_block` in the error history
  (`nodes/verifier.py:100`).
* The limit of the blast radius exists for `backend-api` only
  (`checks/routing/check_profiles.py:46, 51`); tasks of all other module types go on
  whatever their size.
* Advisory violations block: the route after preflight reads the lists and not
  `passed` (`orchestration/edges.py:24`, against `nodes/preflight_node.py:122`).
* A patch may be consolidated without any new test, when the test files of the
  oracle were dropped one by one (`nodes/tdd_gate.py:160`).
* A first ambiguous verdict on a later attempt is not debugged
  (`orchestration/edges.py:242`, against the comment in line 240).
* The second escalation of a task neither stashes, resets nor pauses: the marker
  of the first is never removed (`nodes/hitl_escalation.py:59`).

The repository:

* Nothing merges into `main`; a later session builds on whatever branch is
  checked out. The name `main` itself is fixed.
* An escalation on `main` resets and cleans it without a stash, what the user had
  not committed included. What the user had not committed when speculation began
  is dropped with the stash of a session that ends well.
* The payload of an escalation names its own stash and never that of the
  speculation before it, and the command it suggests, `git stash pop <sha>`, is
  not one git takes.
* Where `.workflow/` is not ignored the stash takes `green-sha`, markers and the
  checkpoint database with it, and the reset then goes to HEAD.
* If a commit of the consolidation fails, HEAD is recorded as green all the same
  (`nodes/memory_consolidation.py:141`).
* A branch whose forced deletion fails is only logged, and a later round or session
  takes it as it is (`nodes/speculative_branch.py:157`).
* A git command that times out raises `TimeoutExpired`, which is no
  `RuntimeError` and passes the clauses that catch a failed command.
* A session timeout during `create_worktree` leaves a worktree that is created
  after it was removed, and its branch checked out there
  (`nodes/speculative_branch.py:244`).
* Branches after a winner are neither recorded nor deleted, and a later round
  reuses them with their old commit; strategies beyond the limit of parallel
  branches are queued in a field that nothing reads.

Money:

* The verifier's LLM call is not billed (`nodes/verifier.py:426`, against the
  comment in `orchestration/verifier_utils.py:105`), nor are those of the
  speculative branches and the tries that failed.
* `_update_agents_md` hands over no running cost, so that an answer that cannot be
  parsed sets the session's cost back to what that call cost
  (`nodes/memory_consolidation.py:287`). The session is over by then.
* The semaphore that is called a global throttle of LLM calls
  (`orchestration/deps.py:44`) only limits the critics.

Debugger and MCP:

* The deadline of the minimisation is read only before a list is divided, a test
  that times out counts as a rejection, and reasons of three or more fields and
  searches that end at a limit are not reduced.
* An MCP call may raise `JSONDecodeError` from its retry
  (`adapters/mcp_transport.py:253`), and `AttributeError` or `TypeError` from an answer
  of another shape, where other failures return `_on_failure()`. Since `asyncio.TimeoutError` is an
  `OSError` from Python 3.11 on, a timed-out request is sent again to the living
  server (line 235).
* The server launched by `start()` outlives the session, since `validate()`
  launches another (line 127).
* A pause that is reported right behind the reply to `resume` or a step is
  dropped, since its future is created when the coroutine wakes
  (`adapters/debug/cdp_client.py:152, 266`); the wait then lasts until its
  timeout and the pause is in no hit.
* The debugger never sends `Runtime.runIfWaitingForDebugger`
  (`nodes/intelligent_debugger.py:461-463`), so it depends on Node.js whether the
  program started with `--inspect-brk` is paused when `Debugger.resume` arrives;
  if it is not, the inspector refuses and the session ends without hits.
* When commands time out, the pause in the program's first line may be recorded
  as a hit at the target line.
* A container whose `docker run` was cut off or whose readiness check raised has
  no holder and stays (`adapters/sandbox/docker_sandbox_adapter.py:84`).

## 3. Proofs

All theorems hold for every value of the constants that satisfies the `ASSUME`s of
the module; TLC evaluates those in each run. Each theorem about the states is
proved from an inductive invariant, which was first checked by TLC.

Four kinds of results go together. Invariants say what no state may be; a
**contract** is refined by each step; a component **stays on the graph** that
another one assumes; and a **descent** says that every step takes a finite measure
down, which with the fairness that TLC's runs assume is why the component ends.

**`SACVWorkflowProofs`** proves `TypeOK`, `CountersBounded`,
`OnlyVerifiedPatchesConsolidate`, `NoCrossPlanLeak`, `DebuggerOncePerPlan`,
`BlastLimitNeverVerified`, `MainBranchIsKept`, `SpeculationOnlyAfterGreenTests`,
`OutcomeNeverStagnates` and the action properties `EveryStepDescends`,
`FollowsAgentGraph` and `FollowsGitGraph`. The invariants are not inductive by themselves. The
strengthening is `IInv`:

* `CountersInv` says at which nodes each counter may have reached its limit;
* `ProvenanceInv` says, node by node, which of diff, evidence and verdict are of
  the current plan and where preflight is clean;
* `DebugInv` relates the last debugged plan to the attempt count: after the
  debugger the next verification counts at least two attempts;
* `BranchInv` says that a named branch exists from the first counted attempt.

`TypeOK` is proved first, one step per action (`NextKeepsTypes`), and each part
of `IInv` from it in a lemma of its own (`NextKeepsCounters`, ...).
`EveryStepDescends` follows from `ProvenanceInv` and a case for each action.

* `SpeculationOnlyAfterGreenTests` is not true of all limits, and its theorem says
  of which: `(85 - Threshold) * MaxCycles < 200`, the default (60 * 3) among them.
  `SpeculationInv` keeps what `route_after_verifier` had established when it chose
  speculation, the score above the threshold and at least two attempts; the
  attempts alone cost two `MaxCycles`-ths of the score (`SpeculationScore`), so
  there is no room for a verifier's penalty of 15. The bound is sharp where TLC
  tried it: with four cycles and the default threshold (60 * 4) the property is
  violated. `SpeculationNeedsUnitTests` is the same for failing unit tests, which
  cost 30.
* `BlastLimitHolds` speaks of sessions whose profile has the check (`limited`): the
  map of such a task is drawn once in Scout, and each preflight after it blocks.
* `OutcomeNeverStagnates` rests on `SignatureInv`: the only signature ever stored
  is that of a state without problems, since `ProvenanceInv` has no violations at
  the verifier and its guard no findings; the actor compares only if there is one.
* `SessionFollowsAgentGraph` takes one step per node and the successors of each;
  `SessionFollowsGitGraph` also `FreshInv` (no attempt, branch or plan is counted
  before the oracle), `DebugInv` (an exception of the verifier counts the second
  attempt at least, so that no debugger follows it) and `BranchInv`.
  `SpeculationFollowsAttempts` says directly with which attempts and on which
  branch speculation starts.

**`SACVWorkflowContractProofs`** proves the refinement: `Spec =>
ImplementsContract`. Initial states map to initial states, and each action of
the graph maps to an action of `SessionContract` or to a stutter
(`StepImplements`, one step for each action). It uses `TypeOK`, `CountersInv`
and `ProvenanceInv` and one more invariant, `ContractInv`: before the red phase
of a plan nothing is known of it (no evidence, diff or PASS), and a PASS
goes straight to consolidation.

**`GitWorkspaceProofs`** proves every property of its run and `FollowsGitGraph`. `TInv` is the type
invariant in the form the proofs use: the repository (`RepoOK`), the session
(`SessionOK`) and how the two stand to each other (`Placed`: a branch that is
named is checked out, after a stash or a reset the tree is clean, and only an
exception of the verifier takes the attempts over the limit). The rest stands
beside it:

* `OwnReference`: the entry that the session's reference names is its own;
* `Escalated`: the payload is empty until the escalation begins;
* `Vetted`: beside the commits, the index and the green commit hold verified work
  only, and so does the whole tree once consolidation may commit it;
* `Greened`: from the commit of the code on nothing is left in the tree;
* `RollingBack`: what each step of the escalation leaves for the next, and that
  the branch in the payload is the one that the reset moves;
* `Rooted`, for `GreenStaysOnABranch`: a strategy's branch stands beside the
  actor's first branch of the task, which is never deleted, and an actor that
  finds it crashes (finding 1). So a task speculates at most in the first of its
  sessions and plans, and until then the green commit is on another branch than
  the one speculation deletes. The property thus rests on the crash: a repair of
  finding 1 has to look at these deletions;
* `NamedAtChecks`, for `FollowsGitGraph`: what is checked was patched on a branch
  that the state names.

**`AgentLedgerProofs`** proves `TypeOK`, `BooksBalance`, `AtMostParallelAsk`,
`GoesOnUnderBudget`, `CallsDescend` and `ReviewGoesOn`. `BooksBalance` is inductive with `BillInv`, which says how a
running cost stands to the ledger, and `PhaseInv`, which says whose calls a node
may have; `SlotsInv` counts each place of the semaphore as free or held by a
critic that asks. The last two are what `CriticsReturn` comes down to: `CallLeft`
falls with every step of a call, through both loops of retries, and in a review
somebody can always go on (`SlotsInv` and `TogetherInv`, the critics start and are
collected together).

**`SpeculativeBranchProofs`** proves `TypeOK`, `WinnerCanBeCheckedOut`,
`NoBranchTwice`, `BestPassWins`, `FailedBranchesAreDeleted`, `WorktreesAreRemoved`,
`RoundDescends` and the refinement of `SpeculationContract` for any strategies,
parallelism and rounds, with deletions, the prune and the checkout failing. The inductive invariant `Safe` has, beside the types, five parts:
`PlacesInv` (places without a strategy stay empty), `ThreadsInv` (no thread is at work outside the evaluations, but after a
cancellation), `RepoInv` (a branch held by a worktree exists and is held once),
`EndInv` (what ended evaluations leave: no directory, after the prune no
registration, and the branch of one that passed) and `ChoiceInv` (what is deleted
stands before the winner, and what failed is deleted, held or in `undeleted`). `FirstPass` and `Distinct` then keep the winner's
branch from the deletions, and `EndInv` makes it free to be checked out. The
contract needs `ResultsInv` as well: there is no verdict before the sub-graph has
run, and a round without a winner deletes branches of its own strategies.
`RoundDescends` needs the types only, action by action.

**`DebugSessionProofs`** proves `TypeOK`, `VariablesAreOfThePause`, `HitsComeInOrder`,
`ContainerIsReleased`, `NodeDescends` and `PauseIsAwaited` for any number of steps
and pauses. The types carry what
the rest needs: messages are typed by their kind, and there is a pause to look
at whenever its variables are asked for. `VariablesAreOfThePause` rests on two parts: `CommandsInv` (ids
are in order, so that the last command is behind all others on the wire) and
`ReadingInv` (once it is answered, no command that could move the program on is
left); `ReleaseInv` adds to `ContainerIsReleased` that the
handle is not held before the `try`. `HitsComeInOrder` rests on three parts:
`EnableInv` (the inspector is silent until the first command is handled),
`PausesInv` (the pauses on the wire are in order and come after those that were
taken) and `HitsInv` (the hits come before the pause that is looked at). `NodeDescends`
needs `WaitInv`: the coroutine awaits a pause only after a command that lets the
program run, and on a future that is there.

**`DeltaDebugProofs`** proves `TypeOK`, `StillFails`, `ReasonIsFound`,
`OvertimeIsBounded` and `SearchDescends`: `StepsLeft`, a measure that is linear in the
payload, falls with every step. `FailInv` says that every list the search goes on with fails
like the request, `OvertimeInv` counts the tests of the level that was begun before
the deadline, and `LevelInv` says which halves and which pairs have been tested in
vain: a reason of two fields that is in neither half is a pair that is still to
come.

**`McpTransportProofs`** proves `TypeOK`, `OneCallOnThePipe`, `AnswersOwnCall`,
`OnlyFirstIsLeftBehind`, `NobodyWaitsInVain`, the action properties
`AnswersComeInOrder` and `CallsDescend`, and the refinement of `CallContract`. The
lock invariant (`LockInv`) is inductive beside the types. `AnswersOwnCall` needs `PipeInv`, which says what the two pipes carry in
each state of a server in time: nothing while nobody calls, exactly the handshake
while somebody reconnects, exactly the caller's request or its answer while it
reads. `OneCallOnThePipe` is what keeps another call from disturbing that.
`AnswersComeInOrder` holds of every server, by `OrderInv`: the ids on the pipe from
the server are in order and come before those on the pipe to it, none is older than
what was returned, and the caller that holds the lock has the newest id, so that
what it writes again may stand at the end. The refinement puts them together:
`CallInv` adds that a call under way has a number and no answer yet (`AskedInv`) and
that a server that never died runs until it is stopped (`AliveInv`), and `RefusalInv`
that the line on the pipe shows whether the request was refused, so that a steady
server fails the calls that it refused and no others. `OnlyFirstIsLeftBehind` is inductive with `LeftInv`, which says
when there is another server than the first.

**Only model-checked.** Liveness (`SessionEnds`, `CriticsReturn`, `NodeEnds`,
`DebuggerEnds`, `EveryCallEnds`): fairness and ENABLED are beyond this prover. Its
core is proved: no step goes back (`EveryStepDescends`, `CallsDescend` of both
modules, `RoundDescends`, `NodeDescends`, `SearchDescends`), and no wait is in vain
(`ReviewGoesOn`, `NobodyWaitsInVain`, `PauseIsAwaited`). That a step is then enabled,
and taken, is what the runs show. The claims are refuted by TLC and not negated in a
theorem.

Tables of the code (`Stage`, `Hop`, `Activity`, `Following`, `AgentNode`) are records and
choices are `IF`s, never `CASE`: this tlapm's SMT encoding of `CASE` proves
equalities that do not hold. Recursion is a loop (`DeltaDebug`) or absent, since the
prover loses its SMT backend with RECURSIVE operators.

## 4. Not modelled

* **What the verifier and the oracle run in the sandbox.** Exit codes are the
  environment. Read from the code and not decided by a model: the API check ends
  in `|| true` and always passes (`nodes/verifier.py:162-173`); a timeout or a
  container that died counts as a red phase (`nodes/tdd_gate.py:173-191`); a build
  piped through `tail` hides its exit code (`nodes/verifier.py:506-510`); a
  timeout ends `docker exec` and not the command in the container. One node uses
  each of these containers, sequentially, and removes it at its end, so that a
  module would have the environment's choices and little of the program's.
* **JDWP** (`adapters/debug/jdwp_client.py`) reads what `jdb` prints; its
  behaviour is that of a program outside the repository. Seen in the code: `run()`
  drops a hit that arrives with the acknowledgement.
* **Scoring of strategies and attempts**: weighted sums that rank; the graph reads
  only whether there is a candidate. The confidence score is modelled in exact
  integers, its rounding as a float is not.
* **Modes, interfaces, the container of dependencies, logging, tracing, audit**:
  no state that a decision reads, but for the two flags of a mode that choose the
  blast map.
* **Prompts, parsing and formatting**: an answer is usable or not.

## 5. Plan

Done: the session, the repository, the ledger, speculation, the debugger with its
search, and the transport, each with its proofs; the contracts of a session, a round
of speculation and a call; the two graphs that tie the session to the repository and
to the ledger.

Left, in the order of what it would add:

1. A repair of findings 1 and 3 as variants of the models (branch names with the
   plan in them, a commit in the worktree), to see which properties then need
   other reasons: `GreenStaysOnABranch` does.
2. The ranking and pruning of strategies against a reference definition, and the
   confidence score as a sum of floats at the threshold.
3. JDWP, once the repository fixes what it expects of `jdb`.
