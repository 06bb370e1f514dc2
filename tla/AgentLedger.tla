----------------------------- MODULE AgentLedger -----------------------------
(***************************************************************************)
(* What a session pays its agent and what it writes down of it: the calls  *)
(* of extract_structured with their retries, the three critics that run at *)
(* once behind the semaphore of NodeDeps, and `cumulative_cost_dollars',   *)
(* which every node replaces by its own running total.                     *)
(*                                                                         *)
(* A caller is a critic or "node", the one call of any other node.         *)
(***************************************************************************)
EXTENDS Integers, FiniteSets, AgentGraph

CONSTANTS
    Parallel,     \* max_parallel_critics
    MaxRetries,   \* max_retries of every structured call
    MaxTries,     \* stop_after_attempt of ClaudeAgentAdapter.run_task
    Costs,        \* what one answer may cost
    Speculation,  \* what the agents of all speculative branches may cost
    Critical,     \* token_budget.critical_dollar
    MaxNodes      \* bound: runs of the gate and the actor

ASSUME ParallelAssumption == Parallel \in Nat \ {0}
ASSUME RetryAssumption == MaxRetries \in Nat /\ MaxTries \in Nat \ {0}
ASSUME CostAssumption == Costs \subseteq Nat /\ Speculation \subseteq Nat
ASSUME BudgetAssumption == Critical \in Nat /\ MaxNodes \in Nat \ {0}

VARIABLES
    node,     \* the node that runs, or how the session ended
    ledger,   \* cumulative_cost_dollars
    call,     \* the call of each caller: where it is and its running cost
    slots,    \* free places of critic_semaphore
    nodes,    \* runs of the gate and the actor so far
    spent,    \* history: what the agent has charged the session
    lost      \* history: charges that no running cost holds any more

vars == <<node, ledger, call, slots, nodes, spent, lost>>

-----------------------------------------------------------------------------
Calls == [at : {"idle", "waiting", "asking", "done", "raised"},
          attempt : Nat, tries : Nat, bill : Nat]

Idle == [at |-> "idle", attempt |-> 0, tries |-> 0, bill |-> 0]
Waiting == [at |-> "waiting", attempt |-> 0, tries |-> 0, bill |-> ledger]
Asking == [at |-> "asking", attempt |-> 0, tries |-> 1, bill |-> ledger]

IsAsking(c) == call[c].at = "asking"
Settled(c) == call[c].at \in {"done", "raised"}

\* The semaphore is given back however the block of `async with' is left.
FreeIfAnswered(c, at) ==    \* mutation
    slots' = IF c \in Critics /\ at = "done" THEN slots + 1 ELSE slots
Free(c, at) == slots' = IF c \in Critics THEN slots + 1 ELSE slots

Settle(c, at, bill) ==
    /\ call' = [call EXCEPT ![c].at = at, ![c].bill = bill]
    /\ Free(c, at)

Charge(d) == spent' = spent + d
Lose(d) == lost' = lost + d

-----------------------------------------------------------------------------
(* One call: extract_structured over run_task *)

(* add_agent_cost after every answer, before it is validated.  The verifier
   asks its classifier and never adds the answer; the call that updates
   AGENTS.md passes neither a running cost nor a configuration, and only its
   valid answer is added by the caller. *)
Unbilled == node = "verifier"
BilledByCaller == node = "agents_md"

RunningCostOfLastAnswer(c, d) == ledger + d    \* mutation
RunningCost(c, d) == call[c].bill + d

AnswersWell(c, d) ==
    /\ IsAsking(c)
    /\ Charge(d)
    /\ Settle(c, "done", IF Unbilled THEN call[c].bill ELSE RunningCost(c, d))
    /\ Lose(IF Unbilled THEN d ELSE 0)

Reprompt(c, d) ==
    /\ IsAsking(c) /\ node \notin Plain
    /\ Charge(d)
    /\ call' = [call EXCEPT ![c] =
                  [at |-> "asking", attempt |-> @.attempt + 1, tries |-> 1,
                   bill |-> IF BilledByCaller THEN @.bill ELSE RunningCost(c, d)]]
    /\ Lose(IF BilledByCaller THEN d ELSE 0)

AnswersBadlyForever(c, d) == Reprompt(c, d) /\ UNCHANGED slots    \* mutation
AnswersBadlyOutside(c, d) ==    \* mutation
    call[c].attempt < MaxRetries /\ Reprompt(c, d) /\ Free(c, "asking")
AnswersBadly(c, d) ==
    call[c].attempt < MaxRetries /\ Reprompt(c, d) /\ UNCHANGED slots

(* StructuredOutputError carries the running cost of the call.  For AGENTS.md
   that is 0.0, which its handler returns as the cost of the session. *)
GivesUp(c, d) ==
    /\ IsAsking(c) /\ node \notin Plain
    /\ call[c].attempt = MaxRetries
    /\ Charge(d)
    /\ IF BilledByCaller
       THEN Settle(c, "done", 0) /\ Lose(ledger + d)
       ELSE Settle(c, "done", RunningCost(c, d)) /\ Lose(0)

(* A transient error: tenacity calls run_task again, and what the failed try
   had cost is known to nobody. *)
TriesAgain(c, d) ==
    /\ IsAsking(c)
    /\ call[c].tries < MaxTries
    /\ Charge(d) /\ Lose(d)
    /\ call' = [call EXCEPT ![c].tries = @ + 1]
    /\ UNCHANGED slots

(* Any other error, or the last try.  The cost of earlier answers of the
   same call goes with the exception.  A valid answer for AGENTS.md that
   cannot be written or committed ends in the same handler. *)
Raises(c, d) ==
    /\ IsAsking(c)
    /\ Charge(d)
    /\ Settle(c, "raised", ledger)
    /\ Lose(d + call[c].bill - ledger)

CallStep(c) ==
    /\ \/ \E d \in Costs :
            \/ AnswersWell(c, d) \/ AnswersBadly(c, d) \/ GivesUp(c, d)
       \/ \E d \in Costs \cup {0} : TriesAgain(c, d) \/ Raises(c, d)
    /\ UNCHANGED <<node, ledger, nodes>>

-----------------------------------------------------------------------------
(* Nodes *)

(* Another round counts against the bound; what a failed verification leads
   to needs a ledger under the critical budget. *)
Leave(successors) ==
    /\ node' \in successors
    /\ nodes' = IF node' \in {"tdd_gate", "actor"} THEN nodes + 1 ELSE nodes
    /\ node' \in {"tdd_gate", "actor", "intelligent_debugger"} => nodes < MaxNodes
    /\ node = "verifier" /\ node' \notin {"agents_md", "END"} => ledger' < Critical

NodeAsks ==
    /\ node \in Structured \cup Plain
    /\ call["node"].at = "idle"
    /\ call' = [call EXCEPT !["node"] = Asking]
    /\ UNCHANGED <<node, ledger, slots, nodes, spent, lost>>

NodeDoesNotAsk ==
    /\ node \in DOMAIN SilentSuccessors
    /\ call["node"].at = "idle"
    /\ UNCHANGED <<ledger, call, slots, spent, lost>>
    /\ Leave(SilentSuccessors[node])

(* The reducer _add_costs overwrites.  agents_md and arch_rules are one node
   of the graph: between them the ledger stands for cost_after_agents. *)
NodeReturns ==
    /\ call["node"].at = "done" \/ (call["node"].at = "raised" /\ node \in CatchErrors)
    /\ ledger' = call["node"].bill
    /\ call' = [call EXCEPT !["node"] = Idle]
    /\ UNCHANGED <<slots, spent, lost>>
    /\ Leave(Successors[node])

(* The exception leaves the graph; the command line logs it and stops. *)
NodeCrashes ==
    /\ call["node"].at = "raised" /\ node \notin CatchErrors
    /\ call' = [call EXCEPT !["node"] = Idle]
    /\ node' = "crashed"
    /\ UNCHANGED <<ledger, slots, nodes, spent, lost>>

CriticsStart ==
    /\ node = "all_critics"
    /\ \A c \in Critics : call[c].at = "idle"
    /\ call' = [c \in Callers |-> IF c \in Critics THEN Waiting ELSE call[c]]
    /\ UNCHANGED <<node, ledger, slots, nodes, spent, lost>>

Acquire(c) ==
    /\ call[c].at = "waiting"
    /\ slots > 0
    /\ slots' = slots - 1
    /\ call' = [call EXCEPT ![c] = Asking]
    /\ UNCHANGED <<node, ledger, nodes, spent, lost>>

SumOfIncrementsOfBug012 ==    \* mutation
    (call["security"].bill - ledger) + (call["style"].bill - ledger)
      + (call["consistency"].bill - ledger) - ledger

(* Every critic started from the same baseline and returned it plus its own
   cost; one that raised counts as the baseline. *)
SumOfIncrements ==
    (call["security"].bill - ledger) + (call["style"].bill - ledger)
      + (call["consistency"].bill - ledger)

FanIn ==
    /\ \A c \in Critics : Settled(c)
    /\ ledger' = SumOfIncrements + ledger
    /\ call' = [c \in Callers |-> IF c \in Critics THEN Idle ELSE call[c]]
    /\ UNCHANGED <<slots, spent, lost>>
    /\ Leave(Successors[node])

(* The branches run their own actors, critics and verifiers on copies of the
   state; the costs in those copies are dropped with them. *)
Speculate ==
    /\ node = "speculative_branch"
    /\ \E d \in Speculation : Charge(d) /\ Lose(d)
    /\ UNCHANGED <<ledger, call, slots>>
    /\ Leave(Successors[node])

-----------------------------------------------------------------------------
(* `sacv run' builds new NodeDeps and starts from a cost of 0.0. *)
Init ==
    /\ node = "value_node"
    /\ ledger = 0 /\ spent = 0 /\ lost = 0 /\ nodes = 0
    /\ call = [c \in Callers |-> Idle]
    /\ slots = Parallel

Next ==
    \/ \E c \in Callers : CallStep(c)
    \/ \E c \in Critics : Acquire(c)
    \/ NodeAsks \/ NodeDoesNotAsk \/ NodeReturns \/ NodeCrashes
    \/ CriticsStart \/ FanIn \/ Speculate

(* asyncio.timeout bounds every try of run_task, tenacity the tries and the
   loop of extract_structured the answers; the event loop runs what is
   ready. *)
Fairness ==
    /\ \A c \in Callers : WF_vars(CallStep(c))
    /\ \A c \in Critics : WF_vars(Acquire(c))
    /\ WF_vars(CriticsStart) /\ WF_vars(FanIn)

Spec == Init /\ [][Next]_vars /\ Fairness

-----------------------------------------------------------------------------
(* Properties *)

(* The type invariant: no caller asks more often than its retries and tries
   allow, and the semaphore is never over-released. *)
TypeOK ==
    /\ node \in Nodes
    /\ ledger \in Nat /\ spent \in Nat /\ lost \in Nat
    /\ call \in [Callers -> Calls]
    /\ \A c \in Callers : call[c].attempt <= MaxRetries /\ call[c].tries <= MaxTries
    /\ slots \in 0..Parallel
    /\ nodes \in 0..MaxNodes

(* What a running call has added to the cost its node started from. *)
Open(c) == IF IsAsking(c) \/ call[c].at = "done" THEN call[c].bill - ledger ELSE 0

(* The books balance: every dollar the agent charged is in the ledger once,
   or in the running cost of one call that has not returned yet, or was lost
   with an exception, a failed try, a speculative branch, the verifier's
   classifier or the update of AGENTS.md.  Three critics that started from
   one baseline and retried in any order are neither billed twice nor one in
   the place of another. *)
BooksBalance ==
    spent = ledger + lost + Open("security") + Open("style")
              + Open("consistency") + Open("node")

(* At most max_parallel_critics critics are with the agent at any time,
   retries and failures included: the limit the semaphore is for. *)
AtMostParallelAsk == Cardinality({c \in Critics : IsAsking(c)}) <= Parallel

(* After a failed verification the session goes on only while what it was
   charged, but for the charges that nothing bills, is below the critical
   budget: the circuit breaker of route_after_verifier reads a ledger that
   has all of the retries of all nodes and critics before it. *)
GoesOnUnderBudget ==
    [][ node = "verifier"
          /\ node' \in {"actor", "intelligent_debugger", "speculative_branch"}
        => spent - lost < Critical ]_vars

(* A review ends: whatever the agent does, the three critics settle and the
   verifier runs, so no failing critic keeps its place in the semaphore. *)
CriticsReturn == node = "all_critics" ~> node = "verifier"

(* How often the call of c may still ask, and two steps before it asks. *)
CallLeft(c) ==
    LET most == (MaxRetries + 1) * MaxTries IN
    IF call[c].at = "idle" THEN most + 2
    ELSE IF call[c].at = "waiting" THEN most + 1
    ELSE IF IsAsking(c)
         THEN (MaxRetries - call[c].attempt) * MaxTries + MaxTries - call[c].tries + 1
    ELSE 0

(* A call asks at most MaxTries times for each of its MaxRetries + 1 answers,
   however errors and unusable answers alternate: the inner loop of tenacity
   starts again with every round of the outer one, and no round comes back. *)
CallsDescend ==
    [][\A c \in Callers :
          call'[c] # call[c] /\ call'[c] # Idle => CallLeft(c)' < CallLeft(c)]_vars

(* A review never waits for nobody: it starts, or it is complete, or a critic
   is with the agent, or one that waits finds a place free. *)
ReviewGoesOn ==
    node = "all_critics" =>
        \/ \A c \in Critics : call[c].at = "idle"
        \/ \A c \in Critics : Settled(c)
        \/ \E c \in Critics : IsAsking(c)
        \/ slots > 0 /\ \E c \in Critics : call[c].at = "waiting"
=============================================================================
