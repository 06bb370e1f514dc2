-------------------------- MODULE AgentLedgerProofs --------------------------
(***************************************************************************)
(* Proofs about AgentLedger, for any limits, prices and budget: the types, *)
(* that the books balance, that the semaphore bounds the critics that ask, *)
(* that the session goes on only under the critical budget, that calls     *)
(* descend and that a review can always go on.                             *)
(***************************************************************************)
EXTENDS AgentLedger, FiniteSetTheorems, TLAPS

USE ParallelAssumption, RetryAssumption, CostAssumption, BudgetAssumption

(* Critics are at work in their node only, and the call "node" in the nodes
   that ask. *)
PhaseInv ==
    /\ node # "all_critics" => \A c \in Critics : call[c].at = "idle"
    /\ call["node"].at # "idle" => node \in Structured \cup Plain
    /\ call["node"].at # "waiting"

(* A running cost starts at the ledger and only grows; it is the ledger again
   for a call that raised, and for the classifier of the verifier. *)
BillInv ==
    \A c \in Callers :
       /\ call[c].at \in {"waiting", "raised"} => call[c].bill = ledger
       /\ call[c].at = "asking" => call[c].bill >= ledger
       /\ node = "agents_md" /\ call[c].at = "asking" => call[c].bill = ledger
       /\ call[c].at = "done" => call[c].bill >= ledger \/ node = "agents_md"
       /\ node = "verifier" /\ call[c].at # "idle" => call[c].bill = ledger

(* Every place of the semaphore is free or held by a critic that asks. *)
Held(c) == IF IsAsking(c) THEN 1 ELSE 0
SlotsInv == slots + Held("security") + Held("style") + Held("consistency") = Parallel

Safe == TypeOK /\ BooksBalance /\ PhaseInv /\ BillInv /\ SlotsInv

(* The named callers are four different ones. *)
LEMMA CallersAre ==
  /\ Callers = {"security", "style", "consistency", "node"}
  /\ Critics = {"security", "style", "consistency"}
  BY DEF Callers, Critics

(* A call that was asking moves to the record r, for a charge of d. *)
Moves(c, r, d) ==
    /\ IsAsking(c)
    /\ UNCHANGED <<node, ledger, nodes>>
    /\ call' = [call EXCEPT ![c] = r]
    /\ r.at \in {"asking", "done", "raised"}
    /\ r.attempt <= MaxRetries /\ r.tries <= MaxTries
    /\ slots' = IF c \in Critics /\ r.at # "asking" THEN slots + 1 ELSE slots
    /\ spent' = spent + d
    /\ lost' = lost + d - (r.bill - call[c].bill) /\ lost' \in Nat
    /\ r.at = "raised" => r.bill = ledger
    /\ r.at = "asking" => r.bill >= ledger
    /\ r.at = "done" => r.bill >= ledger \/ node = "agents_md"
    /\ node = "agents_md" /\ r.at = "asking" => r.bill = ledger
    /\ node = "verifier" => r.bill = ledger

(* Such a move keeps the invariant: what the call's running cost gains is
   charged, or comes out of what is lost. *)
LEMMA CallKeepsSafe ==
  ASSUME Safe, NEW c \in Callers, NEW r \in Calls, NEW d \in Nat, Moves(c, r, d)
  PROVE  Safe'
<1> USE DEF Safe, Moves
<1>1. /\ call \in [Callers -> Calls] /\ call' \in [Callers -> Calls]
      /\ call'[c] = r
      /\ \A b \in Callers : b # c => call'[b] = call[b]
  BY DEF TypeOK
<1>2. SlotsInv'
  BY <1>1, CallersAre DEF SlotsInv, Held, IsAsking, TypeOK, Calls
<1>3. TypeOK'
  <2>1. slots' \in 0..Parallel
    BY <1>1, <1>2, CallersAre DEF SlotsInv, Held, TypeOK
  <2>2. QED
    BY <1>1, <2>1 DEF TypeOK, Calls
<1>4. BooksBalance'
  BY <1>1, CallersAre DEF BooksBalance, Open, IsAsking, TypeOK, Calls
<1>5. PhaseInv'
  BY <1>1, CallersAre DEF PhaseInv, IsAsking, TypeOK, Calls
<1>6. BillInv'
  BY <1>1 DEF BillInv, IsAsking, TypeOK, Calls
<1>7. QED
  BY <1>2, <1>3, <1>4, <1>5, <1>6

LEMMA CallStepKeepsSafe ==
  ASSUME Safe, NEW c \in Callers, CallStep(c)
  PROVE  Safe'
<1> DEFINE b == call[c].bill
<1>1. /\ call \in [Callers -> Calls] /\ call[c] \in Calls
      /\ b \in Nat /\ ledger \in Nat /\ lost \in Nat
      /\ call[c].attempt \in Nat /\ call[c].tries \in Nat
      /\ call[c].attempt <= MaxRetries /\ call[c].tries <= MaxTries
  BY DEF Safe, TypeOK, Calls
<1>2. /\ UNCHANGED <<node, ledger, nodes>>
      /\ IsAsking(c)
      /\ b >= ledger
      /\ node \in {"agents_md", "verifier"} => b = ledger
  <2>1. UNCHANGED <<node, ledger, nodes>> /\ IsAsking(c)
    BY DEF CallStep, AnswersWell, AnswersBadly, Reprompt, GivesUp, TriesAgain, Raises
  <2>2. QED
    BY <2>1 DEF Safe, BillInv, IsAsking
<1>3. ASSUME NEW d \in Costs, AnswersWell(c, d)
      PROVE  Safe'
  <2> DEFINE e == IF Unbilled THEN b ELSE b + d
             r == [call[c] EXCEPT !.at = "done", !.bill = e]
  <2>0. e \in Nat
    BY <1>1
  <2>1. r \in Calls /\ r.at = "done" /\ r.bill = e
        /\ r.attempt = call[c].attempt /\ r.tries = call[c].tries
    <3> HIDE DEF e
    <3> QED
      BY <1>1, <2>0 DEF Calls
  <2>2. /\ call' = [call EXCEPT ![c] = r] /\ spent' = spent + d
        /\ lost' = lost + (IF Unbilled THEN d ELSE 0)
        /\ slots' = IF c \in Critics THEN slots + 1 ELSE slots
    BY <1>1, <1>3 DEF AnswersWell, Settle, Free, Charge, Lose, RunningCost
  <2>3. lost' = lost + d - (r.bill - b) /\ lost' \in Nat
    BY <1>1, <2>1, <2>2
  <2>4. PICK s \in Calls : s = r
    BY <2>1
  <2> HIDE DEF r
  <2>5. Moves(c, s, d)
    BY <1>1, <1>2, <2>1, <2>2, <2>3, <2>4 DEF Moves, Unbilled
  <2>6. QED
    BY <2>5, CallKeepsSafe
<1>4. ASSUME NEW d \in Costs, AnswersBadly(c, d)
      PROVE  Safe'
  <2> DEFINE r == [at |-> "asking", attempt |-> call[c].attempt + 1, tries |-> 1,
                   bill |-> IF BilledByCaller THEN b ELSE b + d]
  <2>1. r \in Calls /\ r.at = "asking" /\ r.attempt = call[c].attempt + 1
        /\ r.bill = (IF BilledByCaller THEN b ELSE b + d) /\ r.tries = 1
    BY <1>1 DEF Calls
  <2>2. /\ call' = [call EXCEPT ![c] = r] /\ spent' = spent + d
        /\ lost' = lost + (IF BilledByCaller THEN d ELSE 0)
        /\ slots' = slots /\ call[c].attempt < MaxRetries /\ node # "verifier"
    BY <1>1, <1>4 DEF AnswersBadly, Reprompt, Charge, Lose, RunningCost, Plain
  <2>3. lost' = lost + d - (r.bill - b) /\ lost' \in Nat
    BY <1>1, <2>1, <2>2
  <2>4. PICK s \in Calls : s = r
    BY <2>1
  <2> HIDE DEF r
  <2>5. Moves(c, s, d)
    BY <1>1, <1>2, <2>1, <2>2, <2>3, <2>4 DEF Moves, BilledByCaller
  <2>6. QED
    BY <2>5, CallKeepsSafe
<1>5. ASSUME NEW d \in Costs, GivesUp(c, d)
      PROVE  Safe'
  <2> DEFINE e == IF BilledByCaller THEN 0 ELSE b + d
             r == [call[c] EXCEPT !.at = "done", !.bill = e]
  <2>0. e \in Nat
    BY <1>1
  <2>1. r \in Calls /\ r.at = "done" /\ r.bill = e
        /\ r.attempt = call[c].attempt /\ r.tries = call[c].tries
    <3> HIDE DEF e
    <3> QED
      BY <1>1, <2>0 DEF Calls
  <2>2. /\ call' = [call EXCEPT ![c] = r] /\ spent' = spent + d
        /\ lost' = lost + (IF BilledByCaller THEN ledger + d ELSE 0)
        /\ slots' = (IF c \in Critics THEN slots + 1 ELSE slots)
        /\ node # "verifier"
    BY <1>1, <1>5 DEF GivesUp, Settle, Free, Charge, Lose, RunningCost, Plain
  <2>3. lost' = lost + d - (r.bill - b) /\ lost' \in Nat
    BY <1>1, <1>2, <2>1, <2>2 DEF BilledByCaller
  <2>4. PICK s \in Calls : s = r
    BY <2>1
  <2> HIDE DEF r
  <2>5. Moves(c, s, d)
    BY <1>1, <1>2, <2>1, <2>2, <2>3, <2>4 DEF Moves, BilledByCaller
  <2>6. QED
    BY <2>5, CallKeepsSafe
<1>6. ASSUME NEW d \in Costs \cup {0}, TriesAgain(c, d)
      PROVE  Safe'
  <2> DEFINE r == [call[c] EXCEPT !.tries = @ + 1]
  <2>1. r \in Calls /\ r.at = "asking" /\ r.bill = b
        /\ r.attempt = call[c].attempt /\ r.tries = call[c].tries + 1
    BY <1>1, <1>2 DEF Calls, IsAsking
  <2>2. /\ call' = [call EXCEPT ![c] = r] /\ spent' = spent + d /\ lost' = lost + d
        /\ slots' = slots /\ call[c].tries < MaxTries
    BY <1>1, <1>6 DEF TriesAgain, Charge, Lose
  <2>3. lost' = lost + d - (r.bill - b) /\ lost' \in Nat
    BY <1>1, <2>1, <2>2
  <2>4. PICK s \in Calls : s = r
    BY <2>1
  <2> HIDE DEF r
  <2>5. Moves(c, s, d)
    BY <1>1, <1>2, <2>1, <2>2, <2>3, <2>4 DEF Moves
  <2>6. QED
    BY <2>5, CallKeepsSafe
<1>7. ASSUME NEW d \in Costs \cup {0}, Raises(c, d)
      PROVE  Safe'
  <2> DEFINE r == [call[c] EXCEPT !.at = "raised", !.bill = ledger]
  <2>1. r \in Calls /\ r.at = "raised" /\ r.bill = ledger
        /\ r.attempt = call[c].attempt /\ r.tries = call[c].tries
    BY <1>1 DEF Calls
  <2>2. /\ call' = [call EXCEPT ![c] = r] /\ spent' = spent + d
        /\ lost' = lost + (d + b - ledger)
        /\ slots' = (IF c \in Critics THEN slots + 1 ELSE slots)
    BY <1>1, <1>7 DEF Raises, Settle, Free, Charge, Lose
  <2>3. lost' = lost + d - (r.bill - b) /\ lost' \in Nat
    BY <1>1, <1>2, <2>1, <2>2
  <2>4. PICK s \in Calls : s = r
    BY <2>1
  <2> HIDE DEF r
  <2>5. Moves(c, s, d)
    BY <1>1, <1>2, <2>1, <2>2, <2>3, <2>4 DEF Moves
  <2>6. QED
    BY <2>5, CallKeepsSafe
<1>8. QED
  BY <1>3, <1>4, <1>5, <1>6, <1>7 DEF CallStep

(* Where the graph goes next is a node, and the bound counts it. *)
LEMMA LeaveKeepsNode ==
  ASSUME Safe, NEW successors \in SUBSET Nodes, Leave(successors)
  PROVE  node' \in Nodes /\ nodes' \in 0..MaxNodes
  BY DEF Safe, TypeOK, Leave

LEMMA NodeStepKeepsSafe ==
  ASSUME Safe, NodeAsks \/ NodeDoesNotAsk \/ NodeReturns \/ NodeCrashes \/ Speculate
  PROVE  Safe'
<1>1. /\ call \in [Callers -> Calls] /\ ledger \in Nat /\ lost \in Nat
      /\ spent \in Nat /\ node \in Nodes
      /\ \A c \in Callers : call[c] \in Calls
  BY DEF Safe, TypeOK
<1>2. Idle \in Calls /\ Asking \in Calls
  BY <1>1 DEF Idle, Asking, Calls
<1>3. ASSUME NodeAsks
      PROVE  Safe'
  <2>1. /\ call' = [call EXCEPT !["node"] = Asking]
        /\ UNCHANGED <<node, ledger, slots, nodes, spent, lost>>
        /\ node \in Structured \cup Plain /\ call["node"].at = "idle"
    BY <1>3 DEF NodeAsks
  <2>2. /\ call' \in [Callers -> Calls] /\ call'["node"] = Asking
        /\ \A c \in Critics : call'[c] = call[c]
    BY <1>1, <1>2, <2>1, CallersAre
  <2>3. TypeOK'
    BY <2>1, <2>2, CallersAre DEF Safe, TypeOK, Asking
  <2>4. BooksBalance' /\ SlotsInv'
    BY <1>1, <2>1, <2>2, CallersAre
       DEF Safe, BooksBalance, SlotsInv, Held, Open, IsAsking, Asking
  <2>5. PhaseInv'
    BY <2>1, <2>2 DEF Safe, PhaseInv, Asking
  <2>6. BillInv'
    BY <1>1, <2>1, <2>2, CallersAre DEF Safe, BillInv, Asking
  <2>7. QED
    BY <2>3, <2>4, <2>5, <2>6 DEF Safe
<1>4. ASSUME NodeDoesNotAsk
      PROVE  Safe'
  <2>1. SilentSuccessors[node] \in SUBSET Nodes /\ node # "all_critics"
    BY <1>4 DEF NodeDoesNotAsk, SilentSuccessors, Nodes, Structured, Plain, Ended
  <2>2. node' \in Nodes /\ nodes' \in 0..MaxNodes
    BY <1>4, <2>1, LeaveKeepsNode DEF NodeDoesNotAsk
  <2>3. UNCHANGED <<ledger, call, slots, spent, lost>> /\ call["node"].at = "idle"
    BY <1>4 DEF NodeDoesNotAsk
  <2>4. TypeOK' /\ BooksBalance' /\ SlotsInv'
    BY <2>2, <2>3 DEF Safe, TypeOK, BooksBalance, SlotsInv, Held, Open, IsAsking
  <2>5. PhaseInv'
    BY <2>1, <2>3 DEF Safe, PhaseInv
  <2>6. BillInv'
    BY <2>1, <2>3, CallersAre DEF Safe, BillInv, PhaseInv
  <2>7. QED
    BY <2>4, <2>5, <2>6 DEF Safe
<1>5. ASSUME NodeReturns
      PROVE  Safe'
  <2>1. /\ call' = [call EXCEPT !["node"] = Idle]
        /\ UNCHANGED <<slots, spent, lost>> /\ ledger' = call["node"].bill
        /\ call["node"].at \in {"done", "raised"}
    BY <1>5 DEF NodeReturns
  <2>2. /\ call' \in [Callers -> Calls] /\ call'["node"] = Idle
        /\ \A c \in Critics : call'[c] = call[c]
    BY <1>1, <1>2, <2>1, CallersAre
  <2>3. node \in Structured \cup Plain
    BY <2>1 DEF Safe, PhaseInv
  <2>4. Successors[node] \in SUBSET Nodes
    BY <2>3 DEF Successors, Nodes, Structured, Plain, Ended
  <2>5. node' \in Nodes /\ nodes' \in 0..MaxNodes
    BY <1>5, <2>4, LeaveKeepsNode DEF NodeReturns
  <2>6. \A c \in Critics : call[c].at = "idle" /\ call'[c].at = "idle"
    BY <2>2, <2>3 DEF Safe, PhaseInv, Structured, Plain
  <2>7. ledger' \in Nat
    BY <1>1, <2>1, CallersAre DEF Calls
  <2>8. TypeOK'
    BY <2>1, <2>2, <2>5, <2>7, CallersAre DEF Safe, TypeOK, Idle
  <2>9. Open("node") = call["node"].bill - ledger
    BY <1>1, <2>1, CallersAre DEF Open, IsAsking, Safe, BillInv, Calls
  <2>10. \A c \in Callers : call'[c].at = "idle"
    BY <2>2, <2>6, CallersAre DEF Idle
  <2>11. \A c \in Critics : Open(c) = 0
    BY <2>6 DEF Open, IsAsking
  <2>12. \A c \in Callers : Open(c)' = 0
    BY <2>10 DEF Open, IsAsking
  <2>13. BooksBalance'
    BY <1>1, <2>1, <2>7, <2>9, <2>11, <2>12, CallersAre DEF Safe, BooksBalance
  <2>14. SlotsInv'
    BY <2>1, <2>6, CallersAre DEF Safe, SlotsInv, Held, IsAsking
  <2>15. PhaseInv' /\ BillInv'
    BY <2>10, CallersAre DEF PhaseInv, BillInv
  <2>16. QED
    BY <2>8, <2>13, <2>14, <2>15 DEF Safe
<1>6. ASSUME NodeCrashes
      PROVE  Safe'
  <2>1. /\ call' = [call EXCEPT !["node"] = Idle] /\ node' = "crashed"
        /\ UNCHANGED <<ledger, slots, nodes, spent, lost>>
        /\ call["node"].at = "raised"
    BY <1>6 DEF NodeCrashes
  <2>2. /\ call' \in [Callers -> Calls] /\ call'["node"] = Idle
        /\ \A c \in Critics : call'[c] = call[c]
    BY <1>1, <1>2, <2>1, CallersAre
  <2>3. \A c \in Critics : call[c].at = "idle"
    BY <2>1 DEF Safe, PhaseInv, Structured, Plain
  <2>4. \A c \in Callers : call'[c].at = "idle"
    BY <2>2, <2>3, CallersAre DEF Idle
  <2>5. TypeOK'
    BY <2>1, <2>2, CallersAre DEF Safe, TypeOK, Idle, Nodes, Ended
  <2>6. BooksBalance' /\ SlotsInv'
    BY <2>1, <2>3, <2>4, CallersAre
       DEF Safe, BooksBalance, SlotsInv, Held, Open, IsAsking
  <2>7. PhaseInv' /\ BillInv'
    BY <2>1, <2>4, CallersAre DEF PhaseInv, BillInv
  <2>8. QED
    BY <2>5, <2>6, <2>7 DEF Safe
<1>7. ASSUME Speculate
      PROVE  Safe'
  <2>1. PICK d \in Speculation : spent' = spent + d /\ lost' = lost + d
    BY <1>7 DEF Speculate, Charge, Lose
  <2>2. Successors[node] \in SUBSET Nodes /\ node = "speculative_branch"
    BY <1>7 DEF Speculate, Successors, Nodes, Structured, Plain, Ended
  <2>3. node' \in Nodes /\ nodes' \in 0..MaxNodes
    BY <1>7, <2>2, LeaveKeepsNode DEF Speculate
  <2>4. UNCHANGED <<ledger, call, slots>>
    BY <1>7 DEF Speculate
  <2>5. \A c \in Callers : call[c].at = "idle" /\ call'[c].at = "idle"
    BY <2>2, <2>4, CallersAre DEF Safe, PhaseInv, Structured, Plain
  <2>6. TypeOK'
    BY <2>1, <2>3, <2>4 DEF Safe, TypeOK
  <2>7. BooksBalance' /\ SlotsInv'
    BY <1>1, <2>1, <2>4, <2>5, CallersAre
       DEF Safe, BooksBalance, SlotsInv, Held, Open, IsAsking
  <2>8. PhaseInv' /\ BillInv'
    BY <2>5, CallersAre DEF PhaseInv, BillInv
  <2>9. QED
    BY <2>6, <2>7, <2>8 DEF Safe
<1>8. QED
  BY <1>3, <1>4, <1>5, <1>6, <1>7

LEMMA CriticsStepKeepsSafe ==
  ASSUME Safe, CriticsStart \/ FanIn \/ \E c \in Critics : Acquire(c)
  PROVE  Safe'
<1>1. /\ call \in [Callers -> Calls] /\ ledger \in Nat /\ lost \in Nat
      /\ spent \in Nat /\ node \in Nodes
      /\ \A c \in Callers : call[c] \in Calls
  BY DEF Safe, TypeOK
<1>2. Idle \in Calls /\ Asking \in Calls /\ Waiting \in Calls
  BY <1>1 DEF Idle, Asking, Waiting, Calls
<1>3. ASSUME CriticsStart
      PROVE  Safe'
  <2>1. /\ call' = [c \in Callers |-> IF c \in Critics THEN Waiting ELSE call[c]]
        /\ UNCHANGED <<node, ledger, slots, nodes, spent, lost>>
        /\ node = "all_critics" /\ \A c \in Critics : call[c].at = "idle"
    BY <1>3 DEF CriticsStart
  <2>2. /\ call' \in [Callers -> Calls] /\ call'["node"] = call["node"]
        /\ \A c \in Critics : call'[c] = Waiting
    BY <1>1, <1>2, <2>1, CallersAre
  <2>3. TypeOK'
    BY <2>1, <2>2, CallersAre DEF Safe, TypeOK, Waiting
  <2>4. BooksBalance' /\ SlotsInv'
    BY <1>1, <2>1, <2>2, CallersAre
       DEF Safe, BooksBalance, SlotsInv, Held, Open, IsAsking, Waiting
  <2>5. PhaseInv' /\ BillInv'
    BY <2>1, <2>2, CallersAre DEF Safe, PhaseInv, BillInv, Waiting
  <2>6. QED
    BY <2>3, <2>4, <2>5 DEF Safe
<1>4. ASSUME FanIn
      PROVE  Safe'
  <2>1. /\ call' = [c \in Callers |-> IF c \in Critics THEN Idle ELSE call[c]]
        /\ UNCHANGED <<slots, spent, lost>> /\ ledger' = SumOfIncrements + ledger
        /\ \A c \in Critics : call[c].at \in {"done", "raised"}
    BY <1>4 DEF FanIn, Settled
  <2>2. /\ call' \in [Callers -> Calls] /\ call'["node"] = call["node"]
        /\ \A c \in Critics : call'[c] = Idle
    BY <1>1, <1>2, <2>1, CallersAre
  <2>3. node = "all_critics"
    BY <2>1, CallersAre DEF Safe, PhaseInv
  <2>4. call["node"].at = "idle"
    BY <2>3 DEF Safe, PhaseInv, Structured, Plain
  <2>5. \A c \in Callers : call'[c].at = "idle"
    BY <2>2, <2>4, CallersAre DEF Idle
  <2>6. \A c \in Critics : /\ Open(c) = call[c].bill - ledger
                           /\ call[c].bill \in Nat /\ call[c].bill >= ledger
    BY <1>1, <2>1, <2>3, CallersAre DEF Safe, BillInv, Open, IsAsking, Calls
  <2>7. SumOfIncrements = Open("security") + Open("style") + Open("consistency")
    BY <2>6, CallersAre DEF SumOfIncrements
  <2>8. ledger' \in Nat
    BY <1>1, <2>1, <2>6, CallersAre DEF SumOfIncrements
  <2>9. Successors[node] \in SUBSET Nodes
    BY <2>3 DEF Successors, Nodes, Structured, Plain, Ended
  <2>10. node' \in Nodes /\ nodes' \in 0..MaxNodes
    BY <1>4, <2>9, LeaveKeepsNode DEF FanIn
  <2>11. TypeOK'
    BY <2>1, <2>2, <2>8, <2>10, CallersAre DEF Safe, TypeOK, Idle
  <2>12. Open("node") = 0 /\ \A c \in Callers : Open(c)' = 0
    BY <2>4, <2>5 DEF Open, IsAsking
  <2>13. BooksBalance'
    BY <1>1, <2>1, <2>6, <2>7, <2>8, <2>12, CallersAre DEF Safe, BooksBalance
  <2>14. SlotsInv'
    BY <2>1, <2>5, CallersAre DEF Safe, SlotsInv, Held, IsAsking
  <2>15. PhaseInv' /\ BillInv'
    BY <2>5, CallersAre DEF PhaseInv, BillInv
  <2>16. QED
    BY <2>11, <2>13, <2>14, <2>15 DEF Safe
<1>5. ASSUME NEW c \in Critics, Acquire(c)
      PROVE  Safe'
  <2>1. /\ call' = [call EXCEPT ![c] = Asking] /\ slots' = slots - 1 /\ slots > 0
        /\ UNCHANGED <<node, ledger, nodes, spent, lost>>
        /\ call[c].at = "waiting"
    BY <1>5 DEF Acquire
  <2>2. /\ call' \in [Callers -> Calls] /\ call'[c] = Asking
        /\ \A b \in Callers : b # c => call'[b] = call[b]
    BY <1>1, <1>2, <2>1, CallersAre
  <2>3. node = "all_critics"
    BY <2>1 DEF Safe, PhaseInv
  <2>4. TypeOK'
    BY <2>1, <2>2, CallersAre DEF Safe, TypeOK, Asking
  <2>5. BooksBalance'
    BY <1>1, <2>1, <2>2, CallersAre DEF Safe, BooksBalance, Open, IsAsking, Asking
  <2>6. SlotsInv'
    BY <2>1, <2>2, CallersAre DEF Safe, TypeOK, SlotsInv, Held, IsAsking, Asking
  <2>7. PhaseInv'
    BY <2>1, <2>2, <2>3, CallersAre DEF Safe, PhaseInv
  <2>8. BillInv'
    BY <1>1, <2>1, <2>2, <2>3, CallersAre DEF Safe, BillInv, Asking
  <2>9. QED
    BY <2>4, <2>5, <2>6, <2>7, <2>8 DEF Safe
<1>6. QED
  BY <1>3, <1>4, <1>5

LEMMA InitIsSafe == Init => Safe
<1> SUFFICES ASSUME Init PROVE Safe
  OBVIOUS
<1>1. \A c \in Callers : call[c] = Idle
  BY DEF Init
<1>2. TypeOK
  BY DEF Init, TypeOK, Idle, Calls, Nodes, Structured
<1>3. BooksBalance /\ SlotsInv
  BY <1>1, CallersAre DEF Init, BooksBalance, SlotsInv, Held, Open, IsAsking, Idle
<1>4. PhaseInv /\ BillInv
  BY <1>1, CallersAre DEF PhaseInv, BillInv, Idle
<1>5. QED
  BY <1>2, <1>3, <1>4 DEF Safe

LEMMA NextKeepsSafe == Safe /\ [Next]_vars => Safe'
<1> SUFFICES ASSUME Safe, [Next]_vars PROVE Safe'
  OBVIOUS
<1>1. CASE UNCHANGED vars
  BY <1>1 DEF vars, Safe, TypeOK, BooksBalance, PhaseInv, BillInv, SlotsInv,
              Held, Open, IsAsking
<1>2. CASE Next
  BY <1>2, CallStepKeepsSafe, NodeStepKeepsSafe, CriticsStepKeepsSafe DEF Next
<1>3. QED
  BY <1>1, <1>2

(* The inductive invariant: types, books, phases, bills and the semaphore. *)
THEOREM SafetyHolds == Spec => []Safe
  BY InitIsSafe, NextKeepsSafe, PTL DEF Spec

(* Types, and that retries and tries are bounded and the semaphore is never
   released more often than it was taken: extract_structured, run_task and
   `async with critic_semaphore'. *)
THEOREM TypeCorrect == Spec => []TypeOK
  BY SafetyHolds, PTL DEF Safe

(* The books balance: the fan-in of all_critics and the running costs of
   extract_structured bill every answer once, whatever the critics do. *)
THEOREM BooksAlwaysBalance == Spec => []BooksBalance
  BY SafetyHolds, PTL DEF Safe

(* The places held are the critics that ask. *)
LEMMA HeldAreAsking ==
  Cardinality({c \in Critics : IsAsking(c)})
    = Held("security") + Held("style") + Held("consistency")
<1> DEFINE One(c) == IF IsAsking(c) THEN {c} ELSE {}
<1>1. {c \in Critics : IsAsking(c)} = (One("security") \cup One("style")) \cup One("consistency")
  BY CallersAre
<1>2. /\ IsFiniteSet(One("security"))
      /\ Cardinality(One("security")) = Held("security")
  BY FS_EmptySet, FS_Singleton DEF Held
<1>3. ASSUME NEW S, IsFiniteSet(S), NEW c, c \notin S
      PROVE  /\ IsFiniteSet(S \cup One(c))
             /\ Cardinality(S \cup One(c)) = Cardinality(S) + Held(c)
  <2>1. Cardinality(S) \in Nat
    BY <1>3, FS_CardinalityType
  <2>2. CASE IsAsking(c)
    BY <1>3, <2>1, <2>2, FS_AddElement DEF Held
  <2>3. CASE ~IsAsking(c)
    <3>1. S \cup One(c) = S
      BY <2>3
    <3>2. QED
      BY <1>3, <2>1, <2>3, <3>1 DEF Held
  <2>4. QED
    BY <2>2, <2>3
<1>4. /\ IsFiniteSet(One("security") \cup One("style"))
      /\ Cardinality(One("security") \cup One("style"))
           = Held("security") + Held("style")
  BY <1>2, <1>3
<1>5. "consistency" \notin One("security") \cup One("style")
  OBVIOUS
<1>6. Cardinality((One("security") \cup One("style")) \cup One("consistency"))
        = Held("security") + Held("style") + Held("consistency")
  <2> HIDE DEF One
  <2> QED
    BY <1>3, <1>4, <1>5
<1>7. QED
  BY <1>1, <1>6

(* The semaphore of NodeDeps is a limit: never more than max_parallel_critics
   critics ask at once. *)
THEOREM SemaphoreLimitsCritics == Spec => []AtMostParallelAsk
<1>1. Safe => AtMostParallelAsk
  <2> SUFFICES ASSUME Safe PROVE AtMostParallelAsk
    OBVIOUS
  <2>1. slots \in Nat
    BY DEF Safe, TypeOK
  <2>2. QED
    BY <2>1, HeldAreAsking DEF Safe, SlotsInv, Held, AtMostParallelAsk
<1>2. QED
  BY <1>1, SafetyHolds, PTL

(* The circuit breaker of route_after_verifier lets a failed verification go
   on only while all that was billed is under critical_dollar. *)
THEOREM BudgetIsChecked == Spec => GoesOnUnderBudget
<1>1. ASSUME Safe, Next, node = "verifier",
             node' \in {"actor", "intelligent_debugger", "speculative_branch"}
      PROVE  spent - lost < Critical
  <2>1. /\ ledger \in Nat /\ spent \in Nat /\ lost \in Nat
        /\ \A c \in Callers : call[c] \in Calls
    BY <1>1 DEF Safe, TypeOK
  <2>2. \A c \in Callers : Open(c) = 0
    BY <1>1, <2>1, CallersAre DEF Safe, PhaseInv, BillInv, Open, IsAsking, Calls
  <2>3. spent - lost = ledger
    BY <1>1, <2>1, <2>2, CallersAre DEF Safe, BooksBalance
  <2>4. node' # node
    BY <1>1
  <2>5. NodeDoesNotAsk \/ NodeReturns
    BY <1>1, <2>4 DEF Next, CallStep, Acquire, NodeAsks, NodeCrashes, CriticsStart,
                      FanIn, Speculate, Safe, PhaseInv, Settled, Critics
  <2>6. ledger' = ledger /\ ledger' < Critical
    <3>1. CASE NodeDoesNotAsk
      BY <1>1, <3>1 DEF NodeDoesNotAsk, Leave
    <3>2. CASE NodeReturns
      BY <1>1, <3>2, CallersAre DEF NodeReturns, Leave, Safe, BillInv
    <3>3. QED
      BY <2>5, <3>1, <3>2
  <2>7. QED
    BY <2>3, <2>6
<1>2. Safe /\ [Next]_vars =>
        [ node = "verifier"
            /\ node' \in {"actor", "intelligent_debugger", "speculative_branch"}
          => spent - lost < Critical ]_vars
  BY <1>1
<1>3. QED
  BY <1>2, SafetyHolds, PTL DEF Spec, GoesOnUnderBudget

-----------------------------------------------------------------------------
(* Why a review ends *)

(* Among calls of any length, one more round costs more than its tries. *)
LEMMA OneRoundLess ==
  ASSUME NEW r \in Nat, NEW t \in Nat
  PROVE  /\ r * t \in Nat
         /\ (r + 1) * t = r * t + t
BY Z3

(* What a call may become in one step. *)
LEMMA CallBecomes ==
  ASSUME Safe, NEW c \in Callers, CallStep(c)
  PROVE  /\ \A b \in Callers \ {c} : call'[b] = call[b]
         /\ IsAsking(c) /\ node' = node
         /\ \/ call'[c].at \in {"done", "raised"}
            \/ /\ call'[c].at = "asking" /\ call'[c].tries = 1
               /\ call'[c].attempt = call[c].attempt + 1
               /\ call[c].attempt < MaxRetries
            \/ /\ call'[c].at = "asking" /\ call'[c].attempt = call[c].attempt
               /\ call'[c].tries = call[c].tries + 1
<1>1. call \in [Callers -> Calls] /\ call[c] \in Calls
  BY DEF Safe, TypeOK
<1>2. ASSUME NEW d \in Costs,
             AnswersWell(c, d) \/ GivesUp(c, d)
      PROVE  IsAsking(c) /\ \E b : call' = [call EXCEPT ![c].at = "done", ![c].bill = b]
  BY <1>2 DEF AnswersWell, GivesUp, Settle
<1>3. ASSUME NEW d \in Costs \cup {0}, Raises(c, d)
      PROVE  IsAsking(c) /\ call' = [call EXCEPT ![c].at = "raised", ![c].bill = ledger]
  BY <1>3 DEF Raises, Settle
<1>4. ASSUME NEW d \in Costs, AnswersBadly(c, d)
      PROVE  /\ IsAsking(c) /\ call[c].attempt < MaxRetries
             /\ \E b : call' = [call EXCEPT ![c] = [at |-> "asking", tries |-> 1,
                                    attempt |-> call[c].attempt + 1, bill |-> b]]
  BY <1>1, <1>4 DEF AnswersBadly, Reprompt
<1>5. ASSUME NEW d \in Costs \cup {0}, TriesAgain(c, d)
      PROVE  IsAsking(c) /\ call' = [call EXCEPT ![c].tries = call[c].tries + 1]
  BY <1>1, <1>5 DEF TriesAgain
<1>6. IsAsking(c) /\ node' = node
  BY <1>2, <1>3, <1>4, <1>5 DEF CallStep
<1>7. QED
  BY <1>1, <1>2, <1>3, <1>4, <1>5, <1>6 DEF CallStep, IsAsking, Calls

Descends ==
    \A c \in Callers :
        call'[c] # call[c] /\ call'[c] # Idle => CallLeft(c)' < CallLeft(c)

LEMMA CallLeftIs ==
  ASSUME NEW c \in Callers
  PROVE  /\ call[c].at = "idle" => CallLeft(c) = (MaxRetries + 1) * MaxTries + 2
         /\ call[c].at = "waiting" => CallLeft(c) = (MaxRetries + 1) * MaxTries + 1
         /\ call[c].at = "asking" =>
                CallLeft(c) = (MaxRetries - call[c].attempt) * MaxTries
                                + MaxTries - call[c].tries + 1
         /\ call[c].at \in {"done", "raised"} => CallLeft(c) = 0
BY DEF CallLeft, IsAsking

LEMMA NextCallLeftIs ==
  ASSUME NEW c \in Callers
  PROVE  /\ call'[c].at = "waiting" => CallLeft(c)' = (MaxRetries + 1) * MaxTries + 1
         /\ call'[c].at = "asking" =>
                CallLeft(c)' = (MaxRetries - call'[c].attempt) * MaxTries
                                 + MaxTries - call'[c].tries + 1
         /\ call'[c].at \in {"done", "raised"} => CallLeft(c)' = 0
BY DEF CallLeft, IsAsking

LEMMA CallStepDescends ==
  ASSUME Safe, NEW c \in Callers, CallStep(c)
  PROVE  Descends
<1>1. /\ call[c].attempt \in 0..MaxRetries /\ call[c].tries \in 0..MaxTries
      /\ call[c].at = "asking"
  BY CallBecomes DEF Safe, TypeOK, Calls, IsAsking
<1>2. PICK left \in Nat : left = (MaxRetries - call[c].attempt) * MaxTries
  BY <1>1, OneRoundLess
<1>3. CallLeft(c) = left + MaxTries - call[c].tries + 1
  BY <1>1, <1>2, CallLeftIs
<1>4. CASE call'[c].at \in {"done", "raised"}
  BY <1>1, <1>2, <1>3, <1>4, CallBecomes, NextCallLeftIs DEF Descends
<1>5. CASE /\ call'[c].at = "asking" /\ call'[c].tries = 1
           /\ call'[c].attempt = call[c].attempt + 1 /\ call[c].attempt < MaxRetries
  <2>1. PICK r \in Nat : r = MaxRetries - (call[c].attempt + 1)
    BY <1>1, <1>5
  <2>2. left = r * MaxTries + MaxTries /\ r * MaxTries \in Nat
    BY <1>1, <1>2, <2>1, OneRoundLess
  <2>3. CallLeft(c)' = r * MaxTries + MaxTries
    BY <1>5, <2>1, <2>2, NextCallLeftIs
  <2>4. QED BY <1>1, <1>3, <2>2, <2>3, CallBecomes DEF Descends
<1>6. CASE /\ call'[c].at = "asking" /\ call'[c].attempt = call[c].attempt
           /\ call'[c].tries = call[c].tries + 1
  BY <1>1, <1>2, <1>3, <1>6, CallBecomes, NextCallLeftIs DEF Descends
<1>7. QED BY <1>4, <1>5, <1>6, CallBecomes

LEMMA NextDescends ==
  ASSUME Safe, [Next]_vars
  PROVE  Descends
<1>1. call \in [Callers -> Calls]
  BY DEF Safe, TypeOK
<1>2. PICK most \in Nat : most = (MaxRetries + 1) * MaxTries
  BY OneRoundLess
<1>3. most = MaxRetries * MaxTries + MaxTries /\ MaxRetries * MaxTries \in Nat
  BY <1>2, OneRoundLess
<1>4. ASSUME NEW c \in Callers, call'[c] = Asking,
             call[c].at \in {"idle", "waiting"}
      PROVE  CallLeft(c)' < CallLeft(c)
  <2>1. CallLeft(c)' = MaxRetries * MaxTries + MaxTries
    BY <1>3, <1>4, NextCallLeftIs DEF Asking
  <2>2. QED BY <1>2, <1>3, <1>4, <2>1, CallLeftIs
<1>5. CASE NodeAsks
  BY <1>1, <1>4, <1>5, CallersAre DEF NodeAsks, Descends
<1>6. ASSUME NEW c \in Critics, Acquire(c)  PROVE Descends
  BY <1>1, <1>4, <1>6, CallersAre DEF Acquire, Descends
<1>7. CASE CriticsStart
  <2>1. ASSUME NEW c \in Critics  PROVE CallLeft(c)' < CallLeft(c)
    <3>1. call[c].at = "idle" /\ call'[c] = Waiting /\ c \in Callers
      BY <1>7, <2>1, CallersAre DEF CriticsStart
    <3>2. QED BY <1>2, <3>1, CallLeftIs, NextCallLeftIs DEF Waiting
  <2>2. \A c \in Callers \ Critics : call'[c] = call[c]
    BY <1>7 DEF CriticsStart
  <2>3. QED BY <2>1, <2>2 DEF Descends
<1>8. CASE NodeReturns \/ NodeCrashes
  BY <1>1, <1>8 DEF NodeReturns, NodeCrashes, Descends
<1>9. CASE FanIn
  BY <1>1, <1>9 DEF FanIn, Descends
<1>10. CASE NodeDoesNotAsk \/ Speculate \/ UNCHANGED vars
  BY <1>10 DEF NodeDoesNotAsk, Speculate, vars, Descends
<1>11. QED
  BY <1>5, <1>6, <1>7, <1>8, <1>9, <1>10, CallStepDescends DEF Next

(* No call asks more often than its two loops allow together. *)
THEOREM CallsEnd == Spec => CallsDescend
<1>1. Safe /\ [Next]_vars => [Descends]_vars
  BY NextDescends
<1>2. QED
  BY <1>1, SafetyHolds, PTL DEF Spec, CallsDescend, Descends

(* The critics start together and are collected together. *)
TogetherInv ==
    \/ \A c \in Critics : call[c].at = "idle"
    \/ \A c \in Critics : call[c].at # "idle"

LEMMA NextKeepsTogether ==
  ASSUME Safe, TogetherInv, [Next]_vars
  PROVE  TogetherInv'
<1>1. call \in [Callers -> Calls]
  BY DEF Safe, TypeOK
<1> USE <1>1, CallersAre DEF TogetherInv
<1>2. ASSUME NEW c \in Callers, CallStep(c)  PROVE TogetherInv'
  BY <1>2, CallBecomes DEF IsAsking
<1>3. ASSUME NEW c \in Critics, Acquire(c)  PROVE TogetherInv'
  BY <1>3 DEF Acquire, Asking
<1>4. CASE NodeAsks \/ NodeReturns \/ NodeCrashes
  BY <1>4 DEF NodeAsks, NodeReturns, NodeCrashes
<1>5. CASE CriticsStart
  BY <1>5 DEF CriticsStart, Waiting
<1>6. CASE FanIn
  BY <1>6 DEF FanIn, Idle
<1>7. CASE NodeDoesNotAsk \/ Speculate \/ UNCHANGED vars
  BY <1>7 DEF NodeDoesNotAsk, Speculate, vars
<1>8. QED
  BY <1>2, <1>3, <1>4, <1>5, <1>6, <1>7 DEF Next

(* No critic waits for a place that nobody gives back. *)
THEOREM ReviewsGoOn == Spec => []ReviewGoesOn
<1>1. Init => TogetherInv
  BY CallersAre DEF Init, TogetherInv, Idle
<1>2. Safe /\ TogetherInv => ReviewGoesOn
  BY CallersAre DEF Safe, TypeOK, Calls, SlotsInv, Held, TogetherInv,
     ReviewGoesOn, IsAsking, Settled
<1>3. QED
  BY <1>1, <1>2, SafetyHolds, NextKeepsTogether, PTL DEF Spec
=============================================================================
