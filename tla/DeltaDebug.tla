----------------------------- MODULE DeltaDebug -----------------------------
(***************************************************************************)
(* _delta_minimize of nodes/intelligent_debugger.py: the search for a      *)
(* small part of a request payload that still makes the endpoint fail.     *)
(* Fields are numbered in the order of the payload, so that the list at    *)
(* every level of the recursion is an interval lo..hi of it.  An action is *)
(* the code from the result of one test to the next one.                   *)
(***************************************************************************)
EXTENDS Integers

CONSTANTS
    MaxFields,      \* a bound of the model: the length of the payload
    MaxDepth,       \* the deepest level that is still divided (6 in the code)
    MaxPairChecks,  \* max_pair_checks (20 in the code)
    Endpoints       \* the endpoints the search may meet

ASSUME LimitsAssumption ==
    MaxFields \in Nat /\ MaxDepth \in Nat /\ MaxPairChecks \in Nat \ {0}

(* An endpoint rejects a payload that holds one of the "culprits" or lacks a
   "required" field. *)
EndpointType == [culprits : SUBSET SUBSET (1..MaxFields),
                 required : SUBSET (1..MaxFields)]

ASSUME EndpointsAssumption == Endpoints \subseteq EndpointType

VARIABLES
    n,          \* len(payload)
    endpoint,
    visible,    \* a rejection is an answer below 400 whose body says "error"
    pc,         \* the test that comes next, or how the search ended
    lo, hi,     \* fields
    depth,
    i, j,       \* the fields of the pair, field and other
    checks,
    overdue,    \* time.monotonic() > deadline
    overtime,   \* the tests that were started when it was overdue
    disturbed,  \* docker exec failed or timed out in a test
    minimal     \* what is returned

problem == <<n, endpoint, visible>>
level == <<lo, hi, depth>>
pair == <<i, j, checks>>
vars == <<problem, pc, level, pair, overdue, overtime, disturbed, minimal>>

Payload == 1..n

Fails(fields) ==
    \/ \E c \in endpoint.culprits : c \subseteq fields
    \/ ~(endpoint.required \subseteq fields)

Init ==
    /\ n \in 1..MaxFields
    /\ endpoint \in Endpoints
    /\ visible \in BOOLEAN
    /\ pc = "enter" /\ lo = 1 /\ hi = n /\ depth = 0
    /\ i = 0 /\ j = 0 /\ checks = 0
    /\ overdue = FALSE /\ overtime = 0 /\ disturbed = FALSE
    /\ minimal = {}

-----------------------------------------------------------------------------
(* _test_payload.  The status of the pipeline is that of head, which is 0, and
   curl -sf prints nothing for an answer of 400 or above or a refused
   connection: neither is taken for an error.  When docker exec fails or times
   out its status is taken for one.  Time passes. *)
Reported(fields) == visible /\ Fails(fields)

Clock ==
    /\ overtime' = IF overdue THEN overtime + 1 ELSE overtime
    /\ overdue' \in {overdue, TRUE}

Persists(fields) ==
    /\ \/ Reported(fields) /\ disturbed' = disturbed
       \/ disturbed' = TRUE
    /\ Clock

Passes(fields) == ~Reported(fields) /\ disturbed' = disturbed /\ Clock

Return(fields) ==
    /\ pc' = "done" /\ minimal' = fields
    /\ UNCHANGED <<level, pair>>

Goto(label) == pc' = label /\ UNCHANGED <<level, minimal>>

Size == hi - lo + 1
MiddleOffByOne == lo + Size \div 2   \* mutation
Middle == lo + Size \div 2 - 1       \* the last field of first_half

MayDivide == depth <= MaxDepth /\ Size > 1 /\ ~overdue

Enter ==
    /\ pc = "enter"
    /\ \/ MayDivide /\ Goto("first") /\ UNCHANGED pair
       \/ ~MayDivide /\ Return(lo..hi)
    /\ UNCHANGED <<problem, overdue, overtime, disturbed>>

Recurse(from, to) ==
    /\ pc' = "enter" /\ lo' = from /\ hi' = to /\ depth' = depth + 1
    /\ UNCHANGED <<pair, minimal>>

FirstHalf ==
    /\ pc = "first"
    /\ \/ Persists(lo..Middle) /\ Recurse(lo, Middle)
       \/ Passes(lo..Middle) /\ Goto("second") /\ UNCHANGED pair
    /\ UNCHANGED problem

SecondHalfWhenNotFirst ==       \* mutation
    /\ pc = "second"
    /\ Recurse(Middle + 1, hi)
    /\ UNCHANGED <<problem, overdue, overtime, disturbed>>

SecondHalf ==
    /\ pc = "second"
    /\ \/ Persists((Middle + 1)..hi) /\ Recurse(Middle + 1, hi)
       \/ /\ Passes((Middle + 1)..hi)
          /\ Goto("pair")
          /\ i' = lo /\ j' = lo + 1 /\ checks' = 0
    /\ UNCHANGED problem

PairUncounted ==                \* mutation
    /\ pc = "pair"
    /\ j <= hi /\ checks < MaxPairChecks
    /\ \/ Persists({i, j}) /\ Return({i, j})
       \/ Passes({i, j}) /\ Goto("pair") /\ j' = j + 1
          /\ UNCHANGED <<i, checks>>
    /\ UNCHANGED problem

(* The inner loop: field i with each field behind it, up to the limit. *)
Pair ==
    /\ pc = "pair"
    /\ j <= hi /\ checks < MaxPairChecks
    /\ \/ Persists({i, j}) /\ Return({i, j})
       \/ Passes({i, j}) /\ Goto("pair") /\ j' = j + 1
          /\ checks' = checks + 1 /\ UNCHANGED i
    /\ UNCHANGED problem

NextFieldSkipsOne ==            \* mutation
    IF i = hi \/ checks = MaxPairChecks
    THEN Return(lo..hi)
    ELSE Goto("pair") /\ i' = i + 1 /\ j' = i + 3 /\ UNCHANGED checks

(* The outer loop ends with the list or at the limit; nothing was found. *)
NextField ==
    IF i = hi \/ checks = MaxPairChecks
    THEN Return(lo..hi)
    ELSE Goto("pair") /\ i' = i + 1 /\ j' = i + 2 /\ UNCHANGED checks

(* Field i alone, when the inner loop is through or has met the limit. *)
Single ==
    /\ pc = "pair"
    /\ j > hi \/ checks = MaxPairChecks
    /\ \/ Persists({i}) /\ Return({i})
       \/ Passes({i}) /\ NextField
    /\ UNCHANGED problem

(* exec_in_container raises if the container is gone, and with it the node. *)
ContainerDied ==
    /\ pc \in {"first", "second", "pair"}
    /\ pc' = "raised"
    /\ UNCHANGED <<problem, level, pair, overdue, overtime, disturbed, minimal>>

Next ==
    \/ Enter \/ FirstHalf \/ SecondHalf \/ Pair \/ Single \/ ContainerDied

Spec == Init /\ [][Next]_vars

-----------------------------------------------------------------------------
(* Properties *)

(* The list is a part of the payload, the pair a part of the list, and the
   counts stay within their limits. *)
TypeOK ==
    /\ n \in 1..MaxFields /\ endpoint \in EndpointType /\ visible \in BOOLEAN
    /\ pc \in {"enter", "first", "second", "pair", "done", "raised"}
    /\ lo \in 1..n /\ hi \in lo..n
    /\ depth \in 0..MaxDepth + 1
    /\ i \in 0..hi /\ j \in 0..hi + 1 /\ checks \in 0..MaxPairChecks
    /\ overdue \in BOOLEAN /\ disturbed \in BOOLEAN /\ overtime \in Nat
    /\ minimal \subseteq Payload

(* "Returns smallest failing subset": if the payload was rejected and docker
   did its work, what is returned is rejected too, whatever limit was met. *)
StillFails ==
    pc = "done" /\ Fails(Payload) /\ ~disturbed => Fails(minimal)

WithinLimits ==
    ~overdue /\ ~disturbed /\ depth <= MaxDepth /\ checks < MaxPairChecks

(* Every reason for a rejection is a field or a pair of fields. *)
SmallReasons ==
    /\ endpoint.required = {}
    /\ \A c \in endpoint.culprits : \E a, b \in 1..MaxFields : c = {a, b}

NoneSmaller(fields) == \A f \in fields : fields = {f} \/ ~Fails(fields \ {f})

(* The search for halves, pairs and single fields is complete for reasons of
   one or two fields: nothing can be left out of what it returns. *)
ReasonIsFound ==
    pc = "done" /\ Fails(Payload) /\ visible /\ SmallReasons /\ WithinLimits
        => NoneSmaller(minimal)

(* "Wall-clock budget": at the deadline at most a half, the pairs of one level
   and its single fields are still tested. *)
OvertimeIsBounded == overtime <= 1 + MaxPairChecks + n

(* How many steps the search may still make: three for each level that may be
   divided, the pairs and single fields of the last, and its return. *)
StepsLeft ==
    LET below == 3 * (MaxDepth - depth)
        last == MaxPairChecks + n
    IN  IF pc = "enter" THEN below + last + 4
        ELSE IF pc = "first" THEN below + last + 3
        ELSE IF pc = "second" THEN below + last + 2
        ELSE IF pc = "pair" THEN MaxPairChecks - checks + hi - i + 1
        ELSE 0

(* The search ends after a number of tests that grows with the payload only as
   the payload does, and not with its pairs, even if the deadline never comes. *)
SearchDescends == [][StepsLeft' < StepsLeft]_vars

-----------------------------------------------------------------------------
(* What intelligent_debugger.py says and the program does not do. *)

(* nodes/intelligent_debugger.py:213: "find minimal failing subset of request
   payload", however the endpoint reports the rejection. *)
RejectionIsMinimised ==
    pc = "done" /\ Fails(Payload) /\ SmallReasons /\ WithinLimits
        => NoneSmaller(minimal)
=============================================================================
