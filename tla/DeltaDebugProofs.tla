-------------------------- MODULE DeltaDebugProofs --------------------------
(***************************************************************************)
(* Proofs about DeltaDebug, for payloads of any length, any limits and any *)
(* endpoints: what is returned still fails, the search is complete for     *)
(* reasons of one or two fields, the deadline is overrun by a bounded      *)
(* number of tests, and the search ends without one.                       *)
(***************************************************************************)
EXTENDS DeltaDebug, TLAPS

USE LimitsAssumption, EndpointsAssumption

Flags == visible \in BOOLEAN /\ overdue \in BOOLEAN /\ disturbed \in BOOLEAN

(* Where the search is: a list that is divided has two fields, and the pair is
   a pair of the list. *)
Places ==
    /\ n \in 1..MaxFields /\ endpoint \in EndpointType
    /\ pc \in {"enter", "first", "second", "pair", "done", "raised"}
    /\ lo \in 1..n /\ hi \in lo..n
    /\ depth \in 0..MaxDepth + 1
    /\ i \in 0..hi /\ j \in 0..hi + 1 /\ checks \in 0..MaxPairChecks
    /\ pc \in {"first", "second", "pair"} => lo < hi /\ depth <= MaxDepth
    /\ pc = "pair" => i \in lo..hi /\ j \in (i + 1)..(hi + 1)
    /\ pc \in {"enter", "first", "second"} => i = 0 /\ j = 0

Shape == Flags /\ Places /\ overtime \in Nat /\ minimal \subseteq Payload

(* What a test leaves of the clock and of docker, and what it tells. *)
LEMMA TestFacts ==
  ASSUME Shape, NEW fields, Persists(fields) \/ Passes(fields)
  PROVE  /\ overdue' \in BOOLEAN /\ disturbed' \in BOOLEAN
         /\ overtime' \in Nat /\ overtime' <= overtime + 1
         /\ overdue => overdue'
         /\ ~overdue => overtime' = overtime
         /\ disturbed => disturbed'
         /\ ~disturbed' => (Persists(fields) <=> Reported(fields))
         /\ ~disturbed' => (Passes(fields) <=> ~Reported(fields))
<1>1. overdue \in BOOLEAN /\ disturbed \in BOOLEAN /\ overtime \in Nat
  BY DEF Shape, Flags
<1>2. Clock
  BY DEF Persists, Passes
<1>3. /\ overdue' \in BOOLEAN /\ (overdue => overdue')
      /\ disturbed' \in BOOLEAN /\ (disturbed => disturbed')
      /\ ~disturbed' => (Persists(fields) <=> Reported(fields))
      /\ ~disturbed' => (Passes(fields) <=> ~Reported(fields))
  BY <1>1, <1>2 DEF Persists, Passes, Clock
<1>4. /\ overtime' \in Nat /\ overtime' <= overtime + 1
      /\ ~overdue => overtime' = overtime
  BY <1>1, <1>2 DEF Clock
<1>5. QED
  BY <1>3, <1>4

LEMMA MiddleIsInside ==
  ASSUME Shape, lo < hi
  PROVE  Middle \in lo..(hi - 1)
  BY DEF Shape, Places, Middle, Size

LEMMA InitIsShaped == Init => Shape
<1>1. Init => Flags
  BY DEF Init, Flags
<1>2. Init => Places
  BY DEF Init, Places
<1>3. Init => overtime \in Nat /\ minimal \subseteq Payload
  BY DEF Init
<1>4. QED
  BY <1>1, <1>2, <1>3 DEF Shape

LEMMA NextKeepsFlags ==
  ASSUME Shape, [Next]_vars
  PROVE  Flags'
<1> USE DEF Flags, problem
<1>1. Flags
  BY DEF Shape
<1>2. CASE Enter
  BY <1>1, <1>2 DEF Enter
<1>3. CASE FirstHalf
  BY <1>1, <1>3, TestFacts DEF FirstHalf
<1>4. CASE SecondHalf
  BY <1>1, <1>4, TestFacts DEF SecondHalf
<1>5. CASE Pair
  BY <1>1, <1>5, TestFacts DEF Pair
<1>6. CASE Single
  BY <1>1, <1>6, TestFacts DEF Single
<1>7. CASE ContainerDied
  BY <1>1, <1>7 DEF ContainerDied
<1>8. CASE UNCHANGED vars
  BY <1>1, <1>8 DEF vars
<1>9. QED
  BY <1>2, <1>3, <1>4, <1>5, <1>6, <1>7, <1>8 DEF Next

LEMMA NextKeepsPlaces ==
  ASSUME Shape, [Next]_vars
  PROVE  Places'
<1> USE DEF Places, problem, level, pair
<1>1. Places
  BY DEF Shape
<1>2. CASE Enter
  BY <1>1, <1>2 DEF Enter, MayDivide, Goto, Return, Size
<1>3. CASE FirstHalf
  <2>1. Middle \in lo..(hi - 1)
    BY <1>1, <1>3, MiddleIsInside DEF FirstHalf
  <2>2. QED
    BY <1>1, <1>3, <2>1 DEF FirstHalf, Recurse, Goto
<1>4. CASE SecondHalf
  <2>1. Middle \in lo..(hi - 1)
    BY <1>1, <1>4, MiddleIsInside DEF SecondHalf
  <2>2. QED
    BY <1>1, <1>4, <2>1 DEF SecondHalf, Recurse, Goto
<1>5. CASE Pair
  BY <1>1, <1>5 DEF Pair, Return, Goto
<1>6. CASE Single
  BY <1>1, <1>6 DEF Single, NextField, Return, Goto
<1>7. CASE ContainerDied
  BY <1>1, <1>7 DEF ContainerDied
<1>8. CASE UNCHANGED vars
  BY <1>1, <1>8 DEF vars
<1>9. QED
  BY <1>2, <1>3, <1>4, <1>5, <1>6, <1>7, <1>8 DEF Next

LEMMA NextKeepsShape ==
  ASSUME Shape, [Next]_vars
  PROVE  Shape'
<1>1. Flags' /\ Places'
  BY NextKeepsFlags, NextKeepsPlaces
<1>2. overtime' \in Nat
  BY TestFacts DEF Shape, Next, vars, Enter, FirstHalf, SecondHalf, Pair,
     Single, ContainerDied
<1>3. Payload' = Payload
  BY DEF Next, vars, problem, Payload, Enter, FirstHalf, SecondHalf, Pair,
     Single, ContainerDied
<1>4. minimal' \subseteq Payload
  <2>1. minimal \subseteq Payload /\ lo..hi \subseteq Payload
    BY DEF Shape, Places, Payload
  <2>2. pc = "pair" => {i} \subseteq Payload
    BY DEF Shape, Places, Payload
  <2>3. pc = "pair" /\ j <= hi => {i, j} \subseteq Payload
    BY DEF Shape, Places, Payload
  <2>4. CASE Enter
    BY <2>1, <2>4 DEF Enter, Goto, Return
  <2>5. CASE FirstHalf \/ SecondHalf \/ ContainerDied \/ UNCHANGED vars
    BY <2>1, <2>5 DEF FirstHalf, SecondHalf, ContainerDied, vars, Goto, Recurse
  <2>6. CASE Pair
    BY <2>1, <2>3, <2>6 DEF Pair, Goto, Return
  <2>7. CASE Single
    BY <2>1, <2>2, <2>7 DEF Single, NextField, Goto, Return
  <2>8. QED
    BY <2>4, <2>5, <2>6, <2>7 DEF Next
<1>5. QED
  BY <1>1, <1>2, <1>3, <1>4 DEF Shape

(* _delta_minimize: the list at every level is a part of the payload, and the
   counters keep their limits, for payloads of any length. *)
THEOREM TypeCorrect == Spec => []TypeOK
<1>1. Shape /\ [Next]_vars => Shape'
  BY NextKeepsShape
<1>2. Shape => TypeOK
  BY DEF Shape, Flags, Places, TypeOK
<1>3. QED
  BY InitIsShaped, <1>1, <1>2, PTL DEF Spec

-----------------------------------------------------------------------------
(* Every list that the search goes on with fails like the payload. *)
FailInv ==
    Fails(Payload) /\ ~disturbed =>
        IF pc = "done" THEN Fails(minimal) ELSE Fails(lo..hi)

LEMMA NextKeepsFailing ==
  ASSUME Shape, FailInv, [Next]_vars
  PROVE  FailInv'
<1> USE DEF FailInv, problem, level
<1>0. ASSUME UNCHANGED problem  PROVE Payload' = Payload /\ endpoint' = endpoint
  BY <1>0 DEF Payload
<1>1. CASE Enter
  BY <1>0, <1>1 DEF Enter, Goto, Return, Fails
<1>2. CASE FirstHalf
  BY <1>0, <1>2, TestFacts DEF FirstHalf, Recurse, Goto, Fails, Reported
<1>3. CASE SecondHalf
  BY <1>0, <1>3, TestFacts DEF SecondHalf, Recurse, Goto, Fails, Reported
<1>4. CASE Pair
  BY <1>0, <1>4, TestFacts DEF Pair, Return, Goto, Fails, Reported
<1>5. CASE Single
  BY <1>0, <1>5, TestFacts DEF Single, NextField, Return, Goto, Fails, Reported
<1>6. CASE ContainerDied
  BY <1>0, <1>6 DEF ContainerDied, Fails
<1>7. CASE UNCHANGED vars
  BY <1>0, <1>7 DEF vars, Fails
<1>8. QED
  BY <1>1, <1>2, <1>3, <1>4, <1>5, <1>6, <1>7 DEF Next

(* _delta_minimize: "Returns smallest failing subset" -- a failing one it is,
   whichever limit ends the search. *)
THEOREM ReturnsFailing == Spec => []StillFails
<1>1. Init => Shape /\ FailInv
  BY InitIsShaped DEF Init, FailInv, Payload
<1>2. Shape /\ FailInv /\ [Next]_vars => Shape' /\ FailInv'
  BY NextKeepsShape, NextKeepsFailing
<1>3. FailInv => StillFails
  BY DEF FailInv, StillFails
<1>4. QED
  BY <1>1, <1>2, <1>3, PTL DEF Spec

-----------------------------------------------------------------------------
(* No list is divided after the deadline, so that what is tested then is the
   rest of one level. *)
OvertimeInv ==
    /\ ~overdue => overtime = 0
    /\ pc = "first" => ~overdue
    /\ pc = "second" => overtime = 0
    /\ pc = "enter" => overtime <= 1
    /\ pc = "pair" => overtime <= 1 + checks + (i - lo)
    /\ overtime <= 1 + MaxPairChecks + n

LEMMA NextKeepsOvertime ==
  ASSUME Shape, OvertimeInv, [Next]_vars
  PROVE  OvertimeInv'
<1> USE DEF OvertimeInv, problem, level, pair
<1>0. Places /\ overtime \in Nat
  BY DEF Shape
<1>1. CASE Enter
  BY <1>0, <1>1, TestFacts DEF Places, Enter, MayDivide, Goto, Return
<1>2. CASE FirstHalf
  BY <1>0, <1>2, TestFacts DEF Places, FirstHalf, Recurse, Goto
<1>3. CASE SecondHalf
  BY <1>0, <1>3, TestFacts DEF Places, SecondHalf, Recurse, Goto
<1>4. CASE Pair
  BY <1>0, <1>4, TestFacts DEF Places, Pair, Return, Goto
<1>5. CASE Single
  BY <1>0, <1>5, TestFacts DEF Places, Single, NextField, Return, Goto
<1>6. CASE ContainerDied
  BY <1>0, <1>6, TestFacts DEF Places, ContainerDied
<1>7. CASE UNCHANGED vars
  BY <1>0, <1>7, TestFacts DEF Places, vars
<1>8. QED
  BY <1>1, <1>2, <1>3, <1>4, <1>5, <1>6, <1>7 DEF Next

(* _run_delta_debug: "Wall-clock budget". *)
THEOREM DeadlineIsKept == Spec => []OvertimeIsBounded
<1>1. Init => Shape /\ OvertimeInv
  <2>1. Init => OvertimeInv
    BY DEF Init, OvertimeInv
  <2>2. QED
    BY <2>1, InitIsShaped
<1>2. Shape /\ OvertimeInv /\ [Next]_vars => Shape' /\ OvertimeInv'
  BY NextKeepsShape, NextKeepsOvertime
<1>3. OvertimeInv => OvertimeIsBounded
  BY DEF OvertimeInv, OvertimeIsBounded
<1>4. QED
  BY <1>1, <1>2, <1>3, PTL DEF Spec

-----------------------------------------------------------------------------
(* What the tests of one level have shown, if reasons are small and no limit
   was met: no reason lies within a half that was passed, and the pairs before
   i and j are none. *)
Reason(a, b) == {a, b} \in endpoint.culprits

NoReasonIn(from, to) == \A a, b \in from..to : ~Reason(a, b)

PairsPassed ==
    \A a, b \in lo..hi : a < b /\ (a < i \/ (a = i /\ b < j)) => ~Reason(a, b)

Undisturbed == visible /\ SmallReasons /\ ~overdue /\ ~disturbed

LevelInv ==
    Undisturbed =>
        /\ pc \in {"second", "pair"} => NoReasonIn(lo, Middle)
        /\ pc = "pair" => NoReasonIn(Middle + 1, hi) /\ PairsPassed

ReasonInv ==
    pc = "done" /\ Fails(Payload) /\ visible /\ SmallReasons /\ WithinLimits
        => NoneSmaller(minimal)

LEMMA SmallFacts ==
  ASSUME SmallReasons, Shape
  PROVE  /\ \A S : Fails(S) => \E a, b \in S : Reason(a, b)
         /\ \A a, b : ~Fails({a, b}) => ~Reason(a, b)
         /\ \A from, to : ~Fails(from..to) => NoReasonIn(from, to)
<1>1. endpoint.required = {}
  BY DEF SmallReasons
<1>2. \A S : Fails(S) <=> \E c \in endpoint.culprits : c \subseteq S
  BY <1>1 DEF Fails
<1>3. ASSUME NEW S, Fails(S)  PROVE \E a, b \in S : Reason(a, b)
  <2>1. PICK c \in endpoint.culprits : c \subseteq S
    BY <1>2, <1>3
  <2>2. PICK a, b \in 1..MaxFields : c = {a, b}
    BY DEF SmallReasons
  <2>3. QED
    BY <2>1, <2>2 DEF Reason
<1>4. ASSUME NEW S, ~Fails(S), NEW a \in S, NEW b \in S  PROVE ~Reason(a, b)
  BY <1>2, <1>4 DEF Reason
<1>5. \A a, b : ~Fails({a, b}) => ~Reason(a, b)
  BY <1>4
<1>6. \A from, to : ~Fails(from..to) => NoReasonIn(from, to)
  BY <1>4 DEF NoReasonIn
<1>7. QED
  BY <1>3, <1>5, <1>6

(* Problem, endpoint and reasons stay; what was disturbed or late stays so. *)
LEMMA ReasonsStay ==
  ASSUME Shape, [Next]_vars
  PROVE  /\ UNCHANGED problem
         /\ \A a, b : Reason(a, b)' = Reason(a, b)
         /\ SmallReasons' = SmallReasons
         /\ \A S : Fails(S)' = Fails(S)
         /\ Undisturbed' => Undisturbed
<1>1. UNCHANGED problem
  BY DEF Next, vars, Enter, FirstHalf, SecondHalf, Pair, Single, ContainerDied
<1>2. (overdue => overdue') /\ (disturbed => disturbed')
  BY TestFacts DEF Next, vars, Enter, FirstHalf, SecondHalf, Pair, Single,
     ContainerDied
<1>3. SmallReasons' = SmallReasons
  BY <1>1 DEF problem, SmallReasons
<1>4. QED
  BY <1>1, <1>2, <1>3 DEF problem, Reason, Fails, Undisturbed

LEMMA NextKeepsLevel ==
  ASSUME Shape, LevelInv, [Next]_vars
  PROVE  LevelInv'
<1> SUFFICES ASSUME Undisturbed'
             PROVE  /\ pc' \in {"second", "pair"} => NoReasonIn(lo, Middle)'
                    /\ pc' = "pair" => NoReasonIn(Middle + 1, hi)' /\ PairsPassed'
  BY DEF LevelInv
<1>0. Undisturbed /\ SmallReasons /\ visible /\ ~disturbed'
  BY ReasonsStay DEF Undisturbed
<1>1. UNCHANGED problem /\ \A a, b : Reason(a, b)' = Reason(a, b)
  BY ReasonsStay
<1>2. \A S : Reported(S) <=> Fails(S)
  BY <1>0 DEF Reported
<1>3. /\ pc \in {"second", "pair"} => NoReasonIn(lo, Middle)
      /\ pc = "pair" => NoReasonIn(Middle + 1, hi) /\ PairsPassed
  BY <1>0 DEF LevelInv
<1>4. CASE Enter \/ ContainerDied
  BY <1>4 DEF Enter, ContainerDied, Goto, Return
<1>5. CASE FirstHalf
  <2>1. pc' \in {"second", "pair"} =>
           Passes(lo..Middle) /\ UNCHANGED level /\ pc' = "second"
    BY <1>5 DEF FirstHalf, Recurse, Goto
  <2>2. pc' \in {"second", "pair"} => NoReasonIn(lo, Middle)
    BY <2>1, <1>0, <1>2, TestFacts, SmallFacts
  <2>3. QED
    BY <2>1, <2>2, <1>1 DEF level, NoReasonIn, Middle, Size
<1>6. CASE SecondHalf
  <2>1. pc' \in {"second", "pair"} =>
           /\ Passes((Middle + 1)..hi) /\ UNCHANGED level
           /\ pc' = "pair" /\ i' = lo /\ j' = lo + 1
    BY <1>6 DEF SecondHalf, Recurse, Goto
  <2>2. pc' \in {"second", "pair"} => NoReasonIn(Middle + 1, hi)
    BY <2>1, <1>0, <1>2, TestFacts, SmallFacts
  <2>3. NoReasonIn(lo, Middle)
    BY <1>3, <1>6 DEF SecondHalf
  <2>4. lo \in Nat /\ hi \in Nat
    BY DEF Shape, Places
  <2>5. pc' \in {"second", "pair"} => PairsPassed'
    BY <2>1, <2>4 DEF level, PairsPassed
  <2>6. QED
    BY <2>1, <2>2, <2>3, <2>5, <1>1 DEF level, NoReasonIn, Middle, Size
<1>7. CASE Pair
  <2>1. pc' \in {"second", "pair"} =>
           /\ Passes({i, j}) /\ UNCHANGED level
           /\ pc' = "pair" /\ i' = i /\ j' = j + 1
    BY <1>7 DEF Pair, Return, Goto
  <2>2. pc' \in {"second", "pair"} => ~Reason(i, j)
    BY <2>1, <1>0, <1>2, TestFacts, SmallFacts
  <2>3. pc = "pair"
    BY <1>7 DEF Pair
  <2>4. lo \in Nat /\ hi \in Nat /\ i \in Nat /\ j \in Nat
    BY <2>3 DEF Shape, Places
  <2>5. pc' \in {"second", "pair"} => PairsPassed'
    BY <2>1, <2>2, <2>3, <2>4, <1>1, <1>3 DEF level, PairsPassed
  <2>6. QED
    BY <2>1, <2>3, <2>5, <1>1, <1>3 DEF level, NoReasonIn, Middle, Size
<1>8. CASE Single
  <2>1. pc' \in {"second", "pair"} =>
           /\ UNCHANGED level /\ checks # MaxPairChecks
           /\ pc' = "pair" /\ i' = i + 1 /\ j' = i + 2
    BY <1>8 DEF Single, NextField, Return, Goto
  <2>2. pc = "pair" /\ (j > hi \/ checks = MaxPairChecks)
    BY <1>8 DEF Single
  <2>3. lo \in Nat /\ hi \in Nat /\ i \in Nat /\ j \in Nat
    BY <2>2 DEF Shape, Places
  <2>4. pc' \in {"second", "pair"} => PairsPassed'
    BY <2>1, <2>2, <2>3, <1>1, <1>3 DEF level, PairsPassed
  <2>5. QED
    BY <2>1, <2>2, <2>4, <1>1, <1>3 DEF level, NoReasonIn, Middle, Size
<1>9. CASE UNCHANGED vars
  BY <1>9, <1>1, <1>3 DEF vars, level, pair, NoReasonIn, PairsPassed, Middle, Size
<1>10. QED
  BY <1>4, <1>5, <1>6, <1>7, <1>8, <1>9 DEF Next

(* A field lies in one of the halves that were passed. *)
LEMMA NoSingleReason ==
  ASSUME Shape, LevelInv, Undisturbed, pc = "pair", NEW f \in lo..hi
  PROVE  ~Reason(f, f)
<1>1. NoReasonIn(lo, Middle) /\ NoReasonIn(Middle + 1, hi)
  BY DEF LevelInv
<1>2. Middle \in lo..(hi - 1) /\ lo \in Nat /\ hi \in Nat
  BY MiddleIsInside DEF Shape, Places
<1>3. f \in lo..Middle \/ f \in (Middle + 1)..hi
  BY <1>2
<1>4. QED
  BY <1>1, <1>3 DEF NoReasonIn

LEMMA ReturnsReason ==
  ASSUME Shape, LevelInv, FailInv, ReasonInv, [Next]_vars
  PROVE  ReasonInv'
<1> SUFFICES ASSUME pc' = "done", Fails(Payload)', visible', SmallReasons',
                    WithinLimits'
             PROVE  NoneSmaller(minimal)'
  BY DEF ReasonInv
<1>1. /\ UNCHANGED problem /\ SmallReasons
      /\ \A S : Fails(S)' = Fails(S)
      /\ Undisturbed
  BY ReasonsStay DEF Undisturbed, WithinLimits
<1>2. Fails(Payload)
  BY <1>1 DEF Payload, problem, Fails
<1>3. NoneSmaller(minimal)' = NoneSmaller(minimal')
  BY <1>1 DEF NoneSmaller, Fails, problem
<1>4. \A S : Fails(S) => \E a, b \in S : Reason(a, b)
  BY <1>1, SmallFacts
<1>5. CASE Enter
  <2>1. minimal' = lo..hi /\ ~MayDivide /\ UNCHANGED <<level, overdue>>
    BY <1>5 DEF Enter, Goto, Return
  <2>2. lo = hi
    BY <2>1 DEF MayDivide, WithinLimits, level, Size, Shape, Places
  <2>3. minimal' = {lo}
    BY <2>1, <2>2 DEF Shape, Places
  <2>4. QED
    BY <1>3, <2>3 DEF NoneSmaller
<1>6. CASE FirstHalf \/ SecondHalf \/ ContainerDied
  BY <1>6 DEF FirstHalf, SecondHalf, ContainerDied, Goto, Recurse
<1>7. CASE Pair
  <2>1. minimal' = {i, j} /\ pc = "pair" /\ j <= hi
    BY <1>7 DEF Pair, Goto, Return
  <2>2. i \in lo..hi /\ j \in lo..hi
    BY <2>1 DEF Shape, Places
  <2>3. ~Reason(i, i) /\ ~Reason(j, j)
    BY <2>1, <2>2, <1>1, NoSingleReason
  <2>4. ASSUME NEW f \in {i, j}, {i, j} # {f}  PROVE ~Fails({i, j} \ {f})
    <3>1. {i, j} \ {f} = {i} \/ {i, j} \ {f} = {j}
      BY <2>4
    <3>2. ~Fails({i}) /\ ~Fails({j})
      BY <1>4, <2>3
    <3>3. QED
      BY <3>1, <3>2
  <2>5. QED
    BY <1>3, <2>1, <2>4 DEF NoneSmaller
<1>8. CASE Single
  <2>1. pc = "pair" /\ (j > hi \/ checks = MaxPairChecks)
    BY <1>8 DEF Single
  <2>2. minimal' = {i} \/ (minimal' = lo..hi /\ (i = hi \/ checks = MaxPairChecks)
                           /\ UNCHANGED pair)
    BY <1>8 DEF Single, NextField, Goto, Return
  <2>3. CASE minimal' = {i}
    BY <1>3, <2>3 DEF NoneSmaller
  <2>4. CASE minimal' = lo..hi /\ i = hi /\ checks # MaxPairChecks
    <3>1. Fails(lo..hi)
      BY <1>1, <1>2, <2>1 DEF FailInv, Undisturbed
    <3>2. PICK a, b \in lo..hi : Reason(a, b)
      BY <1>4, <3>1
    <3>3. Reason(b, a)
      <4>1. {a, b} = {b, a}
        OBVIOUS
      <4>2. QED
        BY <3>2, <4>1 DEF Reason
    <3>4. a # b
      BY <3>2, <2>1, <1>1, NoSingleReason
    <3>5. PairsPassed
      BY <2>1, <1>1 DEF LevelInv
    <3>6. a \in Nat /\ b \in Nat /\ a <= hi /\ b <= hi /\ hi \in Nat
      BY DEF Shape, Places
    <3>7. CASE a < b
      <4>1. a < i
        BY <3>6, <3>7, <2>4
      <4>2. QED
        BY <3>2, <3>5, <3>7, <4>1 DEF PairsPassed
    <3>8. CASE b < a
      <4>1. b < i
        BY <3>6, <3>8, <2>4
      <4>2. QED
        BY <3>3, <3>5, <3>8, <4>1 DEF PairsPassed
    <3>9. QED
      BY <3>4, <3>6, <3>7, <3>8
  <2>5. checks # MaxPairChecks \/ minimal' = {i}
    BY <2>2 DEF WithinLimits, pair, Shape, Places
  <2>6. QED
    BY <2>2, <2>3, <2>4, <2>5
<1>9. CASE UNCHANGED vars
  <2>1. UNCHANGED <<pc, minimal, overdue, disturbed, depth, checks, visible>>
    BY <1>9 DEF vars, problem, level, pair
  <2>2. WithinLimits
    BY <2>1 DEF WithinLimits
  <2>3. pc = "done" /\ visible
    BY <2>1
  <2>4. NoneSmaller(minimal)
    BY <1>1, <1>2, <2>2, <2>3 DEF ReasonInv
  <2>5. QED
    BY <1>3, <2>1, <2>4
<1>10. QED
  BY <1>5, <1>6, <1>7, <1>8, <1>9 DEF Next

(* _delta_minimize: for reasons of one or two fields, payloads of any length
   and whatever the order of the fields, nothing can be left out of what an
   undisturbed search within its limits returns. *)
THEOREM ReasonsAreFound == Spec => []ReasonIsFound
<1> DEFINE Inv == Shape /\ FailInv /\ LevelInv /\ ReasonInv
<1>1. Init => Inv
  <2>1. Init => FailInv
    BY DEF Init, FailInv, Payload
  <2>2. Init => LevelInv /\ ReasonInv
    BY DEF Init, LevelInv, ReasonInv
  <2>3. QED
    BY <2>1, <2>2, InitIsShaped
<1>2. Inv /\ [Next]_vars => Inv'
  BY NextKeepsShape, NextKeepsFailing, NextKeepsLevel, ReturnsReason
<1>3. Inv => ReasonIsFound
  BY DEF ReasonInv, ReasonIsFound
<1> HIDE DEF Inv
<1>4. QED
  BY <1>1, <1>2, <1>3, PTL DEF Spec

-----------------------------------------------------------------------------
(* The search ends *)

(* Each level costs three steps at most, the last one its pairs and fields. *)
LEMMA NextDescends ==
  ASSUME Shape, Next
  PROVE  StepsLeft \in Nat /\ StepsLeft' < StepsLeft
<1> DEFINE Range(d, h, f, c) ==
      /\ d \in 0..MaxDepth + 1 /\ h \in Nat /\ f \in 0..h /\ c \in 0..MaxPairChecks
<1>1. Range(depth, hi, i, checks) /\ Range(depth', hi', i', checks')
  BY NextKeepsPlaces DEF Shape, Places
<1>2. n \in Nat /\ n' = n /\ hi <= n /\ (pc = "pair" => 1 <= i)
  BY DEF Shape, Places, Next, Enter, FirstHalf, SecondHalf, Pair, Single,
     ContainerDied, problem
<1>3. pc \in {"first", "second", "pair"} => depth <= MaxDepth
  BY DEF Shape, Places
<1> DEFINE Last == MaxPairChecks + n
           Below(d) == 3 * (MaxDepth - d) + Last
<1>4. /\ pc = "enter" => StepsLeft = Below(depth) + 4
      /\ pc = "first" => StepsLeft = Below(depth) + 3
      /\ pc = "second" => StepsLeft = Below(depth) + 2
      /\ pc = "pair" => StepsLeft = MaxPairChecks - checks + hi - i + 1
      /\ pc \in {"done", "raised"} => StepsLeft = 0
  BY DEF StepsLeft
<1>5. /\ pc' = "enter" => StepsLeft' = Below(depth') + 4
      /\ pc' = "first" => StepsLeft' = Below(depth') + 3
      /\ pc' = "second" => StepsLeft' = Below(depth') + 2
      /\ pc' = "pair" => StepsLeft' = MaxPairChecks - checks' + hi' - i' + 1
      /\ pc' \in {"done", "raised"} => StepsLeft' = 0
  BY <1>2 DEF StepsLeft
<1>6. pc \in {"enter", "first", "second", "pair", "done", "raised"}
  BY DEF Shape, Places
<1>7. StepsLeft \in Nat
  BY <1>1, <1>2, <1>3, <1>4, <1>6
<1>8. StepsLeft' < StepsLeft
  <2>1. CASE Enter
    <3>1. pc = "enter" /\ depth' = depth /\ pc' \in {"first", "done"}
      BY <2>1 DEF Enter, Goto, Return, level
    <3>2. QED BY <1>1, <1>2, <1>4, <1>5, <3>1
  <2>2. CASE FirstHalf \/ SecondHalf
    <3>1. \/ pc = "first" /\ pc' = "second" /\ depth' = depth
          \/ pc \in {"first", "second"} /\ pc' = "enter" /\ depth' = depth + 1
          \/ /\ pc = "second" /\ pc' = "pair"
             /\ i' = lo /\ checks' = 0 /\ hi' = hi
      BY <2>2 DEF FirstHalf, SecondHalf, Goto, Recurse, level
    <3>2. lo \in 1..hi
      BY DEF Shape, Places
    <3>3. QED BY <1>1, <1>2, <1>3, <1>4, <1>5, <3>1, <3>2
  <2>3. CASE Pair \/ Single
    <3>1. /\ pc = "pair"
          /\ \/ pc' = "done"
             \/ /\ pc' = "pair" /\ hi' = hi
                /\ \/ i' = i /\ checks' = checks + 1
                   \/ i' = i + 1 /\ checks' = checks
      BY <2>3 DEF Pair, Single, NextField, Goto, Return, level
    <3>2. QED BY <1>1, <1>2, <1>4, <1>5, <3>1
  <2>4. CASE ContainerDied
    BY <1>1, <1>2, <1>3, <1>4, <1>5, <2>4 DEF ContainerDied
  <2>5. QED BY <2>1, <2>2, <2>3, <2>4 DEF Next
<1>9. QED BY <1>7, <1>8

(* The number of tests is linear in the payload, whatever the clock does. *)
THEOREM SearchEnds == Spec => SearchDescends
<1>1. Shape /\ [Next]_vars => [StepsLeft' < StepsLeft]_vars
  BY NextDescends
<1>2. QED
  BY <1>1, InitIsShaped, NextKeepsShape, PTL DEF Spec, SearchDescends
=============================================================================
