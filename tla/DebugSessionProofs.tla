------------------------- MODULE DebugSessionProofs --------------------------
(***************************************************************************)
(* Proofs about DebugSession, for any number of steps and pauses: the      *)
(* types, that variables are read in the pause that they are recorded for, *)
(* that hits come once and in order, that the container is released, that  *)
(* the node goes forward and that it awaits nothing that cannot come.      *)
(***************************************************************************)
EXTENDS DebugSession, SequenceTheorems, TLAPS

USE BoundsAssumption

(* The handle is held from the end of the warm-up on; a node that is over has
   released its container. *)
ReleaseInv ==
    /\ phase \in {"warming", "polling"} => ~held
    /\ ContainerIsReleased

(* Up to the end of the session; no step leads back. *)
Alive == {"warming", "polling", "launching", "connecting", "session"}

(* The debugger is not enabled: the command is not sent or not handled. *)
Unasked == lastId = 0 \/ \E a \in DOMAIN toNode : toNode[a].label = "enable"

(* The first command enables the debugger, and until it is handled the inspector
   is silent: no pause is on its way, taken or looked at. *)
EnableInv ==
    /\ phase \in Alive /\ label = "enable" /\ awaiting = "nothing" => lastId = 0
    /\ lastId = 0 => toNode = <<>>
    /\ \A a \in DOMAIN toNode : toNode[a].label = "enable" => a = 1
    /\ Unasked => fromNode = <<>> /\ event = 0 /\ pauseFuture <= 0

(* The pauses on their way are in order and come after those that were taken. *)
Between(s, taken, last) ==
    \A a \in DOMAIN s : s[a].kind = "paused" => taken < s[a].id /\ s[a].id <= last
Ordered(s) ==
    \A a, b \in DOMAIN s :
        a < b /\ s[a].kind = "paused" /\ s[b].kind = "paused" => s[a].id < s[b].id

PausesInv ==
    /\ event <= pauses /\ pauseFuture <= pauses
    /\ pauseFuture > 0 => event < pauseFuture
    /\ Between(fromNode, event, pauses) /\ Between(fromNode, pauseFuture, pauses)
    /\ Ordered(fromNode)

(* The hits are in order, and before the pause that is looked at until it is
   recorded too. *)
HitsInv ==
    /\ HitsComeInOrder
    /\ \A i \in DOMAIN hits : hits[i] <= event
    /\ phase \in Alive /\ label \in {"variables", "evaluate"} =>
          \A i \in DOMAIN hits : hits[i] < event

(* The node waits for what it reads in a pause; it has been answered, or the
   answer is on its way. *)
Reading == label \in {"variables", "evaluate"} /\ awaiting = "reply"
AnswerComes ==
    \E a \in DOMAIN fromNode :
        fromNode[a].kind = "reply" /\ fromNode[a].id = lastId /\ fromNode[a].ok
Answered == reply.ok \/ AnswerComes

(* The last command is behind all others on its way, so that once it is answered
   none of them is left to move the program on. *)
CommandsInv ==
    /\ \A a \in DOMAIN toNode :
          toNode[a].id <= lastId /\ (toNode[a].id = lastId => a = Len(toNode))
    /\ \A a \in DOMAIN fromNode :
          fromNode[a].kind = "reply" => fromNode[a].id <= lastId
ReadingInv ==
    Reading =>
       /\ \A a \in DOMAIN toNode : toNode[a].id = lastId =>
             toNode[a].label = label /\ toNode[a].event = event
       /\ Answered => toNode = <<>> /\ program = "paused" /\ pauses = event

Safe ==
    /\ TypeOK /\ CommandsInv /\ ReadingInv /\ ReleaseInv
    /\ EnableInv /\ PausesInv /\ HitsInv

(* Messages that go into the wires are of their types. *)
LEMMA MessageTypes ==
  /\ \A i \in Nat, ok \in BOOLEAN : Reply(i, ok) \in Messages
  /\ \A n \in 1..MaxPauses : Paused(n) \in Messages
  /\ NoReply \in Messages
  BY DEF Reply, Paused, NoReply, Messages

(* Every step keeps the types of the node and its surroundings. *)
LEMMA NodeTypesNext ==
  ASSUME NodeTypes, [Next]_vars
  PROVE  NodeTypes'
<1> USE DEF docker, futures, debuggee, wires, progress
<1>1. CASE RunContainer
  BY <1>1 DEF RunContainer, Ends, NodeTypes
<1>2. CASE ContainerReady
  BY <1>2 DEF ContainerReady, Ends, NodeTypes, InTry
<1>3. CASE Launch
  BY <1>3 DEF Launch, Unwound, NodeTypes, InTry
<1>4. CASE StopContainer
  BY <1>4 DEF StopContainer, Ends, NodeTypes
<1>5. CASE RemoveContainer
  BY <1>5 DEF RemoveContainer, NodeTypes
<1>6. CASE Connect
  BY <1>6 DEF Connect, NodeTypes, InTry
<1>7. CASE Send
  BY <1>7 DEF Send, NodeTypes
<1>8. CASE SendRaises
  BY <1>8 DEF SendRaises, Fail, Record, NextStep, NodeTypes, InTry
<1>9. CASE SendReturns
  BY <1>9 DEF SendReturns, Fail, Advance, Await, Evaluate, Record, NextStep,
     NodeTypes, InTry
<1>10. CASE SendTimesOut
  BY <1>10 DEF SendTimesOut, Advance, Await, Evaluate, Record, NextStep,
     NodeTypes, InTry
<1>11. CASE PauseSeen
  BY <1>11 DEF PauseSeen, NodeTypes
<1>12. CASE PauseTimesOut
  BY <1>12 DEF PauseTimesOut, NextStep, NodeTypes, InTry
<1>13. CASE Synthesise
  BY <1>13 DEF Synthesise, Unwound, NodeTypes
<1>14. CASE Cancel
  BY <1>14 DEF Cancel, Ends, Unwound, NodeTypes
<1>15. CASE Receive
  BY <1>15 DEF Receive, NodeTypes
<1>16. CASE InspectorAnswers
  <2>1. /\ UNCHANGED <<phase, outcome, docker, timedOut, open, pauses>>
        /\ program' \in {program, "running"}
    BY <1>16 DEF InspectorAnswers
  <2>2. QED BY <2>1 DEF NodeTypes
<1>17. CASE ProgramPauses
  BY <1>17 DEF ProgramPauses, NodeTypes
<1>18. CASE Disconnect
  <2>1. UNCHANGED <<phase, outcome, docker, timedOut, debuggee>> /\ open' = FALSE
    BY <1>18 DEF Disconnect
  <2>2. QED BY <2>1 DEF NodeTypes
<1>19. CASE ContainerDies
  BY <1>19 DEF ContainerDies, NodeTypes
<1>20. CASE UNCHANGED vars
  BY <1>20 DEF vars, NodeTypes
<1> QED
  BY <1>1, <1>2, <1>3, <1>4, <1>5, <1>6, <1>7, <1>8, <1>9, <1>10, <1>11,
     <1>12, <1>13, <1>14, <1>15, <1>16, <1>17, <1>18, <1>19, <1>20 DEF Next,
     NodeStep, Environment, Done

(* What a command leads to keeps the types of the session. *)
LEMMA RecordTypes ==
  ASSUME SessionTypes, Record
  PROVE  SessionTypes'
<1>1. hits' \in Seq(1..MaxPauses)
  BY DEF SessionTypes, Record
<1>2. steps' \in 0..MaxSteps /\ label' \in Labels
  BY DEF SessionTypes, Record, NextStep, StepLeft, Labels
<1>3. awaiting' = "nothing" /\ event' = event /\ event > 0
  BY DEF SessionTypes, Record, NextStep
<1> QED
  BY <1>1, <1>2, <1>3 DEF SessionTypes

LEMMA AdvanceTypes ==
  ASSUME SessionTypes, Advance
  PROVE  SessionTypes'
<1>1. CASE Await
  BY <1>1 DEF Await, SessionTypes
<1>2. CASE Evaluate
  BY <1>2 DEF Evaluate, SessionTypes, Labels
<1>3. CASE Record
  BY <1>3, RecordTypes
<1>4. CASE /\ label \notin Waits \cup {"variables", "evaluate"}
           /\ label' = Following[label] /\ awaiting' = "nothing"
           /\ UNCHANGED <<phase, event, steps, hits, pauseFuture>>
  BY <1>4 DEF SessionTypes, Labels, Following, Waits
<1> QED
  BY <1>1, <1>2, <1>3, <1>4 DEF Advance

LEMMA FailTypes ==
  ASSUME SessionTypes, Fail
  PROVE  SessionTypes'
<1>1. CASE Record
  BY <1>1, RecordTypes
<1>2. CASE UNCHANGED progress
  BY <1>2 DEF progress, SessionTypes
<1> QED
  BY <1>1, <1>2 DEF Fail

(* Every step keeps the types of the session. *)
LEMMA SessionTypesNext ==
  ASSUME NodeTypes, SessionTypes, ClientTypes, [Next]_vars
  PROVE  SessionTypes'
<1> USE DEF docker, futures, debuggee, wires, progress
<1>1. CASE RunContainer
  BY <1>1 DEF RunContainer, SessionTypes
<1>2. CASE ContainerReady
  BY <1>2 DEF ContainerReady, SessionTypes
<1>3. CASE Launch
  BY <1>3 DEF Launch, SessionTypes
<1>4. CASE StopContainer
  BY <1>4 DEF StopContainer, SessionTypes
<1>5. CASE RemoveContainer
  BY <1>5 DEF RemoveContainer, SessionTypes
<1>6. CASE Connect
  BY <1>6 DEF Connect, SessionTypes
<1>7. CASE Send
  BY <1>7 DEF Send, SessionTypes
<1>8. CASE SendRaises
  BY <1>8, FailTypes DEF SendRaises
<1>9. CASE SendReturns
  BY <1>9, AdvanceTypes, FailTypes DEF SendReturns
<1>10. CASE SendTimesOut
  BY <1>10, AdvanceTypes DEF SendTimesOut
<1>11. CASE PauseSeen
  BY <1>11 DEF PauseSeen, ClientTypes, Labels, SessionTypes
<1>12. CASE PauseTimesOut
  BY <1>12 DEF PauseTimesOut, NextStep, StepLeft, SessionTypes
<1>13. CASE Synthesise
  BY <1>13 DEF Synthesise, SessionTypes
<1>14. CASE Cancel
  BY <1>14 DEF Cancel, SessionTypes
<1>15. CASE Receive
  BY <1>15 DEF Receive, SessionTypes
<1>16. CASE InspectorAnswers
  BY <1>16 DEF InspectorAnswers, SessionTypes
<1>17. CASE ProgramPauses
  BY <1>17 DEF ProgramPauses, SessionTypes
<1>18. CASE Disconnect
  BY <1>18 DEF Disconnect, SessionTypes
<1>19. CASE ContainerDies
  BY <1>19 DEF ContainerDies, SessionTypes
<1>20. CASE UNCHANGED vars
  BY <1>20 DEF vars, SessionTypes
<1> QED
  BY <1>1, <1>2, <1>3, <1>4, <1>5, <1>6, <1>7, <1>8, <1>9, <1>10, <1>11,
     <1>12, <1>13, <1>14, <1>15, <1>16, <1>17, <1>18, <1>19, <1>20 DEF Next,
     NodeStep, Environment, Done

(* Every step keeps the types of the client. *)
LEMMA ClientTypesNext ==
  ASSUME NodeTypes, ClientTypes, WireTypes, [Next]_vars
  PROVE  ClientTypes'
<1> USE DEF docker, futures, debuggee, wires, progress
<1>1. CASE RunContainer
  BY <1>1 DEF RunContainer, ClientTypes
<1>2. CASE ContainerReady
  BY <1>2 DEF ContainerReady, ClientTypes
<1>3. CASE Launch
  BY <1>3 DEF Launch, ClientTypes
<1>4. CASE StopContainer
  BY <1>4 DEF StopContainer, ClientTypes
<1>5. CASE RemoveContainer
  BY <1>5 DEF RemoveContainer, ClientTypes
<1>6. CASE Connect
  BY <1>6 DEF Connect, ClientTypes
<1>7. CASE Send
  BY <1>7, MessageTypes DEF Send, ClientTypes
<1>8. CASE SendRaises
  BY <1>8, MessageTypes DEF SendRaises, Fail, Record, ClientTypes
<1>9. CASE SendReturns
  BY <1>9 DEF SendReturns, Fail, Advance, Await, Awaited, Evaluate, Record,
     Waiting, ClientTypes, None
<1>10. CASE SendTimesOut
  BY <1>10 DEF SendTimesOut, Advance, Await, Awaited, Evaluate, Record,
     Waiting, ClientTypes, None
<1>11. CASE PauseSeen
  BY <1>11 DEF PauseSeen, ClientTypes, None
<1>12. CASE PauseTimesOut
  BY <1>12 DEF PauseTimesOut, ClientTypes, None
<1>13. CASE Synthesise
  BY <1>13 DEF Synthesise, ClientTypes
<1>14. CASE Cancel
  BY <1>14 DEF Cancel, ClientTypes
<1>15. CASE Receive
  <2> DEFINE m == Head(fromNode)
  <2>1. m \in Messages
    BY <1>15 DEF Receive, WireTypes
  <2>2. m.kind = "paused" => m.id \in 1..MaxPauses
    BY <2>1 DEF Messages
  <2>3. /\ lastId' = lastId
        /\ pending' \subseteq pending
        /\ reply' \in {m, reply}
        /\ pauseFuture' \in {pauseFuture} \cup {m.id : x \in {m.kind} \cap {"paused"}}
    BY <1>15 DEF Receive
  <2> QED
    BY <2>1, <2>2, <2>3 DEF ClientTypes
<1>16. CASE InspectorAnswers
  BY <1>16 DEF InspectorAnswers, ClientTypes
<1>17. CASE ProgramPauses
  BY <1>17 DEF ProgramPauses, ClientTypes
<1>18. CASE Disconnect
  BY <1>18 DEF Disconnect, ClientTypes
<1>19. CASE ContainerDies
  BY <1>19 DEF ContainerDies, ClientTypes
<1>20. CASE UNCHANGED vars
  BY <1>20 DEF vars, ClientTypes
<1> QED
  BY <1>1, <1>2, <1>3, <1>4, <1>5, <1>6, <1>7, <1>8, <1>9, <1>10, <1>11,
     <1>12, <1>13, <1>14, <1>15, <1>16, <1>17, <1>18, <1>19, <1>20 DEF Next,
     NodeStep, Environment, Done

(* Every step keeps the types of the wires. *)
LEMMA WireTypesNext ==
  ASSUME NodeTypes, SessionTypes, ClientTypes, WireTypes, [Next]_vars
  PROVE  WireTypes'
<1> USE DEF docker, futures, debuggee, wires, progress
<1>1. CASE RunContainer
  BY <1>1 DEF RunContainer, WireTypes
<1>2. CASE ContainerReady
  BY <1>2 DEF ContainerReady, WireTypes
<1>3. CASE Launch
  BY <1>3 DEF Launch, WireTypes
<1>4. CASE StopContainer
  BY <1>4 DEF StopContainer, WireTypes
<1>5. CASE RemoveContainer
  BY <1>5 DEF RemoveContainer, WireTypes
<1>6. CASE Connect
  BY <1>6 DEF Connect, WireTypes
<1>7. CASE Send
  BY <1>7 DEF Send, SessionTypes, ClientTypes, Commands, WireTypes
<1>8. CASE SendRaises
  BY <1>8 DEF SendRaises, WireTypes
<1>9. CASE SendReturns
  BY <1>9 DEF SendReturns, WireTypes
<1>10. CASE SendTimesOut
  BY <1>10 DEF SendTimesOut, WireTypes
<1>11. CASE PauseSeen
  BY <1>11 DEF PauseSeen, WireTypes
<1>12. CASE PauseTimesOut
  BY <1>12 DEF PauseTimesOut, WireTypes
<1>13. CASE Synthesise
  BY <1>13 DEF Synthesise, WireTypes
<1>14. CASE Cancel
  BY <1>14 DEF Cancel, WireTypes
<1>15. CASE Receive
  BY <1>15 DEF Receive, WireTypes
<1>16. CASE InspectorAnswers
  <2> DEFINE c == Head(toNode)
  <2>1. toNode' \in Seq(Commands) /\ c.id \in Nat
    <3>1. c \in Commands
      BY <1>16 DEF InspectorAnswers, WireTypes
    <3> QED
      BY <1>16, <3>1 DEF InspectorAnswers, WireTypes, Commands
  <2>2. \E r \in Messages, p \in Messages :
          fromNode' \in {Append(fromNode, r), fromNode \o <<p, r>>,
                         fromNode \o <<r, p>>}
    <3>1. Paused(pauses) \in Messages
      BY MessageTypes DEF NodeTypes
    <3>2. /\ Reply(c.id, TRUE) \in Messages
          /\ Reply(c.id, program = "paused") \in Messages
          /\ Reply(c.id, program = "paused" /\ c.event = pauses) \in Messages
      BY <2>1, MessageTypes
    <3> QED
      BY <1>16, <3>1, <3>2 DEF InspectorAnswers
  <2>3. fromNode' \in Seq(Messages)
    <3>1. PICK r \in Messages, p \in Messages :
            fromNode' \in {Append(fromNode, r), fromNode \o <<p, r>>,
                           fromNode \o <<r, p>>}
      BY <2>2
    <3>2. <<p, r>> \in Seq(Messages) /\ <<r, p>> \in Seq(Messages)
      OBVIOUS
    <3>3. fromNode \in Seq(Messages)
      BY DEF WireTypes
    <3>4. /\ Append(fromNode, r) \in Seq(Messages)
          /\ fromNode \o <<p, r>> \in Seq(Messages)
          /\ fromNode \o <<r, p>> \in Seq(Messages)
      BY <3>2, <3>3, AppendProperties, ConcatProperties
    <3> QED
      BY <3>1, <3>4
  <2> QED
    BY <2>1, <2>3 DEF WireTypes
<1>17. CASE ProgramPauses
  BY <1>17, MessageTypes DEF ProgramPauses, NodeTypes, WireTypes
<1>18. CASE Disconnect
  BY <1>18 DEF Disconnect, WireTypes
<1>19. CASE ContainerDies
  BY <1>19 DEF ContainerDies, WireTypes
<1>20. CASE UNCHANGED vars
  BY <1>20 DEF vars, WireTypes
<1> QED
  BY <1>1, <1>2, <1>3, <1>4, <1>5, <1>6, <1>7, <1>8, <1>9, <1>10, <1>11,
     <1>12, <1>13, <1>14, <1>15, <1>16, <1>17, <1>18, <1>19, <1>20 DEF Next,
     NodeStep, Environment, Done

(* A number for each message on its way. *)
LEMMA IdsAreNumbers ==
  ASSUME WireTypes
  PROVE  \A a \in DOMAIN fromNode : fromNode[a].id \in Nat
    /\ (fromNode[a].kind = "paused" => fromNode[a].id > 0)
<1>1. \A a \in DOMAIN fromNode : fromNode[a] \in Messages
  BY DEF WireTypes
<1> QED
  BY <1>1 DEF Messages

LEMMA CommandIdsAreNumbers ==
  ASSUME WireTypes
  PROVE  \A a \in DOMAIN toNode : toNode[a].id \in Nat
<1>1. \A a \in DOMAIN toNode : toNode[a] \in Commands
  BY DEF WireTypes
<1> QED
  BY <1>1 DEF Commands

(* What the proof below needs of most actions: they leave the wires, the program
   and the reply alone, and if the node reads after them it was reading before. *)
LEMMA AnswersKept ==
  ASSUME CommandsInv, ReadingInv,
         UNCHANGED <<toNode, fromNode, lastId, reply, program, pauses>>,
         Reading' => UNCHANGED <<label, awaiting, event>>
  PROVE  CommandsInv' /\ ReadingInv'
<1>1. CommandsInv'
  BY DEF CommandsInv
<1>2. ReadingInv'
  BY DEF ReadingInv, Reading, Answered, AnswerComes
<1> QED
  BY <1>1, <1>2

(* Every step keeps what was read in a pause with that pause. *)
LEMMA AnswersNext ==
  ASSUME TypeOK, CommandsInv, ReadingInv, [Next]_vars
  PROVE  CommandsInv' /\ ReadingInv'
<1> USE DEF docker, futures, debuggee, wires, progress
<1>1. CASE RunContainer
  BY <1>1, AnswersKept DEF RunContainer
<1>2. CASE ContainerReady
  BY <1>2, AnswersKept DEF ContainerReady
<1>3. CASE Launch
  BY <1>3, AnswersKept DEF Launch
<1>4. CASE StopContainer
  BY <1>4, AnswersKept DEF StopContainer
<1>5. CASE RemoveContainer
  BY <1>5, AnswersKept DEF RemoveContainer
<1>6. CASE Connect
  BY <1>6, AnswersKept DEF Connect
<1>7. CASE Send
  <2>1. toNode \in Seq(Commands) /\ lastId \in Nat /\ lastId' = lastId + 1
    BY <1>7 DEF Send, TypeOK, WireTypes, ClientTypes
  <2>2. /\ DOMAIN toNode' = 1..(Len(toNode) + 1) /\ Len(toNode') = Len(toNode) + 1
        /\ \A a \in 1..Len(toNode) : toNode'[a] = toNode[a]
        /\ toNode'[Len(toNode) + 1]
              = [id |-> lastId', label |-> label, event |-> event]
    BY <1>7, <2>1 DEF Send
  <2>3. \A a \in 1..Len(toNode) : toNode[a].id \in Nat
    BY <2>1, CommandIdsAreNumbers DEF TypeOK
  <2>4. \A a \in DOMAIN fromNode :
           fromNode[a].kind = "reply" => fromNode[a].id \in Nat
    BY IdsAreNumbers DEF TypeOK
  <2>5. UNCHANGED <<fromNode, label, event>> /\ ~reply'.ok
    BY <1>7 DEF Send, NoReply
  <2>6. CommandsInv'
    BY <2>1, <2>2, <2>3, <2>4, <2>5 DEF CommandsInv
  <2>7. ~Answered'
    BY <2>1, <2>4, <2>5 DEF CommandsInv, Answered, AnswerComes
  <2>8. \A a \in DOMAIN toNode' : toNode'[a].id = lastId' =>
           toNode'[a].label = label' /\ toNode'[a].event = event'
    BY <2>1, <2>2, <2>3, <2>5 DEF CommandsInv
  <2> QED
    BY <2>6, <2>7, <2>8 DEF ReadingInv
<1>8. CASE SendRaises
  <2>1. ~Reading'
    BY <1>8 DEF SendRaises, Fail, Record, NextStep, Reading
  <2>2. UNCHANGED <<toNode, fromNode>> /\ lastId \in Nat /\ lastId' = lastId + 1
    BY <1>8 DEF SendRaises, TypeOK, ClientTypes
  <2>3. /\ \A a \in DOMAIN toNode : toNode[a].id \in Nat
        /\ \A a \in DOMAIN fromNode :
              fromNode[a].kind = "reply" => fromNode[a].id \in Nat
    BY IdsAreNumbers, CommandIdsAreNumbers DEF TypeOK
  <2> QED
    BY <2>1, <2>2, <2>3 DEF CommandsInv, ReadingInv
<1>9. CASE SendReturns
  <2>1. Reading' => UNCHANGED <<label, awaiting, event>>
    BY <1>9 DEF SendReturns, Fail, Advance, Await, Evaluate, Record, NextStep,
       Reading
  <2> QED
    BY <1>9, <2>1, AnswersKept DEF SendReturns
<1>10. CASE SendTimesOut
  <2>1. ~Reading'
    BY <1>10 DEF SendTimesOut, Advance, Await, Evaluate, Record, NextStep,
       Reading
  <2> QED
    BY <1>10, <2>1, AnswersKept DEF SendTimesOut
<1>11. CASE PauseSeen
  BY <1>11, AnswersKept DEF PauseSeen, Reading
<1>12. CASE PauseTimesOut
  <2>1. ~Reading'
    BY <1>12 DEF PauseTimesOut, NextStep, Reading
  <2> QED
    BY <1>12, <2>1, AnswersKept DEF PauseTimesOut
<1>13. CASE Synthesise
  BY <1>13, AnswersKept DEF Synthesise
<1>14. CASE Cancel
  BY <1>14, AnswersKept DEF Cancel
<1>15. CASE Receive
  <2>1. fromNode \in Seq(Messages) /\ fromNode # <<>> /\ fromNode' = Tail(fromNode)
    BY <1>15 DEF Receive, TypeOK, WireTypes
  <2>2. /\ \A a \in DOMAIN fromNode' :
              a + 1 \in DOMAIN fromNode /\ fromNode'[a] = fromNode[a + 1]
        /\ 1 \in DOMAIN fromNode /\ Head(fromNode) = fromNode[1]
    BY <2>1
  <2>3. UNCHANGED <<toNode, lastId, program, pauses, label, awaiting, event>>
    BY <1>15 DEF Receive
  <2>4. reply' = reply
           \/ /\ reply' = fromNode[1] /\ fromNode[1].kind = "reply"
              /\ fromNode[1].id = lastId
    BY <1>15, <2>2 DEF Receive, Resolves
  <2>5. AnswerComes' => AnswerComes
    BY <2>2, <2>3 DEF AnswerComes
  <2>6. Answered' => Answered
    BY <2>2, <2>4, <2>5 DEF Answered, AnswerComes
  <2>7. CommandsInv'
    BY <2>2, <2>3 DEF CommandsInv
  <2> QED
    BY <2>3, <2>6, <2>7 DEF ReadingInv, Reading
<1>16. CASE InspectorAnswers
  <2> DEFINE c == Head(toNode)
  <2>1. toNode \in Seq(Commands) /\ toNode # <<>> /\ toNode' = Tail(toNode)
    BY <1>16 DEF InspectorAnswers, TypeOK, WireTypes
  <2>2. /\ \A a \in DOMAIN toNode' :
              a + 1 \in DOMAIN toNode /\ toNode'[a] = toNode[a + 1]
        /\ Len(toNode') = Len(toNode) - 1 /\ Len(toNode) \in Nat \ {0}
        /\ 1 \in DOMAIN toNode /\ c = toNode[1] /\ c \in Commands
    BY <2>1
  <2>3. UNCHANGED <<lastId, pauses, label, awaiting, event, reply>>
    BY <1>16 DEF InspectorAnswers
  <2>4. fromNode \in Seq(Messages)
    BY DEF TypeOK, WireTypes
  <2>5. \A a \in DOMAIN fromNode' :
           \/ \E b \in DOMAIN fromNode : fromNode'[a] = fromNode[b]
           \/ fromNode'[a].kind = "paused"
           \/ fromNode'[a].kind = "reply" /\ fromNode'[a].id = c.id
    <3>1. PICK m, n :
             /\ m.kind # "paused" => m.kind = "reply" /\ m.id = c.id
             /\ n.kind # "paused" => n.kind = "reply" /\ n.id = c.id
             /\ fromNode' \in {Append(fromNode, m), fromNode \o <<m, n>>}
      <4>1. /\ Paused(pauses).kind = "paused"
            /\ \A ok : Reply(c.id, ok).kind = "reply" /\ Reply(c.id, ok).id = c.id
        BY DEF Paused, Reply
      <4>2. CASE c.label = "enable" /\ program = "paused"
        <5> DEFINE p == Paused(pauses)  r == Reply(c.id, TRUE)
        <5>1. fromNode' \in {fromNode \o <<p, r>>, fromNode \o <<r, p>>}
          BY <1>16, <4>2 DEF InspectorAnswers
        <5>2. p.kind = "paused" /\ r.kind = "reply" /\ r.id = c.id
          BY <4>1
        <5> HIDE DEF p, r
        <5> QED
          BY <5>1, <5>2
      <4>3. CASE ~(c.label = "enable" /\ program = "paused")
        <5>1. \E ok : fromNode' = Append(fromNode, Reply(c.id, ok))
          BY <1>16, <4>3 DEF InspectorAnswers
        <5> QED
          BY <4>1, <5>1
      <4> QED
        BY <4>2, <4>3
    <3>2. CASE fromNode' = Append(fromNode, m)
      BY <2>4, <3>1, <3>2
    <3>3. CASE fromNode' = fromNode \o <<m, n>>
      <4>1. /\ DOMAIN fromNode' = 1..(Len(fromNode) + 2)
            /\ \A a \in 1..Len(fromNode) : fromNode'[a] = fromNode[a]
            /\ fromNode'[Len(fromNode) + 1] = m /\ fromNode'[Len(fromNode) + 2] = n
        BY <2>4, <3>3
      <4> QED
        BY <2>4, <3>1, <4>1
    <3> QED
      BY <3>1, <3>2, <3>3
  <2>6. CommandsInv'
    BY <2>2, <2>3, <2>5 DEF CommandsInv
  <2>7. ASSUME Reading'
        PROVE  /\ \A a \in DOMAIN toNode' : toNode'[a].id = lastId' =>
                     toNode'[a].label = label' /\ toNode'[a].event = event'
               /\ Answered' => toNode' = <<>> /\ program' = "paused"
                                /\ pauses' = event'
    <3>1. Reading /\ ~Answered
      BY <2>1, <2>3, <2>7 DEF Reading, ReadingInv
    <3>2. CASE c.id # lastId
      <4>1. ~AnswerComes'
        BY <2>3, <2>5, <3>1, <3>2 DEF Answered, AnswerComes
      <4> QED
        BY <2>2, <2>3, <3>1, <4>1 DEF Answered, ReadingInv
    <3>3. CASE c.id = lastId
      <4>1. Len(toNode) = 1 /\ c.label = label /\ c.event = event
        BY <2>2, <3>1, <3>3 DEF CommandsInv, ReadingInv
      <4>2. toNode' = <<>>
        BY <2>1, <4>1
      <4>3. /\ UNCHANGED program
            /\ fromNode' = Append(fromNode,
                  Reply(c.id, program = "paused" /\ c.event = pauses))
        BY <1>16, <3>1, <4>1 DEF InspectorAnswers, Reading
      <4>4. AnswerComes' => program = "paused" /\ event = pauses
        <5> DEFINE m == Reply(c.id, program = "paused" /\ c.event = pauses)
        <5>1. m.ok = (program = "paused" /\ c.event = pauses)
          BY DEF Reply
        <5>2. \A a \in DOMAIN fromNode' :
                 \/ a \in DOMAIN fromNode /\ fromNode'[a] = fromNode[a]
                 \/ fromNode'[a] = m
          <6>1. fromNode' = Append(fromNode, m)
            BY <4>3
          <6> HIDE DEF m
          <6> QED
            BY <2>4, <6>1
        <5>3. ~AnswerComes
          BY <3>1 DEF Answered
        <5>4. AnswerComes' => m.ok
          <6> HIDE DEF m
          <6> QED
            BY <2>3, <5>2, <5>3 DEF AnswerComes
        <5> QED
          BY <4>1, <5>1, <5>4
      <4> QED
        BY <2>3, <3>1, <4>2, <4>3, <4>4 DEF Answered
    <3> QED
      BY <3>2, <3>3
  <2> QED
    BY <2>6, <2>7 DEF ReadingInv
<1>17. CASE ProgramPauses
  <2>1. /\ UNCHANGED <<toNode, lastId, label, awaiting, event, reply>>
        /\ fromNode' = Append(fromNode, Paused(pauses')) /\ program = "running"
    BY <1>17 DEF ProgramPauses
  <2>2. \A a \in DOMAIN fromNode' : fromNode'[a].kind = "reply" =>
           a \in DOMAIN fromNode /\ fromNode'[a] = fromNode[a]
    <3>1. fromNode \in Seq(Messages) /\ Paused(pauses').kind = "paused"
      BY DEF TypeOK, WireTypes, Paused
    <3> QED
      BY <2>1, <3>1
  <2>3. Answered' => Answered
    BY <2>1, <2>2 DEF Answered, AnswerComes
  <2>4. CommandsInv'
    BY <2>1, <2>2 DEF CommandsInv
  <2> QED
    BY <2>1, <2>3, <2>4 DEF ReadingInv, Reading
<1>18. CASE Disconnect
  BY <1>18, AnswersKept DEF Disconnect
<1>19. CASE ContainerDies
  BY <1>19, AnswersKept DEF ContainerDies
<1>20. CASE UNCHANGED vars
  BY <1>20, AnswersKept DEF vars
<1> QED
  BY <1>1, <1>2, <1>3, <1>4, <1>5, <1>6, <1>7, <1>8, <1>9, <1>10, <1>11,
     <1>12, <1>13, <1>14, <1>15, <1>16, <1>17, <1>18, <1>19, <1>20 DEF Next,
     NodeStep, Environment, Done

(* Every step keeps the container released in the end. *)
LEMMA ReleaseNext ==
  ASSUME NodeTypes, ReleaseInv, [Next]_vars
  PROVE  ReleaseInv'
<1> USE DEF docker, futures, debuggee, wires, progress
<1>1. CASE RunContainer
  BY <1>1 DEF RunContainer, ReleaseInv, ContainerIsReleased
<1>2. CASE ContainerReady
  BY <1>2 DEF ContainerReady, ReleaseInv, ContainerIsReleased
<1>3. CASE Launch
  BY <1>3 DEF Launch, Unwound, ReleaseInv, ContainerIsReleased
<1>4. CASE StopContainer
  BY <1>4 DEF StopContainer, Ends, ReleaseInv, ContainerIsReleased
<1>5. CASE RemoveContainer
  BY <1>5 DEF RemoveContainer, ReleaseInv, ContainerIsReleased
<1>6. CASE Connect
  BY <1>6 DEF Connect, ReleaseInv, ContainerIsReleased
<1>7. CASE Send
  BY <1>7 DEF Send, ReleaseInv, ContainerIsReleased
<1>8. CASE SendRaises
  BY <1>8 DEF SendRaises, Fail, Record, NextStep, ReleaseInv,
     ContainerIsReleased
<1>9. CASE SendReturns
  BY <1>9 DEF SendReturns, Fail, Advance, Await, Evaluate, Record, NextStep,
     ReleaseInv, ContainerIsReleased
<1>10. CASE SendTimesOut
  BY <1>10 DEF SendTimesOut, Advance, Await, Evaluate, Record, NextStep,
     ReleaseInv, ContainerIsReleased
<1>11. CASE PauseSeen
  BY <1>11 DEF PauseSeen, ReleaseInv, ContainerIsReleased
<1>12. CASE PauseTimesOut
  BY <1>12 DEF PauseTimesOut, NextStep, ReleaseInv, ContainerIsReleased
<1>13. CASE Synthesise
  BY <1>13 DEF Synthesise, Unwound, ReleaseInv, ContainerIsReleased
<1>14. CASE Cancel
  BY <1>14 DEF Cancel, Ends, Unwound, NodeTypes, ReleaseInv,
     ContainerIsReleased
<1>15. CASE Receive
  BY <1>15 DEF Receive, ReleaseInv, ContainerIsReleased
<1>16. CASE InspectorAnswers
  BY <1>16 DEF InspectorAnswers, ReleaseInv, ContainerIsReleased
<1>17. CASE ProgramPauses
  BY <1>17 DEF ProgramPauses, ReleaseInv, ContainerIsReleased
<1>18. CASE Disconnect
  BY <1>18 DEF Disconnect, ReleaseInv, ContainerIsReleased
<1>19. CASE ContainerDies
  BY <1>19 DEF ContainerDies, ReleaseInv, ContainerIsReleased
<1>20. CASE UNCHANGED vars
  BY <1>20 DEF vars, ReleaseInv, ContainerIsReleased
<1> QED
  BY <1>1, <1>2, <1>3, <1>4, <1>5, <1>6, <1>7, <1>8, <1>9, <1>10, <1>11,
     <1>12, <1>13, <1>14, <1>15, <1>16, <1>17, <1>18, <1>19, <1>20 DEF Next,
     NodeStep, Environment, Done

(* Every step keeps the inspector silent until the debugger is enabled. *)
LEMMA EnableNext ==
  ASSUME TypeOK, EnableInv, [Next]_vars
  PROVE  EnableInv'
<1> USE DEF docker, futures, debuggee, wires, progress
<1>1. CASE RunContainer
  BY <1>1 DEF RunContainer, Ends, Alive, EnableInv, Unasked
<1>2. CASE ContainerReady
  BY <1>2 DEF ContainerReady, Ends, Alive, EnableInv, Unasked
<1>3. CASE Launch
  BY <1>3 DEF Launch, Unwound, Alive, EnableInv, Unasked
<1>4. CASE StopContainer
  BY <1>4 DEF StopContainer, Ends, Alive, EnableInv, Unasked
<1>5. CASE RemoveContainer
  BY <1>5 DEF RemoveContainer, Alive, EnableInv, Unasked
<1>6. CASE Connect
  BY <1>6 DEF Connect, Alive, EnableInv, Unasked
<1>7. CASE Send
  <2> DEFINE c == [id |-> lastId', label |-> label, event |-> event]
  <2>1. toNode \in Seq(Commands) /\ c \in Commands /\ lastId' > 0
    BY <1>7 DEF Send, TypeOK, WireTypes, SessionTypes, ClientTypes, Commands
  <2>2. /\ DOMAIN toNode' = 1..(Len(toNode) + 1)
        /\ \A a \in 1..Len(toNode) : toNode'[a] = toNode[a]
        /\ toNode'[Len(toNode) + 1].label = label
    BY <1>7, <2>1 DEF Send
  <2>3. label = "enable" => lastId = 0 /\ Len(toNode) = 0
    BY <1>7 DEF Send, EnableInv, Alive
  <2>4. Unasked' => Unasked
    BY <2>1, <2>2, <2>3 DEF Unasked
  <2>5. \A a \in DOMAIN toNode' : toNode'[a].label = "enable" => a = 1
    BY <2>1, <2>2, <2>3 DEF EnableInv
  <2> QED
    BY <1>7, <2>1, <2>4, <2>5 DEF Send, EnableInv
<1>8. CASE SendRaises
  <2>1. lastId' > 0
    BY <1>8 DEF SendRaises, TypeOK, ClientTypes
  <2>2. Unasked' => Unasked
    BY <1>8, <2>1 DEF SendRaises, Unasked
  <2>3. UNCHANGED <<toNode, fromNode, event, pauseFuture>>
    BY <1>8 DEF SendRaises, Fail, Record, NextStep
  <2>4. ~(phase' \in Alive /\ label' = "enable")
    BY <1>8 DEF SendRaises, Fail, Record, NextStep, Alive
  <2> QED
    BY <2>1, <2>2, <2>3, <2>4 DEF EnableInv
<1>9. CASE SendReturns
  <2>1. UNCHANGED <<lastId, toNode, fromNode, event>> /\ pauseFuture' \in {pauseFuture, 0}
    BY <1>9 DEF SendReturns, Fail, Advance, Await, Awaited, Waiting, Evaluate,
       Record, NextStep
  <2>2. label' = "enable" => phase' \notin Alive
    BY <1>9 DEF SendReturns, Fail, Advance, Await, Evaluate, Record, NextStep,
       Following, TypeOK, SessionTypes, Labels, Waits, Alive
  <2> QED
    BY <2>1, <2>2 DEF EnableInv, Unasked
<1>10. CASE SendTimesOut
  <2>1. UNCHANGED <<lastId, toNode, fromNode, event>> /\ pauseFuture' \in {pauseFuture, 0}
    BY <1>10 DEF SendTimesOut, Advance, Await, Awaited, Waiting, Evaluate,
       Record, NextStep
  <2>2. label' = "enable" => phase' \notin Alive
    BY <1>10 DEF SendTimesOut, Advance, Await, Evaluate, Record, NextStep,
       Following, TypeOK, SessionTypes, Labels, Waits, Alive
  <2> QED
    BY <2>1, <2>2 DEF EnableInv, Unasked
<1>11. CASE PauseSeen
  <2>1. ~Unasked
    BY <1>11 DEF PauseSeen, EnableInv, TypeOK, ClientTypes, None
  <2> QED
    BY <1>11, <2>1 DEF PauseSeen, EnableInv, Unasked, Alive
<1>12. CASE PauseTimesOut
  <2>1. UNCHANGED <<lastId, toNode, fromNode, event>> /\ pauseFuture' = None
    BY <1>12 DEF PauseTimesOut, NextStep
  <2>2. label' = "enable" => phase' \notin Alive
    BY <1>12 DEF PauseTimesOut, NextStep, Alive
  <2> QED
    BY <2>1, <2>2 DEF EnableInv, Unasked, None
<1>13. CASE Synthesise
  BY <1>13 DEF Synthesise, Unwound, Alive, EnableInv, Unasked
<1>14. CASE Cancel
  BY <1>14 DEF Cancel, Ends, Unwound, Alive, EnableInv, Unasked
<1>15. CASE Receive
  BY <1>15 DEF Receive, Alive, EnableInv, Unasked
<1>16. CASE InspectorAnswers
  <2>1. toNode \in Seq(Commands) /\ toNode # <<>> /\ toNode' = Tail(toNode)
    BY <1>16 DEF InspectorAnswers, TypeOK, WireTypes
  <2>2. \A a \in DOMAIN toNode' :
           toNode'[a] = toNode[a + 1] /\ a + 1 \in DOMAIN toNode /\ a + 1 # 1
    BY <2>1
  <2>3. ~Unasked' /\ lastId' # 0
    BY <1>16, <2>1, <2>2 DEF InspectorAnswers, EnableInv, Unasked
  <2>4. \A a \in DOMAIN toNode' : toNode'[a].label # "enable"
    BY <2>2 DEF EnableInv
  <2>5. UNCHANGED <<phase, label, awaiting, lastId>>
    BY <1>16 DEF InspectorAnswers
  <2> QED
    BY <2>3, <2>4, <2>5 DEF EnableInv, Unasked, Alive
<1>17. CASE ProgramPauses
  <2>1. ~Unasked
    BY <1>17 DEF ProgramPauses, Enabled, Unasked, TypeOK, ClientTypes
  <2> QED
    BY <1>17, <2>1 DEF ProgramPauses, EnableInv, Unasked, Alive
<1>18. CASE Disconnect
  BY <1>18 DEF Disconnect, Alive, EnableInv, Unasked
<1>19. CASE ContainerDies
  BY <1>19 DEF ContainerDies, Alive, EnableInv, Unasked
<1>20. CASE UNCHANGED vars
  BY <1>20 DEF vars, Alive, EnableInv, Unasked
<1> QED
  BY <1>1, <1>2, <1>3, <1>4, <1>5, <1>6, <1>7, <1>8, <1>9, <1>10, <1>11,
     <1>12, <1>13, <1>14, <1>15, <1>16, <1>17, <1>18, <1>19, <1>20 DEF Next,
     NodeStep, Environment, Done

(* Messages appended to the pauses on their way keep them in order. *)
LEMMA ReplyAppended ==
  ASSUME NEW s \in Seq(Messages), NEW i, NEW ok, Ordered(s)
  PROVE  /\ Ordered(Append(s, Reply(i, ok)))
         /\ \A e, p : Between(s, e, p) => Between(Append(s, Reply(i, ok)), e, p)
<1>1. Reply(i, ok).kind # "paused"
  BY DEF Reply
<1>2. /\ DOMAIN Append(s, Reply(i, ok)) = 1..(Len(s) + 1)
      /\ \A a \in DOMAIN s : Append(s, Reply(i, ok))[a] = s[a]
      /\ Append(s, Reply(i, ok))[Len(s) + 1] = Reply(i, ok)
      /\ DOMAIN s = 1..Len(s)
  OBVIOUS
<1> QED
  BY <1>1, <1>2 DEF Between, Ordered

LEMMA PauseAppended ==
  ASSUME NEW s \in Seq(Messages), NEW n \in Nat,
         \A a \in DOMAIN s : s[a].kind = "paused" => s[a].id < n, Ordered(s)
  PROVE  Ordered(Append(s, Paused(n)))
<1>1. Paused(n).id = n
  BY DEF Paused
<1>2. /\ DOMAIN Append(s, Paused(n)) = 1..(Len(s) + 1)
      /\ \A a \in DOMAIN s : Append(s, Paused(n))[a] = s[a]
      /\ Append(s, Paused(n))[Len(s) + 1] = Paused(n)
      /\ DOMAIN s = 1..Len(s)
  OBVIOUS
<1> QED
  BY <1>1, <1>2 DEF Ordered

(* Without the first message the others are still in order. *)
LEMMA TailOrdered ==
  ASSUME NEW s \in Seq(Messages), s # <<>>, Ordered(s)
  PROVE  /\ Ordered(Tail(s))
         /\ Head(s).kind = "paused" =>
              \A a \in DOMAIN Tail(s) :
                 Tail(s)[a].kind = "paused" => Head(s).id < Tail(s)[a].id
         /\ \A a \in DOMAIN Tail(s) : a + 1 \in DOMAIN s /\ Tail(s)[a] = s[a + 1]
<1>1. /\ DOMAIN Tail(s) = 1..(Len(s) - 1) /\ DOMAIN s = 1..Len(s)
      /\ \A a \in 1..(Len(s) - 1) : Tail(s)[a] = s[a + 1]
      /\ Head(s) = s[1] /\ Len(s) >= 1
  OBVIOUS
<1>2. \A a \in DOMAIN Tail(s) :
         a \in Nat /\ a + 1 \in DOMAIN s /\ 1 < a + 1 /\ 1 \in DOMAIN s
  BY <1>1
<1>3. \A a, b \in DOMAIN Tail(s) : a < b => a + 1 < b + 1
  BY <1>1
<1> QED
  BY <1>1, <1>2, <1>3 DEF Ordered

(* Every step keeps the pauses in order. *)
LEMMA PausesNext ==
  ASSUME TypeOK, EnableInv, PausesInv, [Next]_vars
  PROVE  PausesInv'
<1> USE DEF docker, futures, debuggee, wires, progress
<1>1. CASE RunContainer
  BY <1>1 DEF RunContainer, Ends, PausesInv, Between
<1>2. CASE ContainerReady
  BY <1>2 DEF ContainerReady, Ends, PausesInv, Between
<1>3. CASE Launch
  BY <1>3 DEF Launch, Unwound, PausesInv, Between
<1>4. CASE StopContainer
  BY <1>4 DEF StopContainer, Ends, PausesInv, Between
<1>5. CASE RemoveContainer
  BY <1>5 DEF RemoveContainer, PausesInv, Between
<1>6. CASE Connect
  BY <1>6 DEF Connect, PausesInv, Between
<1>7. CASE Send
  BY <1>7 DEF Send, PausesInv, Between
<1>8. CASE SendRaises
  <2>1. UNCHANGED <<fromNode, event, pauseFuture, pauses>>
    BY <1>8 DEF SendRaises, Fail, Record, NextStep
  <2> QED
    BY <2>1 DEF PausesInv, Between
<1>9. CASE SendReturns
  <2>1. UNCHANGED <<fromNode, event, pauses>> /\ pauseFuture' \in {pauseFuture, 0}
    BY <1>9 DEF SendReturns, Fail, Advance, Await, Awaited, Waiting, Evaluate,
       Record, NextStep
  <2> QED
    BY <2>1, IdsAreNumbers DEF PausesInv, Between, TypeOK, NodeTypes
<1>10. CASE SendTimesOut
  <2>1. UNCHANGED <<fromNode, event, pauses>> /\ pauseFuture' \in {pauseFuture, 0}
    BY <1>10 DEF SendTimesOut, Advance, Await, Awaited, Waiting, Evaluate,
       Record, NextStep
  <2> QED
    BY <2>1, IdsAreNumbers DEF PausesInv, Between, TypeOK, NodeTypes
<1>11. CASE PauseSeen
  <2>1. /\ UNCHANGED <<fromNode, pauses>>
        /\ pauseFuture > 0 /\ event' = pauseFuture /\ pauseFuture' = -1
    BY <1>11 DEF PauseSeen, None
  <2> QED
    BY <2>1, IdsAreNumbers DEF PausesInv, Between, TypeOK, NodeTypes
<1>12. CASE PauseTimesOut
  <2>1. UNCHANGED <<fromNode, event, pauses>> /\ pauseFuture' = -1
    BY <1>12 DEF PauseTimesOut, NextStep, None
  <2> QED
    BY <2>1, IdsAreNumbers DEF PausesInv, Between, TypeOK, NodeTypes
<1>13. CASE Synthesise
  BY <1>13 DEF Synthesise, Unwound, PausesInv, Between
<1>14. CASE Cancel
  BY <1>14 DEF Cancel, Ends, Unwound, PausesInv, Between
<1>15. CASE Receive
  <2> DEFINE m == Head(fromNode)
  <2>1. fromNode \in Seq(Messages) /\ fromNode # <<>> /\ fromNode' = Tail(fromNode)
    BY <1>15 DEF Receive, TypeOK, WireTypes
  <2>2. m = fromNode[1] /\ 1 \in DOMAIN fromNode
    BY <2>1
  <2>3. Ordered(fromNode')
    BY <2>1, TailOrdered DEF PausesInv
  <2>4. /\ Between(fromNode', event, pauses)
        /\ Between(fromNode', pauseFuture, pauses)
        /\ m.kind = "paused" => Between(fromNode', m.id, pauses)
    BY <2>1, TailOrdered DEF PausesInv, Between
  <2>5. m.kind = "paused" => event < m.id /\ m.id <= pauses
    BY <2>2 DEF PausesInv, Between
  <2>6. UNCHANGED <<event, pauses>>
    BY <1>15 DEF Receive
  <2>7. pauseFuture' = pauseFuture \/ (m.kind = "paused" /\ pauseFuture' = m.id)
    BY <1>15 DEF Receive
  <2> QED
    BY <2>3, <2>4, <2>5, <2>6, <2>7 DEF PausesInv
<1>16. CASE InspectorAnswers
  <2> DEFINE c == Head(toNode)
  <2>1. UNCHANGED <<event, pauseFuture, pauses>>
    BY <1>16 DEF InspectorAnswers
  <2>2. CASE c.label = "enable"
    <3>1. 1 \in DOMAIN toNode /\ toNode[1] = c
      BY <1>16 DEF InspectorAnswers, TypeOK, WireTypes
    <3>2. fromNode = <<>> /\ event = 0 /\ pauseFuture <= 0
      BY <2>2, <3>1 DEF EnableInv, Unasked
    <3> DEFINE r == Reply(c.id, TRUE)
               p == Paused(pauses)
    <3>3. fromNode' \in {<<p, r>>, <<r, p>>, <<r>>}
      <4>1. fromNode' \in {<<>> \o <<p, r>>, <<>> \o <<r, p>>, Append(<<>>, r)}
        BY <1>16, <2>2, <3>2 DEF InspectorAnswers
      <4>2. c.id \in Nat
        <5>1. c \in Commands
          BY <1>16 DEF InspectorAnswers, TypeOK, WireTypes
        <5> QED
          BY <5>1 DEF Commands
      <4>3. p \in Messages /\ r \in Messages
        BY <4>2, MessageTypes DEF TypeOK, NodeTypes
      <4> HIDE DEF p, r
      <4>4. <<p, r>> \in Seq(Messages) /\ <<r, p>> \in Seq(Messages)
        BY <4>3
      <4>5. <<>> \o <<p, r>> = <<p, r>> /\ <<>> \o <<r, p>> = <<r, p>>
        BY <4>4, ConcatEmptySeq
      <4> QED
        BY <4>1, <4>5
    <3>4. r.kind = "reply" /\ p.id = pauses
      BY DEF Reply, Paused
    <3>5. pauses > 0 /\ pauses \in Nat /\ pauseFuture \in Int
      BY DEF TypeOK, NodeTypes, ClientTypes, None
    <3> HIDE DEF r, p
    <3>6. Ordered(fromNode')
      BY <3>3, <3>4 DEF Ordered
    <3>7. /\ Between(fromNode', event, pauses)
          /\ Between(fromNode', pauseFuture, pauses)
      BY <3>2, <3>3, <3>4, <3>5 DEF Between
    <3> QED
      BY <2>1, <3>6, <3>7 DEF PausesInv
  <2>3. CASE c.label # "enable"
    <3>1. PICK i, ok : fromNode' = Append(fromNode, Reply(i, ok))
      BY <1>16, <2>3 DEF InspectorAnswers
    <3>2. fromNode \in Seq(Messages)
      BY DEF TypeOK, WireTypes
    <3> QED
      BY <2>1, <3>1, <3>2, ReplyAppended DEF PausesInv
  <2> QED
    BY <2>2, <2>3
<1>17. CASE ProgramPauses
  <2>1. /\ UNCHANGED <<event, pauseFuture>> /\ pauses' = pauses + 1
        /\ fromNode' = Append(fromNode, Paused(pauses + 1))
    BY <1>17 DEF ProgramPauses
  <2>2. \A a \in DOMAIN fromNode :
           fromNode[a].kind = "paused" => fromNode[a].id < pauses + 1
    BY IdsAreNumbers DEF PausesInv, Between, TypeOK, NodeTypes
  <2>3. Ordered(fromNode')
    BY <2>1, <2>2, PauseAppended DEF PausesInv, TypeOK, NodeTypes, WireTypes
  <2>4. \A a \in DOMAIN fromNode' :
          \/ a \in DOMAIN fromNode /\ fromNode'[a] = fromNode[a]
          \/ fromNode'[a] = Paused(pauses + 1)
    BY <2>1 DEF TypeOK, WireTypes
  <2>5. Paused(pauses + 1).id = pauses + 1
    BY DEF Paused
  <2>6. event \in Int /\ pauseFuture \in Int /\ pauses \in Nat
    BY DEF TypeOK, NodeTypes, SessionTypes, ClientTypes, None
  <2>7. event <= pauses + 1 /\ pauseFuture <= pauses + 1
    BY <2>6 DEF PausesInv
  <2>8. event < pauses + 1 /\ pauseFuture < pauses + 1
    BY <2>6 DEF PausesInv
  <2>9. \A a \in DOMAIN fromNode' : fromNode'[a].kind = "paused" =>
          /\ event < fromNode'[a].id /\ pauseFuture < fromNode'[a].id
          /\ fromNode'[a].id <= pauses + 1
    <3> SUFFICES ASSUME NEW a \in DOMAIN fromNode', fromNode'[a].kind = "paused"
                 PROVE  /\ event < fromNode'[a].id /\ pauseFuture < fromNode'[a].id
                        /\ fromNode'[a].id <= pauses + 1
      OBVIOUS
    <3>1. CASE a \in DOMAIN fromNode /\ fromNode'[a] = fromNode[a]
      <4>1. fromNode[a].id \in Nat
        BY <3>1, IdsAreNumbers DEF TypeOK
      <4> QED
        BY <2>6, <3>1, <4>1 DEF PausesInv, Between
    <3>2. CASE fromNode'[a] = Paused(pauses + 1)
      BY <2>5, <2>6, <2>8, <3>2
    <3> QED
      BY <2>4, <3>1, <3>2
  <2> QED
    BY <2>1, <2>3, <2>7, <2>9 DEF PausesInv, Between
<1>18. CASE Disconnect
  BY <1>18 DEF Disconnect, PausesInv, Between
<1>19. CASE ContainerDies
  BY <1>19 DEF ContainerDies, PausesInv, Between
<1>20. CASE UNCHANGED vars
  BY <1>20 DEF vars, PausesInv, Between
<1> QED
  BY <1>1, <1>2, <1>3, <1>4, <1>5, <1>6, <1>7, <1>8, <1>9, <1>10, <1>11,
     <1>12, <1>13, <1>14, <1>15, <1>16, <1>17, <1>18, <1>19, <1>20 DEF Next,
     NodeStep, Environment, Done

(* A pause that is recorded comes after those before it. *)
LEMMA RecordKeepsOrder ==
  ASSUME TypeOK, HitsInv, phase = "session", Record
  PROVE  HitsInv'
<1>1. /\ hits' = Append(hits, event) /\ event' = event
      /\ ~(phase' \in Alive /\ label' \in {"variables", "evaluate"})
  BY DEF Record, NextStep, Alive
<1>2. \A i \in DOMAIN hits : hits[i] < event
  BY DEF HitsInv, Record, Alive
<1>3. /\ DOMAIN hits' = 1..(Len(hits) + 1) /\ DOMAIN hits = 1..Len(hits)
      /\ \A i \in DOMAIN hits : hits'[i] = hits[i]
      /\ hits'[Len(hits) + 1] = event
      /\ Len(hits) \in Nat /\ event \in Nat
  BY <1>1 DEF TypeOK, SessionTypes
<1>4. \A i \in DOMAIN hits' : i \in DOMAIN hits \/ i = Len(hits) + 1
  BY <1>3
<1>5. \A i \in DOMAIN hits' : hits'[i] <= event'
  BY <1>1, <1>2, <1>3, <1>4 DEF HitsInv
<1>6. \A i, j \in DOMAIN hits' : i < j => i \in DOMAIN hits
  BY <1>3
<1>7. HitsComeInOrder'
  BY <1>2, <1>3, <1>4, <1>6 DEF HitsInv, HitsComeInOrder
<1> QED
  BY <1>1, <1>5, <1>7 DEF HitsInv

LEMMA AdvanceKeepsOrder ==
  ASSUME TypeOK, HitsInv, phase = "session", Advance, ~Record
  PROVE  HitsInv'
<1>1. CASE Await
  BY <1>1 DEF Await, Waits, HitsInv, HitsComeInOrder
<1>2. CASE Evaluate
  BY <1>2 DEF Evaluate, HitsInv, HitsComeInOrder
<1>3. CASE /\ label \notin Waits \cup {"variables", "evaluate"}
           /\ label' = Following[label] /\ awaiting' = "nothing"
           /\ UNCHANGED <<phase, event, steps, hits, pauseFuture>>
  <2>1. label' \notin {"variables", "evaluate"}
    BY <1>3 DEF TypeOK, SessionTypes, Labels, Following, Waits
  <2> QED
    BY <1>3, <2>1 DEF HitsInv, HitsComeInOrder
<1> QED
  BY <1>1, <1>2, <1>3 DEF Advance

(* Every step keeps the hits in order. *)
LEMMA HitsNext ==
  ASSUME TypeOK, EnableInv, PausesInv, HitsInv, [Next]_vars
  PROVE  HitsInv'
<1> USE DEF docker, futures, debuggee, wires, progress
<1>1. CASE RunContainer
  BY <1>1 DEF RunContainer, Ends, Alive, HitsInv, HitsComeInOrder
<1>2. CASE ContainerReady
  BY <1>2 DEF ContainerReady, Ends, Alive, HitsInv, HitsComeInOrder
<1>3. CASE Launch
  BY <1>3 DEF Launch, Unwound, Alive, HitsInv, HitsComeInOrder
<1>4. CASE StopContainer
  BY <1>4 DEF StopContainer, Ends, Alive, HitsInv, HitsComeInOrder
<1>5. CASE RemoveContainer
  BY <1>5 DEF RemoveContainer, Alive, HitsInv, HitsComeInOrder
<1>6. CASE Connect
  BY <1>6 DEF Connect, Alive, HitsInv, HitsComeInOrder
<1>7. CASE Send
  BY <1>7 DEF Send, Alive, HitsInv, HitsComeInOrder
<1>8. CASE SendRaises
  <2> USE DEF SendRaises, Fail
  <2>1. CASE Record
    BY <1>8, <2>1, RecordKeepsOrder DEF Alive
  <2>2. CASE ~Record
    BY <1>8, <2>2 DEF HitsInv, HitsComeInOrder, Alive
  <2> QED
    BY <2>1, <2>2
<1>9. CASE SendReturns
  <2>1. CASE Record
    BY <1>9, <2>1, RecordKeepsOrder DEF SendReturns, Alive
  <2>2. CASE ~Record
    BY <1>9, <2>2, AdvanceKeepsOrder
    DEF SendReturns, Fail, HitsInv, HitsComeInOrder, Alive
  <2> QED
    BY <2>1, <2>2
<1>10. CASE SendTimesOut
  <2>1. CASE Record
    BY <1>10, <2>1, RecordKeepsOrder DEF SendTimesOut, Alive
  <2>2. CASE ~Record
    BY <1>10, <2>2, AdvanceKeepsOrder DEF SendTimesOut
  <2> QED
    BY <2>1, <2>2
<1>11. CASE PauseSeen
  <2>1. UNCHANGED hits /\ event' = pauseFuture /\ event < pauseFuture
    BY <1>11 DEF PauseSeen, PausesInv
  <2>2. \A i \in DOMAIN hits : hits[i] \in Int
    BY DEF TypeOK, SessionTypes
  <2> QED
    BY <2>1, <2>2 DEF HitsInv, HitsComeInOrder, TypeOK, SessionTypes, ClientTypes, None
<1>12. CASE PauseTimesOut
  BY <1>12 DEF PauseTimesOut, NextStep, Alive, HitsInv, HitsComeInOrder
<1>13. CASE Synthesise
  BY <1>13 DEF Synthesise, Unwound, Alive, HitsInv, HitsComeInOrder
<1>14. CASE Cancel
  BY <1>14 DEF Cancel, Ends, Unwound, Alive, HitsInv, HitsComeInOrder
<1>15. CASE Receive
  BY <1>15 DEF Receive, Alive, HitsInv, HitsComeInOrder
<1>16. CASE InspectorAnswers
  BY <1>16 DEF InspectorAnswers, Alive, HitsInv, HitsComeInOrder
<1>17. CASE ProgramPauses
  BY <1>17 DEF ProgramPauses, Alive, HitsInv, HitsComeInOrder
<1>18. CASE Disconnect
  BY <1>18 DEF Disconnect, Alive, HitsInv, HitsComeInOrder
<1>19. CASE ContainerDies
  BY <1>19 DEF ContainerDies, Alive, HitsInv, HitsComeInOrder
<1>20. CASE UNCHANGED vars
  BY <1>20 DEF vars, Alive, HitsInv, HitsComeInOrder
<1> QED
  BY <1>1, <1>2, <1>3, <1>4, <1>5, <1>6, <1>7, <1>8, <1>9, <1>10, <1>11,
     <1>12, <1>13, <1>14, <1>15, <1>16, <1>17, <1>18, <1>19, <1>20 DEF Next,
     NodeStep, Environment, Done

(* The invariant holds initially, and is preserved. *)
LEMMA SafeInit ==
  ASSUME Init
  PROVE  Safe
<1> USE DEF Init
<1>1. NodeTypes
  <2>1. pauses \in 1..MaxPauses
    OBVIOUS
  <2>2. phase = "warming" /\ outcome = "none" /\ container = "none"
    OBVIOUS
  <2>3. /\ held \in BOOLEAN /\ refused \in BOOLEAN /\ timedOut \in BOOLEAN
        /\ open \in BOOLEAN /\ program \in {"paused", "running"}
    OBVIOUS
  <2> HIDE DEF Init
  <2> QED
    BY <2>1, <2>2, <2>3 DEF NodeTypes
<1>2. SessionTypes /\ WireTypes
  BY EmptySeq DEF SessionTypes, WireTypes, Labels
<1>3. ClientTypes /\ CommandsInv /\ ReadingInv /\ ReleaseInv
  BY MessageTypes DEF ClientTypes, CommandsInv, ReadingInv, Reading, ReleaseInv,
     ContainerIsReleased, None
<1>4. EnableInv /\ PausesInv /\ HitsInv
  BY DEF EnableInv, Unasked, PausesInv, Between, Ordered, HitsInv, HitsComeInOrder, None
<1> QED
  BY <1>1, <1>2, <1>3, <1>4 DEF Safe, TypeOK

LEMMA SafeNext ==
  ASSUME Safe, [Next]_vars
  PROVE  Safe'
<1>1. TypeOK'
  BY NodeTypesNext, SessionTypesNext, ClientTypesNext, WireTypesNext DEF Safe,
     TypeOK
<1> QED
  BY <1>1, AnswersNext, ReleaseNext, EnableNext, PausesNext, HitsNext DEF Safe,
     TypeOK

LEMMA SpecIsSafe == Spec => []Safe
  BY SafeInit, SafeNext, PTL DEF Spec

(* The node, the client and the wires are always in one of their states. *)
THEOREM TypeCorrect == Spec => []TypeOK
<1>1. Safe => TypeOK
  BY DEF Safe
<1>2. QED
  BY <1>1, SpecIsSafe, PTL

(* What the node is given for a pause was read in that pause with the program
   still in it, over any number of pauses seen late and of commands answered
   after their timeout: the last command is behind all others on its way. *)
THEOREM VariablesAreReadInThePause == Spec => []VariablesAreOfThePause
<1>1. Safe => VariablesAreOfThePause
  BY DEF Safe, ReadingInv, Reading, Answered, VariablesAreOfThePause
<1>2. QED
  BY <1>1, SpecIsSafe, PTL

(* Each pause is recorded at most once and in the order of the program, for any
   number of pauses, steps and commands that time out. *)
THEOREM HitsAreInOrder == Spec => []HitsComeInOrder
<1>1. Safe => HitsComeInOrder
  BY DEF Safe, HitsInv
<1>2. QED
  BY <1>1, SpecIsSafe, PTL

(* The container that the node has got is removed, however the debugging ends,
   unless docker fails or the removal is cut off. *)
THEOREM ContainersAreReleased == Spec => []ContainerIsReleased
<1>1. Safe => ContainerIsReleased
  BY DEF Safe, ReleaseInv
<1>2. QED
  BY <1>1, SpecIsSafe, PTL

-----------------------------------------------------------------------------
(* What can be proved of DebuggerEnds: every step of the node is one towards
   its end, and the node never waits for a future that is gone. *)

(* The measure in each phase, command and wait. *)
LEMMA LeftValues ==
  /\ PhaseLeft("warming") = 8 /\ PhaseLeft("polling") = 7
  /\ PhaseLeft("launching") = 6 /\ PhaseLeft("connecting") = 5
  /\ PhaseLeft("session") = 4 /\ PhaseLeft("synthesising") = 3
  /\ PhaseLeft("stopping") = 2 /\ PhaseLeft("removing") = 1
  /\ PhaseLeft("over") = 0
  /\ CommandLeft("enable") = 7 /\ CommandLeft("runtime") = 6
  /\ CommandLeft("breakpoint") = 5 /\ CommandLeft("resume") = 4
  /\ CommandLeft("step") = 3 /\ CommandLeft("variables") = 2
  /\ CommandLeft("evaluate") = 1
  /\ AwaitLeft("nothing") = 2 /\ AwaitLeft("reply") = 1
  /\ AwaitLeft("pause") = 0
  BY DEF PhaseLeft, CommandLeft, AwaitLeft

LEMMA CommandsAreRanked ==
  /\ \A l \in Labels : CommandLeft(l) \in 1..7
  /\ \A a \in {"nothing", "reply", "pause"} : AwaitLeft(a) \in 0..2
  BY LeftValues DEF Labels

(* The next command, the next wait for a command, and the next step. *)
LEMMA EarlierCommandIsMore ==
  ASSUME NEW l \in Labels, NEW m \in Labels, NEW s \in Nat,
         NEW a \in {"nothing", "reply", "pause"},
         NEW b \in {"nothing", "reply", "pause"}
  PROVE  /\ CommandLeft(m) < CommandLeft(l) =>
              SessionLeft(m, b, s) < SessionLeft(l, a, s)
         /\ AwaitLeft(b) < AwaitLeft(a) =>
              SessionLeft(l, b, s) < SessionLeft(l, a, s)
         /\ s > 0 => SessionLeft(m, b, s - 1) < SessionLeft(l, a, s)
<1>1. /\ CommandLeft(l) \in 1..7 /\ CommandLeft(m) \in 1..7
      /\ AwaitLeft(a) \in 0..2 /\ AwaitLeft(b) \in 0..2
  BY CommandsAreRanked
<1> QED
  BY <1>1 DEF SessionLeft

(* What an event leads to: the next phase, or less to do in the session. *)
Nearer ==
    \/ PhaseLeft(phase') < PhaseLeft(phase)
    \/ /\ phase' = phase
       /\ SessionLeft(label', awaiting', steps')
             < SessionLeft(label, awaiting, steps)

LEMMA NextStepIsNearer ==
  ASSUME phase = "session", SessionTypes, NextStep
  PROVE  Nearer
<1>1. CASE StepLeft
  <2>1. /\ phase' = phase /\ label' = "step" /\ awaiting' = "nothing"
        /\ steps' = steps - 1 /\ steps > 0
    BY <1>1 DEF NextStep, StepLeft
  <2>2. /\ label \in Labels /\ awaiting \in {"nothing", "reply", "pause"}
        /\ steps \in Nat /\ "step" \in Labels
    BY DEF SessionTypes, Labels
  <2> QED
    BY <2>1, <2>2, EarlierCommandIsMore DEF Nearer
<1>2. CASE ~StepLeft
  BY <1>2, LeftValues DEF NextStep, Nearer
<1> QED
  BY <1>1, <1>2

LEMMA AdvanceIsNearer ==
  ASSUME phase = "session", SessionTypes, Advance, awaiting = "reply"
  PROVE  Nearer
<1>1. /\ label \in Labels /\ steps \in Nat
      /\ "evaluate" \in Labels /\ "runtime" \in Labels
      /\ "breakpoint" \in Labels /\ "resume" \in Labels
  BY DEF SessionTypes, Labels
<1>2. CASE Await
  <2>1. phase' = phase /\ label' = label /\ steps' = steps /\ awaiting' = "pause"
    BY <1>2 DEF Await
  <2> QED
    BY <1>1, <2>1, EarlierCommandIsMore, LeftValues DEF Nearer
<1>3. CASE Evaluate /\ label = "variables"
  <2>1. /\ phase' = phase /\ label' = "evaluate" /\ steps' = steps
        /\ awaiting' = "nothing"
    BY <1>3 DEF Evaluate
  <2> QED
    BY <1>1, <1>3, <2>1, EarlierCommandIsMore, LeftValues DEF Nearer
<1>4. CASE Record
  BY <1>4, NextStepIsNearer DEF Record
<1>5. CASE /\ label \notin Waits \cup {"variables", "evaluate"}
           /\ label' = Following[label] /\ awaiting' = "nothing"
           /\ UNCHANGED <<phase, event, steps, hits, pauseFuture>>
  <2>1. \/ label = "enable" /\ label' = "runtime"
        \/ label = "runtime" /\ label' = "breakpoint"
        \/ label = "breakpoint" /\ label' = "resume"
    BY <1>5 DEF SessionTypes, Labels, Following, Waits
  <2>2. CommandLeft(label') < CommandLeft(label) /\ label' \in Labels
    BY <1>1, <2>1, LeftValues
  <2>3. phase' = phase /\ steps' = steps /\ awaiting' = "nothing"
    BY <1>5
  <2> QED
    BY <1>1, <2>2, <2>3, EarlierCommandIsMore DEF Nearer
<1> QED
  BY <1>2, <1>3, <1>4, <1>5 DEF Advance

LEMMA FailIsNearer ==
  ASSUME phase = "session", SessionTypes, Fail
  PROVE  Nearer
<1>1. CASE Record
  BY <1>1, NextStepIsNearer DEF Record
<1>2. CASE phase' = "synthesising"
  BY <1>2, LeftValues DEF Nearer
<1> QED
  BY <1>1, <1>2 DEF Fail

(* The coroutine awaits nothing before the session, and in it a pause only after
   a command that lets the program run, on a future that is there. *)
WaitInv ==
    /\ phase \in {"warming", "polling", "launching", "connecting"} =>
          awaiting = "nothing"
    /\ phase = "session" /\ awaiting = "pause" => label \in Waits
    /\ PauseIsAwaited

LEMMA WaitInvInit ==
  ASSUME Init
  PROVE  WaitInv
  BY DEF Init, WaitInv, PauseIsAwaited

LEMMA WaitInvNext ==
  ASSUME TypeOK, WaitInv, [Next]_vars
  PROVE  WaitInv'
<1> USE DEF docker, futures, debuggee, wires, progress, WaitInv, PauseIsAwaited
<1>1. CASE RunContainer
  BY <1>1 DEF RunContainer, Ends
<1>2. CASE ContainerReady
  BY <1>2 DEF ContainerReady, Ends
<1>3. CASE Launch
  BY <1>3 DEF Launch, Unwound
<1>4. CASE StopContainer
  BY <1>4 DEF StopContainer, Ends
<1>5. CASE RemoveContainer
  BY <1>5 DEF RemoveContainer
<1>6. CASE Connect
  BY <1>6 DEF Connect
<1>7. CASE Send
  BY <1>7 DEF Send
<1>8. CASE SendRaises
  BY <1>8 DEF SendRaises, Fail, Record, NextStep
<1>9. CASE SendReturns
  BY <1>9 DEF SendReturns, Fail, Advance, Await, Awaited, Waiting, None, Evaluate,
     Record, NextStep
<1>10. CASE SendTimesOut
  BY <1>10 DEF SendTimesOut, Advance, Await, Awaited, Waiting, None, Evaluate,
     Record, NextStep
<1>11. CASE PauseSeen
  BY <1>11 DEF PauseSeen
<1>12. CASE PauseTimesOut
  BY <1>12 DEF PauseTimesOut, NextStep
<1>13. CASE Synthesise
  BY <1>13 DEF Synthesise, Unwound
<1>14. CASE Cancel
  BY <1>14 DEF Cancel, Ends, Unwound, InTry
<1>15. CASE Receive
  <2>1. 1 \in DOMAIN fromNode /\ Head(fromNode) = fromNode[1]
    BY <1>15 DEF Receive, TypeOK, WireTypes
  <2>2. Head(fromNode).kind = "paused" => Head(fromNode).id > 0
    BY <2>1, IdsAreNumbers DEF TypeOK
  <2>3. \/ pauseFuture' = pauseFuture
        \/ Head(fromNode).kind = "paused" /\ pauseFuture' = Head(fromNode).id
    BY <1>15 DEF Receive
  <2>4. UNCHANGED <<phase, label, awaiting>>
    BY <1>15 DEF Receive
  <2> QED
    BY <2>2, <2>3, <2>4 DEF None
<1>16. CASE Environment
  BY <1>16 DEF Environment, InspectorAnswers, ProgramPauses, Disconnect,
     ContainerDies
<1>17. CASE UNCHANGED vars
  BY <1>17 DEF vars
<1> QED
  BY <1>1, <1>2, <1>3, <1>4, <1>5, <1>6, <1>7, <1>8, <1>9, <1>10, <1>11,
     <1>12, <1>13, <1>14, <1>15, <1>16, <1>17 DEF Next, NodeStep, Done

LEMMA SpecWaits == Spec => [](Safe /\ WaitInv)
<1>1. Safe => TypeOK
  BY DEF Safe
<1> QED
  BY <1>1, SpecIsSafe, WaitInvInit, WaitInvNext, PTL DEF Spec

(* Every step of the node is nearer to its end, and no other moves it. *)
LEMMA NextIsNearer ==
  ASSUME TypeOK, WaitInv, [Next]_vars
  PROVE  Nearer \/ UNCHANGED <<phase, label, awaiting, steps>>
<1> USE DEF docker, futures, debuggee, wires, progress
<1>0. SessionTypes /\ NodeTypes
  BY DEF TypeOK
<1>1. CASE RunContainer
  BY <1>1, LeftValues DEF RunContainer, Ends, Nearer
<1>2. CASE ContainerReady
  BY <1>2, LeftValues DEF ContainerReady, Ends, Nearer
<1>3. CASE Launch
  BY <1>3, LeftValues DEF Launch, Unwound, Nearer
<1>4. CASE StopContainer
  BY <1>4, LeftValues DEF StopContainer, Ends, Nearer
<1>5. CASE RemoveContainer
  BY <1>5, LeftValues DEF RemoveContainer, Nearer
<1>6. CASE Connect
  BY <1>6, LeftValues DEF Connect, Nearer
<1>7. CASE Send
  <2>1. /\ awaiting = "nothing" /\ awaiting' = "reply"
        /\ UNCHANGED <<phase, label, steps>>
    BY <1>7 DEF Send
  <2>2. label \in Labels /\ steps \in Nat
    BY <1>0 DEF SessionTypes
  <2> QED
    BY <2>1, <2>2, EarlierCommandIsMore, LeftValues DEF Nearer
<1>8. CASE SendRaises
  BY <1>0, <1>8, FailIsNearer DEF SendRaises
<1>9. CASE SendReturns
  BY <1>0, <1>9, AdvanceIsNearer, FailIsNearer DEF SendReturns
<1>10. CASE SendTimesOut
  BY <1>0, <1>10, AdvanceIsNearer DEF SendTimesOut
<1>11. CASE PauseSeen
  <2>1. /\ phase' = phase /\ steps' = steps /\ label' = "variables"
        /\ awaiting' = "nothing" /\ awaiting = "pause"
    BY <1>11 DEF PauseSeen
  <2>2. label \in Waits
    BY <1>11 DEF PauseSeen, WaitInv
  <2>3. label \in Labels /\ "variables" \in Labels /\ steps \in Nat
    BY <1>0 DEF SessionTypes, Labels
  <2> QED
    BY <2>1, <2>2, <2>3, EarlierCommandIsMore, LeftValues DEF Nearer, Waits
<1>12. CASE PauseTimesOut
  <2>1. CASE NextStep
    BY <1>0, <1>12, <2>1, NextStepIsNearer DEF PauseTimesOut
  <2>2. CASE phase' = "synthesising"
    BY <1>12, <2>2, LeftValues DEF PauseTimesOut, Nearer
  <2> QED
    BY <1>12, <2>1, <2>2 DEF PauseTimesOut
<1>13. CASE Synthesise
  BY <1>13, LeftValues DEF Synthesise, Unwound, Nearer
<1>14. CASE Cancel
  <2>1. phase # "over" /\ phase' = IF phase \in InTry THEN "stopping" ELSE "over"
    BY <1>14 DEF Cancel, Ends, Unwound
  <2>2. phase \in {"launching", "connecting", "session", "synthesising",
                   "warming", "polling", "stopping", "removing"}
    BY <1>0, <2>1 DEF NodeTypes, InTry
  <2> QED
    BY <2>1, <2>2, LeftValues DEF InTry, Nearer
<1>15. CASE Receive
  BY <1>15 DEF Receive
<1>16. CASE Environment
  BY <1>16 DEF Environment, InspectorAnswers, ProgramPauses, Disconnect,
     ContainerDies
<1>17. CASE UNCHANGED vars
  BY <1>17 DEF vars
<1> QED
  BY <1>1, <1>2, <1>3, <1>4, <1>5, <1>6, <1>7, <1>8, <1>9, <1>10, <1>11,
     <1>12, <1>13, <1>14, <1>15, <1>16, <1>17 DEF Next, NodeStep, Done

(* Every step of the node, whatever the inspector, the program and docker do, is
   one towards its end: the measure falls with every command, reply, pause,
   time-out and failure. *)
THEOREM NodeGoesForward == Spec => NodeDescends
<1>1. Safe /\ WaitInv /\ [Next]_vars =>
        [Nearer]_<<phase, label, awaiting, steps>>
  BY NextIsNearer DEF Safe
<1>2. [Nearer]_<<phase, label, awaiting, steps>> =>
        [\/ PhaseLeft(phase') < PhaseLeft(phase)
         \/ /\ phase' = phase
            /\ SessionLeft(label', awaiting', steps')
                  < SessionLeft(label, awaiting, steps)]_<<phase, label,
                                                           awaiting, steps>>
  BY DEF Nearer
<1>3. QED
  BY <1>1, <1>2, SpecWaits, PTL DEF Spec, NodeDescends

(* The coroutine that waits for a pause waits on a future: a pause is delivered
   to it or its timeout fires. *)
THEOREM PausesAreAwaited == Spec => []PauseIsAwaited
<1>1. WaitInv => PauseIsAwaited
  BY DEF WaitInv
<1>2. QED
  BY <1>1, SpecWaits, PTL

==============================================================================
