---------------------------- MODULE DebugSession -----------------------------
(***************************************************************************)
(* A run of the intelligent_debugger node that debugs a Node.js program:   *)
(* a container of its own, a CDP client on the inspector of the program,   *)
(* and the clean-up.                                                       *)
(*                                                                         *)
(* Two tasks of one event loop share the client: the coroutine of the node *)
(* (phase, label, awaiting) and the receive loop.  The loop resolves a     *)
(* future and goes on with its next message; the coroutine wakes later.    *)
(***************************************************************************)
EXTENDS Integers, Sequences

CONSTANTS
    MaxSteps,       \* steps after the first hit: min(max_steps, 3), or 0 if
                    \* the strategy does not step
    MaxPauses       \* bound: times that the program pauses

ASSUME BoundsAssumption == MaxSteps \in Nat /\ MaxPauses \in Nat \ {0}

VARIABLES
    phase,      \* progress of the node
    outcome,    \* how it ends
    container,  \* the container of the run
    held,       \* the node has its handle
    refused,    \* a docker command that removes it failed or was cut off
    label,      \* the command of the client that is next, or under way
    awaiting,   \* what the coroutine waits for
    lastId,     \* _id
    reply,      \* result of the future of the last command
    pending,    \* keys of _pending
    pauseFuture,\* _paused_future
    event,      \* pause that the node looks at
    steps,      \* steps left
    hits,       \* breakpoint_hits: pauses recorded
    timedOut,   \* a command has timed out
    toNode,     \* commands on their way
    fromNode,   \* replies and events on their way
    open,       \* the connection
    program,    \* the program is running or paused
    pauses      \* pauses so far

docker == <<container, held, refused>>
futures == <<reply, pending, pauseFuture>>
debuggee == <<program, pauses>>
wires == <<toNode, fromNode, open>>
progress == <<label, awaiting, event, steps, hits>>
vars == <<phase, outcome, docker, progress, lastId, futures, timedOut, wires,
          debuggee>>

NoReply == [kind |-> "reply", id |-> 0, ok |-> FALSE]
None == -1          \* there is no future
Waiting == 0        \* it has no result yet
Reply(i, ok) == [kind |-> "reply", id |-> i, ok |-> ok]
Paused(n) == [kind |-> "paused", id |-> n, ok |-> TRUE]

InTry == {"launching", "connecting", "session", "synthesising"}
Ends(result) == phase' = "over" /\ outcome' = result

(* Pause 1 is that in the first line of the program, which --inspect-brk asks
   for; the inspector may also not count it as one. *)
Init ==
    /\ phase = "warming" /\ outcome = "none"
    /\ container = "none" /\ held = FALSE /\ refused = FALSE
    /\ label = "enable" /\ awaiting = "nothing"
    /\ lastId = 0 /\ reply = NoReply /\ pending = {} /\ pauseFuture = None
    /\ event = 0 /\ steps = MaxSteps /\ hits = <<>> /\ timedOut = FALSE
    /\ toNode = <<>> /\ fromNode = <<>> /\ open = FALSE
    /\ program \in {"paused", "running"} /\ pauses = 1

-----------------------------------------------------------------------------
(* The container *)

(* docker run.  If it fails or is killed by its timeout the container may be
   there all the same. *)
RunContainer ==
    /\ phase = "warming"
    /\ \/ container' = "running" /\ phase' = "polling" /\ UNCHANGED outcome
       \/ container' \in {"none", "running"} /\ Ends("raised")
    /\ UNCHANGED <<held, refused, progress, lastId, futures, timedOut, wires,
                   debuggee>>

(* exec_in_container: a command that times out has a result, but one in a
   container that is not alive raises. *)
Executes == container = "running"

(* _wait_for_ready: it gives up after a while, but it raises when docker does
   not call the container alive. *)
ContainerReady ==
    /\ phase = "polling"
    /\ \/ Executes /\ phase' = "launching" /\ held' = TRUE
          /\ UNCHANGED outcome
       \/ Ends("raised") /\ UNCHANGED held
    /\ UNCHANGED <<container, refused, progress, lastId, futures, timedOut,
                   wires, debuggee>>

UnwoundAtOnce(result) == Ends(result)       \* mutation
Unwound(result) == phase' = "stopping" /\ outcome' = result

(* The program is started and its port polled.  Without a frame of the program,
   an entry point or the port there is no session; an exception of the sandbox
   ends the node. *)
Launch ==
    /\ phase = "launching"
    /\ \/ Executes /\ phase' = "connecting" /\ UNCHANGED outcome
       \/ phase' = "synthesising" /\ UNCHANGED outcome
       \/ Unwound("raised")
    /\ UNCHANGED <<docker, progress, lastId, futures, timedOut, wires, debuggee>>

StopContainer ==
    /\ phase = "stopping"
    /\ \/ container' = "exited" /\ phase' = "removing" /\ open' = FALSE
          /\ UNCHANGED <<outcome, refused>>
       \/ Ends("raised") /\ refused' = TRUE /\ UNCHANGED <<container, open>>
    /\ UNCHANGED <<held, progress, lastId, futures, timedOut, toNode, fromNode,
                   debuggee>>

RemoveContainer ==
    /\ phase = "removing" /\ phase' = "over"
    /\ \/ /\ container' = "removed"
          /\ outcome' = IF outcome = "none" THEN "returned" ELSE outcome
          /\ UNCHANGED refused
       \/ outcome' = "raised" /\ refused' = TRUE /\ UNCHANGED container
    /\ UNCHANGED <<held, progress, lastId, futures, timedOut, wires, debuggee>>

-----------------------------------------------------------------------------
(* The coroutine in the session *)

Connect ==
    /\ phase = "connecting"
    /\ \/ container = "running" /\ phase' = "session" /\ open' = TRUE
       \/ phase' = "synthesising" /\ UNCHANGED open
    /\ UNCHANGED <<outcome, docker, progress, lastId, futures, timedOut,
                   toNode, fromNode, debuggee>>

(* _send: the future is registered before the message is sent. *)
Send ==
    /\ phase = "session" /\ awaiting = "nothing" /\ open
    /\ lastId' = lastId + 1
    /\ pending' = pending \cup {lastId'}
    /\ reply' = NoReply /\ awaiting' = "reply"
    /\ toNode' = Append(toNode, [id |-> lastId', label |-> label,
                                 event |-> event])
    /\ UNCHANGED <<phase, outcome, docker, label, event, steps, hits,
                   pauseFuture, timedOut, fromNode, open, debuggee>>

Waits == {"resume", "step"}

Following ==
    [enable |-> "runtime", runtime |-> "breakpoint", breakpoint |-> "resume"]

AwaitedStale == IF event > 0 THEN event ELSE Waiting    \* mutation
Awaited == Waiting

(* wait_for_paused, in the same run of the coroutine as the end of _send. *)
Await ==
    /\ label \in Waits
    /\ pauseFuture' = Awaited /\ awaiting' = "pause"
    /\ UNCHANGED <<phase, label, event, steps, hits>>

StepLeftOffByOne == steps >= 0      \* mutation
StepLeft == steps > 0

(* The next step, or the end of the session. *)
NextStep ==
    /\ awaiting' = "nothing" /\ UNCHANGED event
    /\ \/ StepLeft /\ label' = "step" /\ steps' = steps - 1
          /\ UNCHANGED phase
       \/ ~StepLeft /\ phase' = "synthesising" /\ UNCHANGED <<label, steps>>

Record ==
    /\ label \in {"variables", "evaluate"}
    /\ hits' = Append(hits, event)
    /\ NextStep
    /\ UNCHANGED pauseFuture

(* The strategy's expressions are evaluated at the first hit. *)
Evaluate ==
    /\ label \in {"variables", "evaluate"} /\ hits = <<>>
    /\ label' = "evaluate" /\ awaiting' = "nothing"
    /\ UNCHANGED <<phase, event, steps, hits, pauseFuture>>

(* What follows the command. *)
Advance ==
    \/ Await
    \/ Evaluate /\ label = "variables"
    \/ Record
    \/ /\ label \notin Waits \cup {"variables", "evaluate"}
       /\ label' = Following[label] /\ awaiting' = "nothing"
       /\ UNCHANGED <<phase, event, steps, hits, pauseFuture>>

(* An exception leaves the session, but that of an expression. *)
Fail ==
    IF label = "evaluate" THEN Record
    ELSE phase' = "synthesising" /\ UNCHANGED <<progress, pauseFuture>>

SendRaises ==
    /\ phase = "session" /\ awaiting = "nothing" /\ ~open
    /\ lastId' = lastId + 1
    /\ pending' = pending \cup {lastId'} /\ reply' = NoReply
    /\ Fail
    /\ UNCHANGED <<outcome, docker, timedOut, wires, debuggee>>

SendReturns ==
    /\ phase = "session" /\ awaiting = "reply" /\ reply # NoReply
    /\ IF reply.ok THEN Advance ELSE Fail
    /\ UNCHANGED <<outcome, docker, lastId, reply, pending, timedOut, wires,
                   debuggee>>

(* A command that times out returns an empty result. *)
SendTimesOut ==
    /\ phase = "session" /\ awaiting = "reply" /\ reply = NoReply
    /\ timedOut' = TRUE
    /\ Advance
    /\ UNCHANGED <<outcome, docker, lastId, reply, pending, wires, debuggee>>

(* The pause is looked at: the variables of its scopes, as one command. *)
PauseSeen ==
    /\ phase = "session" /\ awaiting = "pause" /\ pauseFuture > 0
    /\ pauseFuture' = None /\ awaiting' = "nothing"
    /\ event' = pauseFuture /\ label' = "variables"
    /\ UNCHANGED <<phase, outcome, docker, steps, hits, lastId, reply, pending,
                   timedOut, wires, debuggee>>

PauseWaits == FALSE     \* mutation
PauseTimesOut ==
    /\ phase = "session" /\ awaiting = "pause" /\ pauseFuture = Waiting
    /\ pauseFuture' = None
    /\ IF label = "step"
       THEN NextStep
       ELSE /\ phase' = "synthesising" /\ awaiting' = "nothing"
            /\ UNCHANGED <<label, event, steps>>
    /\ UNCHANGED <<outcome, docker, hits, lastId, reply, pending, timedOut,
                   wires, debuggee>>

(* The hypothesis: a call of the agent, which may raise. *)
Synthesise ==
    /\ phase = "synthesising"
    /\ \/ phase' = "stopping" /\ UNCHANGED outcome
       \/ hits # <<>> /\ Unwound("raised")
    /\ UNCHANGED <<docker, progress, lastId, futures, timedOut, wires, debuggee>>

(* The session timeout.  docker run goes on without the coroutine; the removal
   is cut off. *)
Cancel ==
    /\ phase # "over" /\ outcome # "cancelled"
    /\ IF phase \in InTry THEN Unwound("cancelled") ELSE Ends("cancelled")
    /\ IF phase = "warming"
       THEN container' \in {"none", "running"}
       ELSE UNCHANGED container
    /\ refused' = (refused \/ phase \in {"stopping", "removing"})
    /\ UNCHANGED <<held, progress, lastId, futures, timedOut, wires, debuggee>>

-----------------------------------------------------------------------------
(* The receive loop: a message resolves a future or is dropped. *)

ResolvesInTurn(message) == message.id <= lastId     \* mutation
Resolves(message) == message.id = lastId

Receive ==
    /\ phase = "session" /\ fromNode # <<>>
    /\ fromNode' = Tail(fromNode)
    /\ LET m == Head(fromNode) IN
       \/ /\ m.kind = "reply"
          /\ pending' = pending \ {m.id}
          /\ reply' = IF m.id \in pending /\ awaiting = "reply"
                         /\ reply = NoReply /\ Resolves(m)
                      THEN m ELSE reply
          /\ UNCHANGED pauseFuture
       \/ /\ m.kind = "paused"
          /\ pauseFuture' = IF pauseFuture = Waiting THEN m.id ELSE pauseFuture
          /\ UNCHANGED <<reply, pending>>
    /\ UNCHANGED <<phase, outcome, docker, progress, lastId, timedOut, toNode,
                   open, debuggee>>

-----------------------------------------------------------------------------
(* The program and its inspector, which answer in order *)

InspectorAnswers ==
    /\ open /\ toNode # <<>>
    /\ toNode' = Tail(toNode)
    /\ LET c == Head(toNode) IN
       \/ /\ c.label = "enable"
          /\ fromNode' \in
                IF program = "paused"
                THEN {fromNode \o <<Paused(pauses), Reply(c.id, TRUE)>>,
                      fromNode \o <<Reply(c.id, TRUE), Paused(pauses)>>}
                ELSE {Append(fromNode, Reply(c.id, TRUE))}
          /\ UNCHANGED program
       \/ /\ c.label \in {"runtime", "breakpoint"}
          /\ fromNode' = Append(fromNode, Reply(c.id, TRUE))
          /\ UNCHANGED program
       \/ /\ c.label \in {"resume", "step"}
          /\ fromNode' = Append(fromNode, Reply(c.id, program = "paused"))
          /\ program' = "running"
       \/ /\ c.label \in {"variables", "evaluate"}
          /\ fromNode' = Append(fromNode, Reply(c.id,
                program = "paused" /\ c.event = pauses))
          /\ UNCHANGED program
    /\ UNCHANGED <<phase, outcome, docker, progress, lastId, futures, timedOut,
                   open, pauses>>

Enabled ==
    lastId > 0 /\ \A i \in DOMAIN toNode : toNode[i].label # "enable"

(* A breakpoint or the end of a step, once the debugger is enabled. *)
ProgramPauses ==
    /\ open /\ Enabled /\ program = "running" /\ pauses < MaxPauses
    /\ program' = "paused" /\ pauses' = pauses + 1
    /\ fromNode' = Append(fromNode, Paused(pauses'))
    /\ UNCHANGED <<phase, outcome, docker, progress, lastId, futures, timedOut,
                   toNode, open>>

(* The program ends, or the connection is lost. *)
Disconnect ==
    /\ open /\ open' = FALSE
    /\ UNCHANGED <<phase, outcome, docker, progress, lastId, futures, timedOut,
                   toNode, fromNode, debuggee>>

ContainerDies ==
    /\ container = "running" /\ phase # "over"
    /\ container' = "exited" /\ open' = FALSE
    /\ UNCHANGED <<phase, outcome, held, refused, progress, lastId, futures,
                   timedOut, toNode, fromNode, debuggee>>

-----------------------------------------------------------------------------

NodeStep ==
    \/ RunContainer \/ ContainerReady \/ Launch \/ Connect
    \/ Send \/ SendRaises \/ SendReturns \/ SendTimesOut
    \/ PauseSeen \/ PauseTimesOut
    \/ Synthesise \/ StopContainer \/ RemoveContainer

Environment ==
    InspectorAnswers \/ ProgramPauses \/ Disconnect \/ ContainerDies

Done == phase = "over" /\ UNCHANGED vars

Next == NodeStep \/ Receive \/ Environment \/ Cancel \/ Done

Spec == Init /\ [][Next]_vars

(* The coroutine runs when it can, and its timeouts fire; the inspector and
   the program owe nothing. *)
FairSpec == Spec /\ WF_vars(NodeStep)

-----------------------------------------------------------------------------
(* Properties *)

Labels == {"enable", "runtime", "breakpoint", "resume", "step", "variables",
           "evaluate"}
Commands == [id : Nat, label : Labels, event : Nat]
Messages ==
    [kind : {"reply"}, id : Nat, ok : BOOLEAN]
        \cup [kind : {"paused"}, id : 1..MaxPauses, ok : BOOLEAN]

NodeTypes ==
    /\ phase \in InTry \cup {"warming", "polling", "stopping", "removing",
                             "over"}
    /\ outcome \in {"none", "returned", "raised", "cancelled"}
    /\ container \in {"none", "running", "exited", "removed"}
    /\ held \in BOOLEAN /\ refused \in BOOLEAN /\ timedOut \in BOOLEAN
    /\ open \in BOOLEAN
    /\ program \in {"paused", "running"} /\ pauses \in 1..MaxPauses

SessionTypes ==
    /\ label \in Labels /\ awaiting \in {"nothing", "reply", "pause"}
    /\ event \in 0..MaxPauses /\ steps \in 0..MaxSteps
    /\ label \in {"variables", "evaluate", "step"} => event > 0
    /\ hits \in Seq(1..MaxPauses)

ClientTypes ==
    /\ lastId \in Nat /\ reply \in Messages 
    /\ pending \subseteq 1..lastId
    /\ pauseFuture \in None..MaxPauses

WireTypes == toNode \in Seq(Commands) /\ fromNode \in Seq(Messages)

(* The node, the client and the wires are in one of their states. *)
TypeOK == NodeTypes /\ SessionTypes /\ ClientTypes /\ WireTypes

(* get_scope_variables_from_paused, evaluate_in_frame: what the node is given for
   the pause that it looks at was read in that pause, with the program still in
   it.  Neither a pause that is seen late nor the late answer of a command that
   timed out, such as the resumption, passes for it. *)
VariablesAreOfThePause ==
    label \in {"variables", "evaluate"} /\ awaiting = "reply" /\ reply.ok
        => program = "paused" /\ pauses = event

(* Each pause is recorded at most once, and in the order of the program, over
   commands that time out and pauses that nobody waits for. *)
HitsComeInOrder ==
    \A i, j \in DOMAIN hits : i < j => hits[i] < hits[j]

(* A container that the node has got is removed, however the debugging, the
   agent or a session timeout ends it, unless docker itself fails or the
   removal is cut off. *)
ContainerIsReleased ==
    phase = "over" /\ held => container = "removed" \/ refused

(* How far the node is from its end, and in a session how many commands, replies
   and pauses it still has before it, the steps that are left included. *)
PhaseLeft(p) ==
    [warming |-> 8, polling |-> 7, launching |-> 6, connecting |-> 5,
     session |-> 4, synthesising |-> 3, stopping |-> 2, removing |-> 1,
     over |-> 0][p]
CommandLeft(l) ==
    [enable |-> 7, runtime |-> 6, breakpoint |-> 5, resume |-> 4, step |-> 3,
     variables |-> 2, evaluate |-> 1][l]
AwaitLeft(a) == [nothing |-> 2, reply |-> 1, pause |-> 0][a]
SessionLeft(l, a, s) == 24 * s + 3 * CommandLeft(l) + AwaitLeft(a)

(* The node only goes towards its end: no reply that is late, no pause, no step
   and no failure takes it back to an earlier phase or to a command of which it
   has had the outcome. *)
NodeDescends ==
    [][\/ PhaseLeft(phase') < PhaseLeft(phase)
       \/ /\ phase' = phase
          /\ SessionLeft(label', awaiting', steps')
                < SessionLeft(label, awaiting, steps)]_<<phase, label, awaiting,
                                                         steps>>

(* wait_for_paused: what the coroutine waits for is a future that a pause or the
   timeout still resolves; no pause has taken it away. *)
PauseIsAwaited == phase = "session" /\ awaiting = "pause" => pauseFuture # None

(* The node ends, whatever the inspector and the program do. *)
DebuggerEnds == phase = "warming" ~> phase = "over"
=============================================================================
