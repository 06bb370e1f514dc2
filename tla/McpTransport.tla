---------------------------- MODULE McpTransport ----------------------------
(***************************************************************************)
(* McpStdioTransport: calls of MCP tools as lines of JSON-RPC on the pipes *)
(* of a subprocess, with a lock around each call, a timeout on each read,  *)
(* one reconnection, and no look at the id of an answer.                   *)
(*                                                                         *)
(* The command line starts the transport, validates it, lets the graph     *)
(* call it and stops it.  A request is its id and an answer the id of the  *)
(* request it answers; 0 is the handshake.  An action is the code between  *)
(* two awaits.  The subprocess answers in order and may refuse a request;  *)
(* it may be slow, die, or write a line that answers nothing.              *)
(***************************************************************************)
EXTENDS Integers, Sequences

CONSTANTS
    Callers,     \* tasks that call tools
    Nobody,      \* no caller
    MaxCalls,    \* bound: calls made in a session
    MaxDeaths    \* bound: subprocesses that die by themselves

ASSUME CallersAssumption == Callers # {} /\ Nobody \notin Callers
ASSUME BoundsAssumption == MaxCalls \in Nat /\ MaxDeaths \in Nat

VARIABLES
    main,       \* progress of the command line
    pc,         \* progress of each caller
    lock,       \* holder of _lock
    reqId,      \* _req_id
    request,    \* id of the request each caller sent last
    answer,     \* what its last call returned
    proc,       \* _proc: number of the current subprocess, 0 before the first
    seenDead,   \* _proc.returncode is not None
    inbox,      \* lines the current subprocess has not read
    out,        \* lines the transport has not read
    alive,      \* subprocesses that run
    slow,       \* the server may be later than _TIMEOUT_SEC
    chatty,     \* the server may write notifications
    deaths,     \* subprocesses that died by themselves
    latest,     \* history: newest answer returned so far
    refused     \* history: the server has refused the last request

pipe == <<proc, seenDead, inbox, out, alive>>
calls == <<pc, lock, reqId, request, answer, latest, refused>>
server == <<slow, chatty, deaths>>
vars == <<main, pc, lock, reqId, request, answer, proc, seenDead, inbox, out,
          alive, slow, chatty, deaths, latest, refused>>

-----------------------------------------------------------------------------

Handshake == 0              \* the id of the initialize request
Notification == -1          \* a line that answers no request
Failure == -2               \* _on_failure()
NoAnswer == -3              \* the caller has not returned yet
Refused == -4               \* an answer with an error or without content

Lives == proc \in alive

Init ==
    /\ main = "start"
    /\ pc = [c \in Callers |-> "idle"]
    /\ lock = Nobody /\ reqId = 0
    /\ request = [c \in Callers |-> 0]
    /\ answer = [c \in Callers |-> NoAnswer]
    /\ proc = 0 /\ seenDead = FALSE /\ inbox = <<>> /\ out = <<>>
    /\ alive = {}
    /\ slow \in BOOLEAN /\ chatty \in BOOLEAN /\ deaths = 0
    /\ latest = 0 /\ refused = FALSE

-----------------------------------------------------------------------------
(* start(): a new subprocess with new pipes replaces the current one, which is
   not stopped, and the initialize request is written to it. *)

SpawnUnassigned ==          \* mutation
    /\ proc' = proc /\ alive' = alive \cup {proc + 1}
    /\ seenDead' = FALSE
    /\ inbox' = <<Handshake>> /\ out' = <<>>

Spawn ==
    /\ proc' = proc + 1 /\ alive' = alive \cup {proc + 1}
    /\ seenDead' = FALSE
    /\ inbox' = <<Handshake>> /\ out' = <<>>

(* Nothing to read: the pipe is closed, or the timeout strikes first. *)
AtEof == out = <<>> /\ ~Lives
TimesOut == out = <<>> /\ Lives /\ slow

HandshakeDone == out # <<>> /\ Head(out) = Handshake /\ out' = Tail(out)

(* An empty line is no JSON; neither a notification nor an error has a
   "result". *)
HandshakeFails ==
    \/ (AtEof \/ TimesOut) /\ out' = out
    \/ out # <<>> /\ Head(out) \in {Notification, Refused} /\ out' = Tail(out)

Starting == main \in {"start", "validate"}

MainSpawns ==
    /\ Starting
    /\ Spawn
    /\ main' = IF main = "start" THEN "starting" ELSE "validating"
    /\ UNCHANGED <<calls, server>>

MainConnects ==
    /\ main \in {"starting", "validating"}
    /\ HandshakeDone
    /\ main' = IF main = "starting" THEN "validate" ELSE "ready"
    /\ UNCHANGED <<calls, server, proc, seenDead, inbox, alive>>

(* start() is called before the try, so nothing stops what it has started;
   validate() inside it. *)
MainFails ==
    /\ main \in {"starting", "validating"}
    /\ HandshakeFails
    /\ main' = IF main = "starting" THEN "aborted" ELSE "stop"
    /\ UNCHANGED <<calls, server, proc, seenDead, inbox, alive>>

(* stop() terminates the current subprocess; terminate() raises if asyncio
   has seen it exit and its pipes close. *)
MainStops ==
    /\ main = "stop" \/ (main = "ready" /\ lock = Nobody)
    /\ \/ main' = "stopped"
       \/ seenDead /\ main' = "aborted"
    /\ alive' = alive \ {proc}
    /\ UNCHANGED <<calls, server, proc, seenDead, inbox, out>>

(* The session timeout cancels the graph, and the call it is in. *)
SessionTimesOut ==
    /\ main = "ready" /\ lock # Nobody
    /\ main' = "stop"
    /\ pc' = [pc EXCEPT ![lock] = "cancelled"] /\ lock' = Nobody
    /\ UNCHANGED <<reqId, request, answer, latest, refused, pipe, server>>

-----------------------------------------------------------------------------
(* _call *)

Finish(c, label, value) ==
    /\ pc' = [pc EXCEPT ![c] = label]
    /\ lock' = Nobody
    /\ answer' = [answer EXCEPT ![c] = value]
    /\ latest' = IF value > latest THEN value ELSE latest
    /\ UNCHANGED <<reqId, request, refused>>

Return(c, value) == Finish(c, "idle", value)

Goto(c, label) ==
    /\ pc' = [pc EXCEPT ![c] = label]
    /\ UNCHANGED <<lock, reqId, request, answer, latest, refused>>

(* stdin.write and drain: a subprocess that has died reads nothing. *)
Written(id) == inbox' = IF Lives THEN Append(inbox, id) ELSE inbox

(* The request is written under a new id; drain may raise once the subprocess
   has died. *)
Transmit(c) ==
    /\ reqId' = reqId + 1
    /\ request' = [request EXCEPT ![c] = reqId + 1]
    /\ answer' = [answer EXCEPT ![c] = NoAnswer]
    /\ Written(reqId + 1)
    /\ \/ pc' = [pc EXCEPT ![c] = "read"]
       \/ ~Lives /\ pc' = [pc EXCEPT ![c] = "retry"]
    /\ refused' = FALSE
    /\ UNCHANGED latest

LockIgnored(c) == TRUE         \* mutation
MayEnter(c) == lock = Nobody

Enters(c) ==
    /\ main = "ready" /\ pc[c] = "idle" /\ MayEnter(c)
    /\ reqId < MaxCalls

(* _ensure_running finds the subprocess alive, as far as asyncio knows. *)
Call(c) ==
    /\ Enters(c)
    /\ ~seenDead
    /\ lock' = c
    /\ Transmit(c)
    /\ UNCHANGED <<main, proc, seenDead, out, alive, server>>

CallReconnects(c) ==
    /\ Enters(c)
    /\ seenDead
    /\ lock' = c
    /\ pc' = [pc EXCEPT ![c] = "handshake"]
    /\ Spawn
    /\ UNCHANGED <<main, reqId, request, answer, latest, refused, server>>

CallReconnected(c) ==
    /\ pc[c] = "handshake"
    /\ HandshakeDone
    /\ Transmit(c)
    /\ UNCHANGED <<main, lock, proc, seenDead, alive, server>>

(* The next line is taken for the answer, whatever its id.  Only the answer to
   a call that was not refused has content: no error, no notification and no
   late answer to a handshake. *)
Parsed(line) == IF line > Handshake THEN line ELSE Failure

Read(c) ==
    /\ pc[c] \in {"read", "reread"}
    /\ out # <<>>
    /\ out' = Tail(out)
    /\ Return(c, Parsed(Head(out)))
    /\ UNCHANGED <<main, proc, seenDead, inbox, alive, server>>

(* No clause catches what a line of another shape raises (one that is no
   object, a result that is null), and none what one that is no JSON raises in
   the second read. *)
ReadRaises(c) ==
    /\ pc[c] \in {"read", "reread"}
    /\ out # <<>> /\ Head(out) \in {Notification, Refused}
    /\ out' = Tail(out)
    /\ Finish(c, "raised", NoAnswer)
    /\ UNCHANGED <<main, proc, seenDead, inbox, alive, server>>

(* An empty line is no JSON.  The first read is in a try that catches this;
   the second is in an except clause with a try for OSError only. *)
ReadEof(c) ==
    /\ AtEof
    /\ \/ pc[c] = "read" /\ Return(c, Failure)
       \/ pc[c] = "reread" /\ Finish(c, "raised", NoAnswer)
    /\ UNCHANGED <<main, pipe, server>>

(* asyncio.TimeoutError is an OSError since Python 3.11: the clause for
   transport errors catches it, and not the one that names it. *)
ReadTimesOut(c) ==
    /\ pc[c] = "read"
    /\ TimesOut
    /\ Goto(c, "retry")
    /\ UNCHANGED <<main, pipe, server>>

RereadWaits(c) == FALSE        \* mutation
RereadTimesOut(c) ==
    /\ pc[c] = "reread"
    /\ TimesOut
    /\ Return(c, Failure)
    /\ UNCHANGED <<main, pipe, server>>

RewriteRenumbered(c) ==     \* mutation
    /\ Written(request[c] + 1)
    /\ Goto(c, "reread")

(* The same request again: to the same subprocess if asyncio has not seen it
   die, and to a new one otherwise. *)
Rewrite(c) ==
    /\ Written(request[c])
    /\ \/ Goto(c, "reread")
       \/ ~Lives /\ Return(c, Failure)

Retry(c) ==
    /\ pc[c] = "retry"
    /\ ~seenDead
    /\ Rewrite(c)
    /\ UNCHANGED <<main, proc, seenDead, out, alive, server>>

RetryReconnects(c) ==
    /\ pc[c] = "retry"
    /\ seenDead
    /\ Spawn
    /\ Goto(c, "rehandshake")
    /\ UNCHANGED <<main, server>>

RetryReconnected(c) ==
    /\ pc[c] = "rehandshake"
    /\ HandshakeDone
    /\ Rewrite(c)
    /\ UNCHANGED <<main, proc, seenDead, alive, server>>

ReconnectFails(c) ==
    /\ pc[c] \in {"handshake", "rehandshake"}
    /\ HandshakeFails
    /\ Return(c, Failure)
    /\ UNCHANGED <<main, proc, seenDead, inbox, alive, server>>

-----------------------------------------------------------------------------
(* The subprocess *)

Serve ==
    /\ Lives /\ inbox # <<>>
    /\ inbox' = Tail(inbox) /\ out' = Append(out, Head(inbox))
    /\ UNCHANGED <<main, calls, proc, seenDead, alive, server>>

Refuse ==
    /\ Lives /\ inbox # <<>>
    /\ inbox' = Tail(inbox) /\ out' = Append(out, Refused)
    /\ refused' = (refused \/ Head(inbox) = reqId)
    /\ UNCHANGED <<main, pc, lock, reqId, request, answer, latest, proc,
                   seenDead, alive, server>>

Notify ==
    /\ chatty /\ Lives /\ inbox # <<>> /\ Len(out) < 2
    /\ out' = Append(out, Notification)
    /\ UNCHANGED <<main, calls, proc, seenDead, inbox, alive, server>>

Die ==
    /\ Lives /\ deaths < MaxDeaths
    /\ deaths' = deaths + 1
    /\ alive' = alive \ {proc}
    /\ UNCHANGED <<main, calls, proc, seenDead, inbox, out, slow, chatty>>

(* The event loop learns of the exit of the child. *)
Notice ==
    /\ proc # 0 /\ ~Lives /\ ~seenDead
    /\ seenDead' = TRUE
    /\ UNCHANGED <<main, calls, proc, inbox, out, alive, server>>

Over == main \in {"stopped", "aborted"} /\ UNCHANGED vars

MainStep ==
    \/ MainSpawns \/ MainConnects \/ MainFails \/ MainStops \/ SessionTimesOut

CallerStep(c) ==
    \/ CallReconnected(c) \/ Read(c) \/ ReadRaises(c) \/ ReadEof(c)
    \/ ReadTimesOut(c) \/ RereadTimesOut(c) \/ Retry(c) \/ RetryReconnects(c)
    \/ RetryReconnected(c) \/ ReconnectFails(c)

Next ==
    \/ MainStep
    \/ \E c \in Callers : Call(c) \/ CallReconnects(c) \/ CallerStep(c)
    \/ Serve \/ Refuse \/ Notify \/ Die \/ Notice \/ Over

Spec == Init /\ [][Next]_vars

(* The event loop runs every task that can go on, fires every timeout and
   reaps every child.  A server that is in time answers or refuses; another
   owes nothing. *)
FairSpec ==
    /\ Spec
    /\ \A c \in Callers : WF_vars(CallerStep(c))
    /\ WF_vars(~slow /\ (Serve \/ Refuse))

-----------------------------------------------------------------------------
(* Properties *)

Labels == {"idle", "handshake", "read", "retry", "rehandshake", "reread",
           "raised", "cancelled"}

(* The transport is in one of its states and the pipes hold lines only. *)
TypeOK ==
    /\ main \in {"start", "starting", "validate", "validating", "ready",
                 "stop", "stopped", "aborted"}
    /\ pc \in [Callers -> Labels]
    /\ lock \in Callers \cup {Nobody}
    /\ reqId \in 0..MaxCalls /\ request \in [Callers -> 0..MaxCalls]
    /\ answer \in [Callers -> NoAnswer..MaxCalls]
    /\ proc \in Nat /\ seenDead \in BOOLEAN
    /\ inbox \in Seq(0..MaxCalls) /\ out \in Seq(Refused..MaxCalls)
    /\ alive \subseteq 1..proc
    /\ slow \in BOOLEAN /\ chatty \in BOOLEAN /\ deaths \in 0..MaxDeaths
    /\ latest \in 0..MaxCalls /\ refused \in BOOLEAN

(* A claim of mcp_transport.py:172, which the code keeps only for such servers
   as AnswersOwnCall names: "Send a tools/call JSON-RPC request and return the
   parsed result". *)
EveryAnswerIsOwn ==
    \A c \in Callers : answer[c] > 0 => answer[c] = request[c]

(* If the server is always in time and sends nothing else, a call that returns
   an answer returns its own, through deaths and reconnections. *)
AnswersOwnCall == ~slow /\ ~chatty => EveryAnswerIsOwn

(* One caller at a time is between its write and its read: the lock covers
   the reconnection and the retry too. *)
OneCallOnThePipe ==
    \A c \in Callers :
        pc[c] \notin {"idle", "raised", "cancelled"} => lock = c

(* Late answers and retries shift answers to later calls, never to earlier
   ones, and never reorder them: no call returns an answer older than one
   already returned, or the answer to a request not yet made. *)
AnswersComeInOrder ==
    [][\A c \in Callers :
          answer'[c] > 0 /\ answer'[c] # answer[c] =>
              latest <= answer'[c] /\ answer'[c] <= request'[c]]_vars

(* The subprocess of start(), which that of validate() replaces, is stopped by
   nobody, but it is all that a session may leave behind: a reconnection only
   replaces a subprocess that has exited, and stop() ends the current one. *)
OnlyFirstIsLeftBehind ==
    /\ alive \subseteq {1, proc}
    /\ main \in {"stopped", "aborted"} => alive \subseteq {1}

(* Every call ends, whatever the subprocess does, and gives the lock back. *)
EveryCallEnds == \A c \in Callers : lock = c ~> lock # c

(* Who waits for a line. *)
AwaitsLine ==
    \/ main \in {"starting", "validating"}
    \/ \E c \in Callers : pc[c] \in {"handshake", "read", "rehandshake", "reread"}

(* No call waits for a line that nobody will write: one is in the pipes as long
   as the subprocess lives and is in time.  If it has died the pipe ends, and
   if it is late the timeout strikes. *)
NobodyWaitsInVain == AwaitsLine /\ Lives /\ ~slow => inbox # <<>> \/ out # <<>>

Hop == [handshake |-> 5, read |-> 4, retry |-> 3, rehandshake |-> 2, reread |-> 1,
        idle |-> 0, raised |-> 0, cancelled |-> 0]

(* A call goes forward only: it reconnects at most twice and writes its request
   at most twice, however often the subprocess dies. *)
CallsDescend ==
    [][\A c \in Callers :
          lock = c /\ pc'[c] # pc[c] => Hop[pc'[c]] < Hop[pc[c]]]_vars

-----------------------------------------------------------------------------
(* The contract of a call *)

(* A request is under way from its first write until its call returns. *)
UnderWay == IF lock # Nobody /\ pc[lock] # "handshake" THEN lock ELSE Nobody

Contract == INSTANCE CallContract WITH
    server <- IF slow \/ chatty THEN "any"
              ELSE IF deaths = 0 THEN "steady" ELSE "exact",
    caller <- UnderWay,
    asked <- reqId,
    newest <- latest

(* Callers that share the transport see what CallContract promises: one request
   at a time, answers that are never older than one already returned nor newer
   than the caller's request, the caller's own from a server that is in time
   and writes nothing else, and, if it has not died either, a failure exactly
   when it refused the request.  Reconnections and repeated requests do not
   show. *)
ImplementsContract == Contract!Spec
=============================================================================
