----------------------------- MODULE CallContract -----------------------------
(***************************************************************************)
(* What a tool call over a shared connection promises, whatever pipes,     *)
(* locks and reconnections keep it: requests are numbered in the order in  *)
(* which they are made and one at a time is under way; a call returns an   *)
(* answer, a failure or nothing.  Which answer, and whether a call may     *)
(* fail, depends on the server; one that gives no cause for anything else  *)
(* makes a call fail by refusing it only.  McpTransport implements it.     *)
(***************************************************************************)
EXTENDS Integers

CONSTANTS Callers, Nobody

VARIABLES
    server,     \* steady: in time, writes one line for each request and has
                \* not died; exact: the same, but it has died; any: another
    caller,     \* whose request is under way
    asked,      \* number of the last request
    request,    \* last request of each caller
    answer,     \* what each caller's last call returned
    newest,     \* newest answer returned
    refused     \* the server has refused the last request

vars == <<server, caller, asked, request, answer, newest, refused>>

Failure == -2
NoAnswer == -3

Init ==
    /\ server \in {"steady", "any"}
    /\ caller = Nobody /\ asked = 0 /\ newest = 0 /\ refused = FALSE
    /\ request = [c \in Callers |-> 0]
    /\ answer = [c \in Callers |-> NoAnswer]

Dies ==
    /\ server = "steady" /\ server' = "exact"
    /\ UNCHANGED <<caller, asked, request, answer, newest, refused>>

Refuse ==
    /\ ~refused /\ refused' = TRUE
    /\ UNCHANGED <<server, caller, asked, request, answer, newest>>

Ask(c) ==
    /\ caller = Nobody /\ caller' = c
    /\ asked' = asked + 1
    /\ request' = [request EXCEPT ![c] = asked']
    /\ answer' = [answer EXCEPT ![c] = NoAnswer]
    /\ refused' = FALSE
    /\ UNCHANGED <<server, newest>>

(* A server that is late or noisy may be heard answering an earlier request,
   but none before the last one that was answered. *)
Answers(c) ==
    IF server = "any" THEN (newest..request[c]) \ {0} ELSE {request[c]}

Return(c) ==
    /\ server = "steady" => ~refused
    /\ caller = c /\ caller' = Nobody
    /\ newest' \in Answers(c)
    /\ answer' = [answer EXCEPT ![c] = newest']
    /\ UNCHANGED <<server, asked, request, refused>>

(* Under way, or given up before it was numbered. *)
Fail(c) ==
    /\ server = "steady" => caller = c /\ refused
    /\ caller \in {c, Nobody} /\ caller' = Nobody
    /\ answer' = [answer EXCEPT ![c] = Failure]
    /\ UNCHANGED <<server, asked, request, newest, refused>>

(* The caller is cancelled, or gets an exception. *)
Abandon ==
    /\ caller # Nobody /\ caller' = Nobody
    /\ UNCHANGED <<server, asked, request, answer, newest, refused>>

Next ==
    \/ Dies \/ Refuse \/ Abandon
    \/ \E c \in Callers : Ask(c) \/ Return(c) \/ Fail(c)

Spec == Init /\ [][Next]_vars
=============================================================================
