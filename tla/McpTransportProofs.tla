------------------------- MODULE McpTransportProofs -------------------------
(***************************************************************************)
(* Proofs about McpTransport, for any callers and any number of calls and  *)
(* deaths: the types, the exclusion on the pipe, for a subprocess that is  *)
(* in time and writes nothing else that a call returns its own answer or   *)
(* none, for any subprocess that answers are returned in order and that no *)
(* call waits in vain or goes back, and the contract of a call.            *)
(***************************************************************************)
EXTENDS McpTransport, SequenceTheorems, TLAPS

USE CallersAssumption, BoundsAssumption

Working == {"handshake", "read", "retry", "rehandshake", "reread"}

(* A caller works while it holds the lock and only then, and only while the
   command line lets the graph run; the call of a caller that reconnects
   first is still to be numbered. *)
LockInv ==
    /\ \A c \in Callers : pc[c] \in Working <=> lock = c
    /\ lock # Nobody => main = "ready"
    /\ \A c \in Callers : pc[c] = "handshake" => reqId < MaxCalls

Safe == TypeOK /\ LockInv

(* A line that is read or written is a number the types allow. *)
LEMMA LineTypes ==
  ASSUME TypeOK
  PROVE  /\ out # <<>> => /\ Head(out) \in Refused..MaxCalls
                          /\ Tail(out) \in Seq(Refused..MaxCalls)
         /\ inbox # <<>> => /\ Head(inbox) \in 0..MaxCalls
                            /\ Tail(inbox) \in Seq(0..MaxCalls)
         /\ \A id \in 0..MaxCalls : Append(inbox, id) \in Seq(0..MaxCalls)
         /\ \A id \in Refused..MaxCalls :
               Append(out, id) \in Seq(Refused..MaxCalls)
<1>1. inbox \in Seq(0..MaxCalls) /\ out \in Seq(Refused..MaxCalls)
  BY DEF TypeOK
<1>2. QED
  BY ONLY <1>1, HeadTailProperties, AppendProperties

(* A new subprocess has pipes of the right type. *)
LEMMA SpawnTypes ==
  ASSUME TypeOK, Spawn
  PROVE  /\ proc' \in Nat /\ proc' > 0 /\ seenDead' \in BOOLEAN
         /\ inbox' \in Seq(0..MaxCalls)
         /\ out' \in Seq(Refused..MaxCalls)
         /\ alive' \subseteq 1..proc' /\ proc' \in alive'
<1>1. Handshake \in 0..MaxCalls
  BY DEF Handshake
<1>2. <<Handshake>> \in Seq(0..MaxCalls)
  BY <1>1
<1>3. <<>> \in Seq(Refused..MaxCalls)
  BY EmptySeq
<1>4. /\ inbox' \in Seq(0..MaxCalls)
      /\ out' \in Seq(Refused..MaxCalls)
  BY <1>2, <1>3 DEF Spawn
<1>5. proc \in Nat /\ alive \subseteq 1..proc
  BY DEF TypeOK
<1>6. /\ proc' \in Nat /\ proc' > 0 /\ proc' \in alive'
      /\ alive' \subseteq 1..proc'
  <2>1. proc' = proc + 1 /\ alive' = alive \cup {proc + 1}
    BY DEF Spawn
  <2>2. QED
    BY ONLY <1>5, <2>1
<1>7. QED
  BY <1>4, <1>6 DEF Spawn

(* The value a call may return. *)
LEMMA ValueTypes ==
  /\ Failure \in NoAnswer..MaxCalls /\ NoAnswer \in NoAnswer..MaxCalls
  /\ \A line \in Refused..MaxCalls : Parsed(line) \in NoAnswer..MaxCalls
  BY DEF Failure, NoAnswer, Refused, Handshake, Parsed

(* What a finished call leaves has the types. *)
LEMMA FinishTypes ==
  ASSUME TypeOK, NEW c \in Callers, NEW label \in Labels,
         NEW value \in NoAnswer..MaxCalls, Finish(c, label, value)
  PROVE  /\ pc' \in [Callers -> Labels]
         /\ lock' \in Callers \cup {Nobody}
         /\ answer' \in [Callers -> NoAnswer..MaxCalls]
         /\ latest' \in 0..MaxCalls
         /\ reqId' = reqId /\ request' = request /\ refused' = refused
<1>1. value \in Int /\ latest \in 0..MaxCalls /\ value <= MaxCalls
  BY DEF TypeOK, NoAnswer
<1>2. latest' \in 0..MaxCalls
  BY <1>1 DEF Finish
<1>3. QED
  BY <1>2 DEF TypeOK, Finish

(* What a transmission leaves has the types. *)
LEMMA TransmitTypes ==
  ASSUME TypeOK, NEW c \in Callers, reqId < MaxCalls, Transmit(c)
  PROVE  /\ pc' \in [Callers -> Labels]
         /\ reqId' \in 0..MaxCalls
         /\ request' \in [Callers -> 0..MaxCalls]
         /\ answer' \in [Callers -> NoAnswer..MaxCalls]
         /\ inbox' \in Seq(0..MaxCalls)
         /\ latest' = latest /\ refused' \in BOOLEAN
<1>1. reqId + 1 \in 0..MaxCalls
  BY DEF TypeOK
<1>2. inbox' \in Seq(0..MaxCalls)
  BY <1>1, LineTypes DEF Transmit, Written, TypeOK
<1>3. NoAnswer \in NoAnswer..MaxCalls
  BY DEF NoAnswer
<1>4. QED
  BY <1>1, <1>2, <1>3 DEF TypeOK, Transmit, Labels

(* Every step keeps the types. *)
LEMMA NextKeepsTypes ==
  ASSUME Safe, [Next]_vars
  PROVE  TypeOK'
<1>0. TypeOK
  BY DEF Safe
<1> USE <1>0 DEF calls, pipe, server
<1>1. CASE MainSpawns
  BY <1>1, SpawnTypes DEF MainSpawns, TypeOK
<1>2. CASE MainConnects
  BY <1>2, LineTypes DEF MainConnects, HandshakeDone, TypeOK
<1>3. CASE MainFails
  BY <1>3, LineTypes DEF MainFails, HandshakeFails, TypeOK
<1>4. CASE MainStops
  BY <1>4 DEF MainStops, TypeOK
<1>5. CASE SessionTimesOut
  BY <1>5 DEF SessionTimesOut, TypeOK, Labels
<1>6. ASSUME NEW c \in Callers, Call(c)  PROVE TypeOK'
  BY <1>6, TransmitTypes DEF Call, Enters, TypeOK
<1>7. ASSUME NEW c \in Callers, CallReconnects(c)  PROVE TypeOK'
  BY <1>7, SpawnTypes DEF CallReconnects, TypeOK, Labels
<1>8. ASSUME NEW c \in Callers, CallReconnected(c)  PROVE TypeOK'
  BY <1>8, LineTypes, TransmitTypes
     DEF CallReconnected, HandshakeDone, Safe, LockInv, TypeOK
<1>9. ASSUME NEW c \in Callers, Read(c)  PROVE TypeOK'
  <2>1. Head(out) \in Refused..MaxCalls /\ out' \in Seq(Refused..MaxCalls)
    BY <1>9, LineTypes DEF Read
  <2>2. QED
    BY <1>9, <2>1, ValueTypes, FinishTypes DEF Read, Return, Labels, TypeOK
<1>10. ASSUME NEW c \in Callers, ReadRaises(c) \/ ReadEof(c)  PROVE TypeOK'
  <2>1. out' \in Seq(Refused..MaxCalls) /\ refused' \in BOOLEAN
    BY <1>10, LineTypes DEF ReadRaises, ReadEof, Return, Finish, TypeOK
  <2>2. QED
    BY <1>10, <2>1, ValueTypes, FinishTypes
       DEF ReadRaises, ReadEof, Return, Labels, TypeOK
<1>11. ASSUME NEW c \in Callers, ReadTimesOut(c)  PROVE TypeOK'
  BY <1>11 DEF ReadTimesOut, Goto, Labels, TypeOK
<1>12. ASSUME NEW c \in Callers, RereadTimesOut(c)  PROVE TypeOK'
  BY <1>12, ValueTypes, FinishTypes
     DEF RereadTimesOut, Return, Labels, TypeOK
<1>13. ASSUME NEW c \in Callers, NEW id \in 0..MaxCalls, Written(id)
       PROVE  inbox' \in Seq(0..MaxCalls)
  BY <1>13, LineTypes DEF Written, TypeOK
<1>14. \A c \in Callers : request[c] \in 0..MaxCalls
  BY DEF TypeOK
<1>15. ASSUME NEW c \in Callers, Retry(c)  PROVE TypeOK'
  BY <1>13, <1>14, <1>15, ValueTypes, FinishTypes
     DEF Retry, Rewrite, Goto, Return, Labels, TypeOK
<1>16. ASSUME NEW c \in Callers, RetryReconnects(c)  PROVE TypeOK'
  BY <1>16, SpawnTypes DEF RetryReconnects, Goto, Labels, TypeOK
<1>17. ASSUME NEW c \in Callers, RetryReconnected(c)  PROVE TypeOK'
  BY <1>13, <1>14, <1>17, LineTypes, ValueTypes, FinishTypes
     DEF RetryReconnected, HandshakeDone, Rewrite, Goto, Return, Labels, TypeOK
<1>18. ASSUME NEW c \in Callers, ReconnectFails(c)  PROVE TypeOK'
  BY <1>18, LineTypes, ValueTypes, FinishTypes
     DEF ReconnectFails, HandshakeFails, Return, Labels, TypeOK
<1>19. CASE Serve
  <2>1. Head(inbox) \in 0..MaxCalls /\ 0..MaxCalls \subseteq Refused..MaxCalls
    BY <1>19, LineTypes DEF Serve, Refused
  <2>2. QED BY <1>19, <2>1, LineTypes DEF Serve, TypeOK
<1>20. CASE Refuse \/ Notify
  <2>1. Refused \in Refused..MaxCalls /\ Notification \in Refused..MaxCalls
    BY DEF Notification, Refused
  <2>2. QED BY <1>20, <2>1, LineTypes DEF Refuse, Notify, TypeOK
<1>21. CASE Die
  BY <1>21 DEF Die, TypeOK
<1>22. CASE Notice
  BY <1>22 DEF Notice, TypeOK
<1>23. CASE UNCHANGED vars
  BY <1>23 DEF vars, TypeOK
<1>24. QED
  BY <1>1, <1>2, <1>3, <1>4, <1>5, <1>6, <1>7, <1>8, <1>9, <1>10, <1>11,
     <1>12, <1>15, <1>16, <1>17, <1>18, <1>19, <1>20, <1>21, <1>22, <1>23
     DEF Next, MainStep, CallerStep, Over

(* Every step keeps the discipline of the lock. *)
LEMMA NextKeepsLock ==
  ASSUME Safe, [Next]_vars
  PROVE  LockInv'
<1>0. TypeOK /\ LockInv
  BY DEF Safe
<1> USE <1>0 DEF calls, pipe, server, LockInv, TypeOK, Working
<1>1. CASE MainStep
  BY <1>1 DEF MainStep, MainSpawns, MainConnects, MainFails, MainStops,
     SessionTimesOut, Starting
<1>2. ASSUME NEW c \in Callers, Call(c)  PROVE LockInv'
  BY <1>2 DEF Call, Enters, MayEnter, Transmit
<1>3. ASSUME NEW c \in Callers, CallReconnects(c)  PROVE LockInv'
  BY <1>3 DEF CallReconnects, Enters, MayEnter
<1>4. ASSUME NEW c \in Callers, CallReconnected(c)  PROVE LockInv'
  BY <1>4 DEF CallReconnected, Transmit
<1>5. ASSUME NEW c \in Callers, NEW label \in {"idle", "raised"}, NEW value,
             pc[c] \in Working, Finish(c, label, value), main' = main
      PROVE  LockInv'
  BY <1>5 DEF Finish
<1>6. ASSUME NEW c \in Callers, NEW label \in Working, label # "handshake",
             pc[c] \in Working, Goto(c, label), main' = main
      PROVE  LockInv'
  BY <1>6 DEF Goto
<1>7. ASSUME NEW c \in Callers,
             Read(c) \/ ReadRaises(c) \/ ReadEof(c) \/ ReadTimesOut(c) \/ RereadTimesOut(c)
      PROVE  LockInv'
  BY <1>5, <1>6, <1>7 DEF Read, ReadRaises, ReadEof, ReadTimesOut, RereadTimesOut, Return
<1>8. ASSUME NEW c \in Callers,
             Retry(c) \/ RetryReconnects(c) \/ RetryReconnected(c)
             \/ ReconnectFails(c)
      PROVE  LockInv'
  BY <1>5, <1>6, <1>8 DEF Retry, RetryReconnects, RetryReconnected, Rewrite,
     ReconnectFails, Return
<1>9. CASE Serve \/ Refuse \/ Notify \/ Die \/ Notice \/ UNCHANGED vars
  BY <1>9 DEF Serve, Refuse, Notify, Die, Notice, vars
<1>10. QED
  BY <1>1, <1>2, <1>3, <1>4, <1>7, <1>8, <1>9 DEF Next, CallerStep, Over

(* The initial state is safe. *)
LEMMA InitSafe == Init => Safe
<1>1. ASSUME Init  PROVE TypeOK
  <2>1. inbox \in Seq(0..MaxCalls) /\ out \in Seq(Refused..MaxCalls)
    BY <1>1, EmptySeq DEF Init
  <2>2. /\ pc \in [Callers -> Labels] /\ request \in [Callers -> 0..MaxCalls]
        /\ answer \in [Callers -> NoAnswer..MaxCalls]
        /\ alive \subseteq 1..proc
    BY <1>1, ValueTypes DEF Init, Labels
  <2>3. /\ reqId \in 0..MaxCalls /\ proc \in Nat /\ deaths \in 0..MaxDeaths
        /\ latest \in 0..MaxCalls
    BY <1>1 DEF Init
  <2>4. seenDead \in BOOLEAN /\ refused \in BOOLEAN /\ lock \in Callers \cup {Nobody}
    BY <1>1 DEF Init
  <2>5. QED
    BY <1>1, <2>1, <2>2, <2>3, <2>4, Zenon DEF Init, TypeOK
<1>2. ASSUME Init  PROVE LockInv
  BY <1>2 DEF Init, LockInv, Working
<1>3. QED
  BY <1>1, <1>2 DEF Safe

(* Safe is an invariant. *)
LEMMA AlwaysSafe == Spec => []Safe
<1>1. Safe /\ [Next]_vars => Safe'
  BY NextKeepsTypes, NextKeepsLock DEF Safe
<1>2. QED
  BY InitSafe, <1>1, PTL DEF Spec

(* Every reachable state has the types, for any number of calls and deaths. *)
THEOREM TypeCorrect == Spec => []TypeOK
<1>1. Safe => TypeOK
  BY DEF Safe
<1>2. QED
  BY AlwaysSafe, <1>1, PTL

(* One caller at a time is between its write and its read, whatever the
   subprocess does: reconnections and retries stay under the lock. *)
THEOREM PipeIsExclusive == Spec => []OneCallOnThePipe
<1>1. Safe => OneCallOnThePipe
  BY DEF Safe, TypeOK, LockInv, OneCallOnThePipe, Working, Labels
<1>2. QED
  BY AlwaysSafe, <1>1, PTL

-----------------------------------------------------------------------------
(* What a session leaves behind *)

(* A subprocess that asyncio knows to have exited has; only a session that is
   set up or that runs has any but the first. *)
LeftInv ==
    /\ OnlyFirstIsLeftBehind
    /\ seenDead => ~Lives
    /\ main = "start" => proc = 0
    /\ main \in {"starting", "validate"} => proc = 1

(* Every step keeps LeftInv. *)
LEMMA NextKeepsLeft ==
  ASSUME Safe, LeftInv, [Next]_vars
  PROVE  LeftInv'
<1>0. proc \in Nat /\ alive \subseteq 1..proc
  BY DEF Safe, TypeOK
<1> USE DEF calls, pipe, server
<1>1. CASE MainSpawns
  BY <1>0, <1>1 DEF MainSpawns, Starting, Spawn, LeftInv, OnlyFirstIsLeftBehind,
     Lives
<1>2. CASE MainStops
  BY <1>2 DEF MainStops, LeftInv, OnlyFirstIsLeftBehind, Lives
<1>3. ASSUME NEW c \in Callers, CallReconnects(c) \/ RetryReconnects(c)
      PROVE  LeftInv'
  <2>1. main = "ready" /\ main' = "ready" /\ seenDead /\ Spawn
    BY <1>3 DEF CallReconnects, Enters, RetryReconnects, Safe, LockInv, Working
  <2>2. alive \subseteq {1}
    BY <2>1 DEF LeftInv, OnlyFirstIsLeftBehind, Lives
  <2>3. QED
    BY <1>0, <2>1, <2>2 DEF Spawn, LeftInv, OnlyFirstIsLeftBehind, Lives
<1>4. CASE Die \/ Notice
  BY <1>4 DEF Die, Notice, LeftInv, OnlyFirstIsLeftBehind, Lives
<1>5. ASSUME UNCHANGED <<proc, seenDead, alive>>,
             main' \in {"stopped", "aborted"} =>
                 main \in {"starting", "stopped", "aborted"},
             main' = "start" => main = "start",
             main' \in {"starting", "validate"} => main \in {"starting", "validate"}
      PROVE  LeftInv'
  <2>1. OnlyFirstIsLeftBehind'
    BY ONLY <1>5, LeftInv DEF LeftInv, OnlyFirstIsLeftBehind
  <2>2. QED
    BY ONLY <1>5, <2>1, LeftInv DEF LeftInv, Lives
<1>6. CASE MainConnects \/ MainFails \/ SessionTimesOut
  BY <1>5, <1>6 DEF MainConnects, MainFails, SessionTimesOut
<1>7. ASSUME NEW c \in Callers, Call(c) \/ CallerStep(c), ~RetryReconnects(c)
      PROVE  LeftInv'
  <2>1. UNCHANGED <<main, proc, seenDead, alive>>
    BY ONLY <1>7 DEF CallerStep, Call, CallReconnected, Read, ReadRaises, ReadEof,
       ReadTimesOut, RereadTimesOut, Retry, RetryReconnected, ReconnectFails,
       pipe
  <2>2. QED
    BY <1>5, <2>1
<1>8. CASE Serve \/ Refuse \/ Notify \/ UNCHANGED vars
  BY <1>5, <1>8 DEF Serve, Refuse, Notify, vars
<1>9. QED
  BY <1>1, <1>2, <1>3, <1>4, <1>6, <1>7, <1>8 DEF Next, MainStep, Over

(* However often the subprocess dies and calls reconnect, a session leaves at
   most the subprocess of start() behind, and only one more ever runs. *)
THEOREM OnlyFirstLeaks == Spec => []OnlyFirstIsLeftBehind
<1>1. Init => LeftInv
  BY DEF Init, LeftInv, OnlyFirstIsLeftBehind
<1>2. LeftInv => OnlyFirstIsLeftBehind
  BY DEF LeftInv
<1>3. QED
  BY <1>1, <1>2, AlwaysSafe, NextKeepsLeft, PTL DEF Spec

-----------------------------------------------------------------------------
(* Why every call ends: it never goes back, and never waits in vain *)

Filled == inbox # <<>> \/ out # <<>>

(* A write to a subprocess that lives is a line in the pipes. *)
LEMMA WriteFills ==
  ASSUME Safe, NEW id \in 0..MaxCalls, Written(id), alive' = alive, proc' = proc
  PROVE  Lives' => Filled'
<1>1. inbox \in Seq(0..MaxCalls)
  BY DEF Safe, TypeOK
<1>2. Append(inbox, id) # <<>>
  BY ONLY <1>1, id \in 0..MaxCalls, AppendProperties
<1>3. QED BY <1>2 DEF Written, Lives, Filled

LEMMA SpawnFills == Spawn => Filled'
BY DEF Spawn, Filled

(* Every step keeps the line that is waited for, or takes it and waits no
   longer. *)
LEMMA NextKeepsWaiting ==
  ASSUME Safe, NobodyWaitsInVain, [Next]_vars
  PROVE  NobodyWaitsInVain'
<1>0. TypeOK /\ LockInv
  BY DEF Safe
<1> USE DEF calls, pipe, server
<1>1. ASSUME Filled'  PROVE NobodyWaitsInVain'
  BY <1>1 DEF Filled, NobodyWaitsInVain
<1>2. ASSUME UNCHANGED <<slow, alive, proc, inbox, out>>, AwaitsLine' => AwaitsLine
      PROVE  NobodyWaitsInVain'
  BY <1>2 DEF NobodyWaitsInVain, Lives
<1>3. ASSUME NEW c \in Callers, pc[c] \in Working,
             NEW label \in {"idle", "raised", "cancelled", "retry"},
             pc' = [pc EXCEPT ![c] = label], main' \in {"ready", "stop"}
      PROVE  NobodyWaitsInVain'
  <2>1. ~AwaitsLine'
    BY <1>0, <1>3 DEF AwaitsLine, LockInv, TypeOK, Working
  <2>2. QED BY <2>1 DEF NobodyWaitsInVain
<1>4. ASSUME NEW c \in Callers, Transmit(c), alive' = alive, proc' = proc,
             reqId < MaxCalls
      PROVE  NobodyWaitsInVain'
  <2>1. reqId + 1 \in 0..MaxCalls
    BY <1>0, <1>4 DEF TypeOK
  <2>2. Lives' => Filled'
    BY <1>4, <2>1, WriteFills DEF Transmit
  <2>3. QED BY <1>1, <2>2 DEF NobodyWaitsInVain
<1>5. ASSUME NEW c \in Callers, Rewrite(c), alive' = alive, proc' = proc
      PROVE  NobodyWaitsInVain'
  <2>1. request[c] \in 0..MaxCalls
    BY <1>0 DEF TypeOK
  <2>2. Lives' => Filled'
    BY <1>5, <2>1, WriteFills DEF Rewrite
  <2>3. QED BY <1>1, <2>2 DEF NobodyWaitsInVain
<1>6. ASSUME main' \notin {"starting", "validating"}, pc' = pc, lock = Nobody
      PROVE  NobodyWaitsInVain'
  BY <1>0, <1>6 DEF NobodyWaitsInVain, AwaitsLine, LockInv, Working, TypeOK
<1>7. CASE MainSpawns
  BY <1>1, <1>7, SpawnFills DEF MainSpawns
<1>8. CASE MainConnects \/ MainFails \/ MainStops
  BY <1>0, <1>6, <1>8 DEF MainConnects, MainFails, MainStops, LockInv
<1>9. CASE SessionTimesOut
  <2>1. lock \in Callers /\ pc[lock] \in Working
    BY <1>0, <1>9 DEF SessionTimesOut, TypeOK, LockInv
  <2>2. QED BY <1>3, <1>9, <2>1 DEF SessionTimesOut
<1>10. ASSUME NEW c \in Callers, Call(c)  PROVE NobodyWaitsInVain'
  BY <1>4, <1>10 DEF Call, Enters
<1>11. ASSUME NEW c \in Callers, CallReconnects(c) \/ RetryReconnects(c)
       PROVE  NobodyWaitsInVain'
  BY <1>1, <1>11, SpawnFills DEF CallReconnects, RetryReconnects
<1>12. ASSUME NEW c \in Callers, CallReconnected(c)  PROVE NobodyWaitsInVain'
  BY <1>0, <1>4, <1>12 DEF CallReconnected, LockInv
<1>13. ASSUME NEW c \in Callers,
              Read(c) \/ ReadRaises(c) \/ ReadEof(c) \/ ReadTimesOut(c) \/ RereadTimesOut(c)
              \/ ReconnectFails(c)
       PROVE  NobodyWaitsInVain'
  <2>1. pc[c] \in Working /\ main = "ready" /\ main' = main
    BY <1>0, <1>13, CallersAssumption
       DEF Read, ReadRaises, ReadEof, ReadTimesOut, RereadTimesOut, ReconnectFails, LockInv,
       Working
  <2>2. \E label \in {"idle", "raised", "cancelled", "retry"} :
          pc' = [pc EXCEPT ![c] = label]
    BY <1>13 DEF Read, ReadRaises, ReadEof, ReadTimesOut, RereadTimesOut, ReconnectFails,
       Return, Finish, Goto
  <2>3. QED BY <1>3, <2>1, <2>2
<1>14. ASSUME NEW c \in Callers, Retry(c) \/ RetryReconnected(c)
       PROVE  NobodyWaitsInVain'
  BY <1>5, <1>14 DEF Retry, RetryReconnected
<1>15. CASE Serve
  <2>1. /\ out \in Seq(Refused..MaxCalls)
        /\ Head(inbox) \in Refused..MaxCalls
    <3>1. out \in Seq(Refused..MaxCalls)
      BY <1>0 DEF TypeOK
    <3>2. Head(inbox) \in 0..MaxCalls
      BY <1>0, <1>15, LineTypes DEF Serve
    <3>3. QED BY <3>1, <3>2 DEF Refused
  <2>2. Append(out, Head(inbox)) # <<>>
    BY ONLY <2>1, AppendProperties
  <2>3. QED BY <1>1, <1>15, <2>2 DEF Serve, Filled
<1>16. CASE Refuse \/ Notify
  <2>1. ASSUME NEW o \in Seq(Refused..MaxCalls), NEW line \in Refused..MaxCalls
        PROVE  Append(o, line) # <<>>
    BY ONLY <2>1, AppendProperties
  <2>2. out \in Seq(Refused..MaxCalls)
    BY <1>0 DEF TypeOK
  <2>3. Refused \in Refused..MaxCalls /\ Notification \in Refused..MaxCalls
    BY DEF Notification, Refused
  <2>4. QED BY <1>1, <1>16, <2>1, <2>2, <2>3 DEF Refuse, Notify, Filled
<1>17. CASE Die
  BY <1>17 DEF Die, NobodyWaitsInVain, Lives
<1>18. CASE Notice \/ UNCHANGED vars
  BY <1>2, <1>18 DEF Notice, vars, AwaitsLine
<1>19. QED
  BY <1>7, <1>8, <1>9, <1>10, <1>11, <1>12, <1>13, <1>14, <1>15, <1>16, <1>17,
     <1>18 DEF Next, MainStep, CallerStep, Over

(* Whoever waits for a line waits for one that comes, for the end of the pipe
   or for the timeout: the lock is never held for nothing. *)
THEOREM WaitsAreAnswered == Spec => []NobodyWaitsInVain
<1>1. Init => NobodyWaitsInVain
  BY DEF Init, NobodyWaitsInVain, AwaitsLine
<1>2. QED
  BY <1>1, AlwaysSafe, NextKeepsWaiting, PTL DEF Spec

LEMMA Hops ==
    /\ Hop["handshake"] = 5 /\ Hop["read"] = 4 /\ Hop["retry"] = 3
    /\ Hop["rehandshake"] = 2 /\ Hop["reread"] = 1 /\ Hop["idle"] = 0
    /\ Hop["raised"] = 0 /\ Hop["cancelled"] = 0
BY DEF Hop

CallDescends ==
    \A c \in Callers : lock = c /\ pc'[c] # pc[c] => Hop[pc'[c]] < Hop[pc[c]]

LEMMA NextDescends ==
  ASSUME Safe, [Next]_vars
  PROVE  CallDescends
<1>0. pc \in [Callers -> Labels] /\ LockInv
  BY DEF Safe, TypeOK
<1> USE <1>0, Hops DEF calls, pipe, server, CallDescends
<1>1. ASSUME NEW c \in Callers, NEW label \in {"idle", "raised", "cancelled"},
             pc[c] \in Working, pc' = [pc EXCEPT ![c] = label]
      PROVE  CallDescends
  BY <1>1 DEF Working
<1>2. ASSUME pc' = pc \/ lock = Nobody  PROVE CallDescends
  BY <1>2, CallersAssumption
<1>3. CASE MainSpawns \/ MainConnects \/ MainFails \/ MainStops
  BY <1>2, <1>3 DEF MainSpawns, MainConnects, MainFails, MainStops
<1>4. CASE SessionTimesOut
  <2>1. lock \in Callers /\ pc[lock] \in Working
    BY <1>4 DEF SessionTimesOut, Safe, TypeOK, LockInv
  <2>2. QED BY <1>1, <1>4, <2>1 DEF SessionTimesOut
<1>5. ASSUME NEW c \in Callers, Call(c) \/ CallReconnects(c)
      PROVE  CallDescends
  BY <1>2, <1>5 DEF Call, CallReconnects, Enters, MayEnter
<1>6. ASSUME NEW c \in Callers, CallReconnected(c)  PROVE CallDescends
  BY <1>6 DEF CallReconnected, Transmit
<1>7. ASSUME NEW c \in Callers, Read(c) \/ ReadRaises(c) \/ ReadEof(c) \/ RereadTimesOut(c)
                                \/ ReconnectFails(c)
      PROVE  CallDescends
  BY <1>1, <1>7 DEF Read, ReadRaises, ReadEof, RereadTimesOut, ReconnectFails, Return,
     Finish, Working
<1>8. ASSUME NEW c \in Callers, ReadTimesOut(c) \/ RetryReconnects(c)
      PROVE  CallDescends
  BY <1>8 DEF ReadTimesOut, RetryReconnects, Goto
<1>9. ASSUME NEW c \in Callers, Retry(c) \/ RetryReconnected(c)
      PROVE  CallDescends
  BY <1>9 DEF Retry, RetryReconnected, Rewrite, Goto, Return, Finish
<1>10. CASE Serve \/ Refuse \/ Notify \/ Die \/ Notice \/ UNCHANGED vars
  BY <1>2, <1>10 DEF Serve, Refuse, Notify, Die, Notice, vars
<1>11. QED
  BY <1>3, <1>4, <1>5, <1>6, <1>7, <1>8, <1>9, <1>10
     DEF Next, MainStep, CallerStep, Over

(* A call never goes back to what it has done. *)
THEOREM CallsGoForward == Spec => CallsDescend
<1>1. Safe /\ [Next]_vars => [CallDescends]_vars
  BY NextDescends
<1>2. QED
  BY <1>1, AlwaysSafe, PTL DEF Spec, CallsDescend, CallDescends

-----------------------------------------------------------------------------
(* A subprocess that is in time and writes one line for each request *)

(* The pipes hold the line that id waits for, or its refusal, and nothing else:
   on its way in or out, or, once the subprocess has died, possibly lost. *)
Carries(id) ==
    /\ out \in {<<>>, <<id>>, <<Refused>>}
    /\ Lives => \/ out = <<>> /\ inbox = <<id>>
                \/ out # <<>> /\ inbox = <<>>

Quiet == out = <<>> /\ (Lives => inbox = <<>>)

PipeInv ==
    /\ proc \notin alive \/ ~seenDead
    /\ main \in {"starting", "validating"} => Carries(Handshake)
    /\ main = "ready" /\ lock = Nobody => Quiet
    /\ \A c \in Callers :
          /\ pc[c] \in {"handshake", "rehandshake"} => Carries(Handshake)
          /\ pc[c] \in {"read", "reread"} => Carries(request[c])
          /\ pc[c] = "retry" => out = <<>> /\ ~Lives
    /\ EveryAnswerIsOwn

(* Sequences of one line. *)
LEMMA SingleLine ==
  ASSUME NEW id
  PROVE  /\ Head(<<id>>) = id /\ Tail(<<id>>) = <<>>
         /\ Append(<<>>, id) = <<id>> /\ <<id>> # <<>>
  OBVIOUS

(* A request is all the pipes carry if nothing else is written or unread. *)
LEMMA WriteCarries ==
  ASSUME NEW id, Written(id), Lives => inbox = <<>>, out' = <<>>,
         UNCHANGED <<proc, alive>>
  PROVE  Carries(id)'
  BY SingleLine DEF Written, Carries, Lives

(* A new subprocess carries the handshake. *)
LEMMA SpawnCarries ==
  ASSUME Spawn
  PROVE  Carries(Handshake)' /\ ~seenDead'
  BY DEF Spawn, Carries, Lives

(* Reading the line that the pipes carry leaves them quiet. *)
LEMMA ReadQuiets ==
  ASSUME NEW id, Carries(id), out # <<>>, out' = Tail(out),
         UNCHANGED <<proc, alive, inbox>>
  PROVE  Head(out) \in {id, Refused} /\ Quiet'
  BY SingleLine DEF Carries, Quiet, Lives

(* A handshake that is done leaves nothing unread. *)
LEMMA HandshakeEmpties ==
  ASSUME Carries(Handshake), HandshakeDone
  PROVE  out' = <<>> /\ (Lives => inbox = <<>>)
  BY SingleLine DEF Carries, HandshakeDone

(* A handshake that fails with a subprocess that is in time, because it has
   died or refuses, leaves nothing unread. *)
LEMMA HandshakeFailsQuietly ==
  ASSUME ~slow, Carries(Handshake), HandshakeFails, UNCHANGED <<proc, alive, inbox>>
  PROVE  Quiet'
<1>1. CASE out # <<>> /\ out' = Tail(out)
  BY <1>1, ReadQuiets
<1>2. CASE AtEof /\ out' = out
  BY <1>2 DEF AtEof, Quiet, Lives
<1>3. QED
  BY <1>1, <1>2 DEF HandshakeFails, TimesOut

(* The steps of the command line. *)
LEMMA MainKeepsPipe ==
  ASSUME Safe, PipeInv, ~slow, MainStep
  PROVE  PipeInv'
<1>0. TypeOK /\ LockInv
  BY DEF Safe
<1> USE <1>0 DEF calls, pipe, server
<1>1. CASE MainSpawns
  <2>1. \A c \in Callers : pc'[c] \notin Working
    BY <1>1 DEF MainSpawns, Starting, LockInv
  <2>2. QED
    BY <1>1, <2>1, SpawnCarries
       DEF MainSpawns, PipeInv, EveryAnswerIsOwn, Working
<1>2. CASE MainConnects
  <2>1. \A c \in Callers : pc'[c] \notin Working
    BY <1>2 DEF MainConnects, LockInv
  <2>2. Quiet'
    BY <1>2, ReadQuiets DEF MainConnects, HandshakeDone, PipeInv
  <2>3. QED
    BY <1>2, <2>1, <2>2 DEF MainConnects, PipeInv, EveryAnswerIsOwn, Working
<1>3. CASE MainFails
  <2>1. \A c \in Callers : pc'[c] \notin Working
    BY <1>3 DEF MainFails, LockInv
  <2>2. QED
    BY <1>3, <2>1 DEF MainFails, PipeInv, EveryAnswerIsOwn, Working
<1>4. CASE MainStops
  <2>1. \A c \in Callers : pc'[c] \notin Working
    BY <1>4 DEF MainStops, LockInv, TypeOK
  <2>2. QED
    BY <1>4, <2>1 DEF MainStops, PipeInv, EveryAnswerIsOwn, Working
<1>5. CASE SessionTimesOut
  <2>1. \A c \in Callers : pc'[c] \notin Working
    BY <1>5 DEF SessionTimesOut, LockInv, TypeOK, Working
  <2>2. QED
    BY <1>5, <2>1 DEF SessionTimesOut, PipeInv, EveryAnswerIsOwn, Working
<1>6. QED
  BY <1>1, <1>2, <1>3, <1>4, <1>5 DEF MainStep

(* The callers that do not hold the lock, before and after a step of c. *)
OthersRest(c) ==
    \A d \in Callers \ {c} :
        /\ pc[d] \notin Working
        /\ pc'[d] = pc[d] /\ answer'[d] = answer[d] /\ request'[d] = request[d]

(* A caller that works is alone: only its own part of PipeInv can break. *)
LEMMA OnlyHolderMatters ==
  ASSUME Safe, PipeInv, NEW c \in Callers, OthersRest(c),
         main' = "ready", proc' \notin alive' \/ ~seenDead',
         answer'[c] > 0 => answer'[c] = request'[c],
         lock' = Nobody => Quiet',
         pc'[c] \in {"handshake", "rehandshake"} => Carries(Handshake)',
         pc'[c] \in {"read", "reread"} => Carries(request[c])',
         pc'[c] = "retry" => out' = <<>> /\ ~Lives'
  PROVE  PipeInv'
  BY DEF OthersRest, PipeInv, EveryAnswerIsOwn, Working

(* A call that finishes on quiet pipes, with its own answer or none. *)
LEMMA FinishKeepsPipe ==
  ASSUME Safe, PipeInv, NEW c \in Callers, pc[c] \in Working,
         NEW label \in {"idle", "raised"}, NEW value \in {Failure, NoAnswer, request[c]},
         Finish(c, label, value), Quiet', main' = main,
         UNCHANGED <<proc, alive, seenDead>>
  PROVE  PipeInv'
<1>1. lock = c /\ main = "ready"
  BY DEF Safe, TypeOK, LockInv
<1>2. OthersRest(c)
  BY <1>1 DEF Safe, TypeOK, LockInv, OthersRest, Finish
<1>3. pc'[c] = label /\ answer'[c] = value /\ request' = request
  BY DEF Safe, TypeOK, Finish
<1>4. answer'[c] > 0 => answer'[c] = request'[c]
  BY <1>3 DEF Failure, NoAnswer
<1>5. QED
  BY <1>1, <1>2, <1>3, <1>4, OnlyHolderMatters DEF PipeInv

(* A caller that goes on with the lock it holds. *)
LEMMA GotoKeepsPipe ==
  ASSUME Safe, PipeInv, NEW c \in Callers, pc[c] \in Working,
         NEW label \in Working, Goto(c, label), main' = main,
         proc' \notin alive' \/ ~seenDead',
         label \in {"handshake", "rehandshake"} => Carries(Handshake)',
         label \in {"read", "reread"} => Carries(request[c])',
         label = "retry" => out' = <<>> /\ ~Lives'
  PROVE  PipeInv'
<1>1. lock = c /\ main = "ready" /\ lock' = c
  BY DEF Safe, TypeOK, LockInv, Goto
<1>2. OthersRest(c)
  BY <1>1 DEF Safe, TypeOK, LockInv, OthersRest, Goto
<1>3. pc'[c] = label /\ answer' = answer /\ request' = request
  BY DEF Safe, TypeOK, Goto
<1>4. answer'[c] > 0 => answer'[c] = request'[c]
  BY <1>3 DEF PipeInv, EveryAnswerIsOwn
<1>5. lock' # Nobody
  BY <1>1
<1>6. QED
  BY <1>1, <1>2, <1>3, <1>4, <1>5, OnlyHolderMatters

(* A request that is transmitted on quiet pipes is what they carry. *)
LEMMA TransmitKeepsPipe ==
  ASSUME Safe, PipeInv, NEW c \in Callers, Transmit(c),
         Lives => inbox = <<>>, out' = <<>>,
         lock = c \/ lock = Nobody, lock' = c, main = "ready", main' = main,
         UNCHANGED <<proc, alive, seenDead>>
  PROVE  PipeInv'
<1>1. OthersRest(c)
  BY DEF Safe, TypeOK, LockInv, OthersRest, Transmit
<1> PICK id : id = reqId + 1
  OBVIOUS
<1>2. request'[c] = id /\ answer'[c] = NoAnswer
  BY DEF Safe, TypeOK, Transmit
<1>3. Carries(id)'
  BY WriteCarries DEF Transmit
<1>4. Carries(request[c])'
  BY <1>2, <1>3 DEF Carries
<1>5. pc'[c] \in {"read", "retry"} /\ (pc'[c] = "retry" => ~Lives')
  BY DEF Safe, TypeOK, Transmit, Lives
<1>6. answer'[c] > 0 => answer'[c] = request'[c]
  BY <1>2 DEF NoAnswer
<1>7. QED
  BY <1>1, <1>4, <1>5, <1>6, OnlyHolderMatters DEF PipeInv, Quiet

(* The steps of a call. *)
LEMMA CallsKeepPipe ==
  ASSUME Safe, PipeInv, ~slow, NEW c \in Callers,
         Call(c) \/ CallReconnects(c) \/ CallerStep(c)
  PROVE  PipeInv'
<1>0. TypeOK /\ LockInv /\ c # Nobody
  BY DEF Safe
<1> USE <1>0 DEF calls, pipe, server
<1>1. pc[c] \in Working => main = "ready" /\ lock = c
  BY DEF LockInv
<1>2. CASE Call(c)
  BY <1>2, TransmitKeepsPipe DEF Call, Enters, MayEnter, PipeInv, Quiet
<1>3. CASE CallReconnects(c)
  <2>1. OthersRest(c) /\ lock' = c /\ pc'[c] = "handshake"
    BY <1>3 DEF CallReconnects, Enters, MayEnter, LockInv, OthersRest, TypeOK
  <2>2. answer'[c] > 0 => answer'[c] = request'[c]
    BY <1>3 DEF CallReconnects, PipeInv, EveryAnswerIsOwn
  <2>3. main' = "ready" /\ lock' # Nobody
    BY <1>3, <2>1 DEF CallReconnects, Enters
  <2>4. Carries(Handshake)' /\ ~seenDead'
    BY <1>3, SpawnCarries DEF CallReconnects
  <2>5. QED
    BY <2>1, <2>2, <2>3, <2>4, OnlyHolderMatters
<1>4. CASE CallReconnected(c)
  <2>1. Carries(Handshake) /\ lock = c /\ main = "ready"
    BY <1>1, <1>4 DEF CallReconnected, PipeInv, Working
  <2>2. out' = <<>> /\ (Lives => inbox = <<>>)
    BY <1>4, <2>1, HandshakeEmpties DEF CallReconnected
  <2>3. QED
    BY <1>4, <2>1, <2>2, TransmitKeepsPipe DEF CallReconnected
<1>5. CASE Read(c) \/ ReadRaises(c)
  <2>1. Carries(request[c]) /\ pc[c] \in Working
    BY <1>5 DEF Read, ReadRaises, PipeInv, Working
  <2>2. Head(out) \in {request[c], Refused} /\ Quiet'
    <3> PICK id : id = request[c]
      OBVIOUS
    <3>1. Carries(id)
      BY <2>1
    <3>2. QED
      BY <1>5, <3>1, ReadQuiets DEF Read, ReadRaises
  <2>3. Parsed(Head(out)) \in {Failure, request[c]}
    BY <2>2 DEF Parsed, Refused, Handshake
  <2>4. QED
    BY <1>5, <2>1, <2>2, <2>3, FinishKeepsPipe DEF Read, ReadRaises, Return
<1>6. CASE ReadEof(c)
  <2>1. Quiet' /\ pc[c] \in Working
    BY <1>6 DEF ReadEof, AtEof, Quiet, Lives, Working
  <2>2. QED
    BY <1>6, <2>1, FinishKeepsPipe DEF ReadEof, Return
<1>7. CASE ReadTimesOut(c) \/ RereadTimesOut(c)
  BY <1>7 DEF ReadTimesOut, RereadTimesOut, TimesOut
<1>8. ASSUME Rewrite(c), pc[c] \in Working, Lives => inbox = <<>>, out' = <<>>,
             UNCHANGED <<main, proc, alive, seenDead>>
      PROVE  PipeInv'
  <2> PICK id : id = request[c]
    OBVIOUS
  <2>1. Carries(id)'
    BY <1>8, WriteCarries DEF Rewrite
  <2>2. CASE Goto(c, "reread")
    <3>1. Carries(request[c])'
      BY <2>1, <2>2 DEF Goto
    <3>2. QED
      BY <1>8, <2>2, <3>1, GotoKeepsPipe DEF Working, PipeInv
  <2>3. CASE ~Lives /\ Return(c, Failure)
    BY <1>8, <2>3, FinishKeepsPipe DEF Return, Quiet, Lives
  <2>4. QED
    BY <1>8, <2>2, <2>3 DEF Rewrite
<1>9. CASE Retry(c)
  <2>1. out' = <<>> /\ ~Lives /\ pc[c] \in Working
    BY <1>9 DEF Retry, PipeInv, Working
  <2>2. QED
    BY <1>8, <1>9, <2>1 DEF Retry
<1>10. CASE RetryReconnects(c)
  <2>1. Carries(Handshake)' /\ ~seenDead'
    BY <1>10, SpawnCarries DEF RetryReconnects
  <2>2. QED
    BY <1>10, <2>1, GotoKeepsPipe DEF RetryReconnects, Working
<1>11. CASE RetryReconnected(c)
  <2>1. Carries(Handshake) /\ pc[c] \in Working
    BY <1>11 DEF RetryReconnected, PipeInv, Working
  <2>2. out' = <<>> /\ (Lives => inbox = <<>>)
    BY <1>11, <2>1, HandshakeEmpties DEF RetryReconnected
  <2>3. QED
    BY <1>8, <1>11, <2>1, <2>2 DEF RetryReconnected
<1>12. CASE ReconnectFails(c)
  <2>1. Carries(Handshake) /\ pc[c] \in Working
    BY <1>12 DEF ReconnectFails, PipeInv, Working
  <2>2. Quiet'
    BY <1>12, <2>1, HandshakeFailsQuietly DEF ReconnectFails
  <2>3. QED
    BY <1>12, <2>1, <2>2, FinishKeepsPipe DEF ReconnectFails, Return
<1>13. QED
  BY <1>2, <1>3, <1>4, <1>5, <1>6, <1>7, <1>9, <1>10, <1>11, <1>12
     DEF CallerStep

(* The steps of the subprocess. *)
LEMMA ServerKeepsPipe ==
  ASSUME Safe, PipeInv, ~chatty,
         Serve \/ Refuse \/ Notify \/ Die \/ Notice \/ UNCHANGED vars
  PROVE  PipeInv'
<1>0. TypeOK /\ LockInv
  BY DEF Safe
<1> USE <1>0 DEF calls, pipe, server
<1>1. CASE Serve \/ Refuse
  <2>1. ASSUME NEW id, Carries(id)  PROVE Carries(id)'
    BY <1>1, <2>1, SingleLine DEF Serve, Refuse, Carries, Lives
  <2>2. ~Quiet
    BY <1>1 DEF Serve, Refuse, Quiet
  <2>3. UNCHANGED <<main, pc, lock, request, answer, proc, alive, seenDead>>
    BY <1>1 DEF Serve, Refuse
  <2>4. \A c \in Callers : Carries(request[c]) => Carries(request[c])'
    <3> TAKE c \in Callers
    <3> PICK id : id = request[c]
      OBVIOUS
    <3>1. Carries(id) => Carries(id)'
      BY <2>1
    <3>2. QED
      BY <2>3, <3>1
  <2>5. Carries(Handshake) => Carries(Handshake)'
    BY <2>1
  <2>6. \A c \in Callers : pc[c] # "retry"
    BY <1>1 DEF Serve, Refuse, PipeInv
  <2>7. QED
    BY <2>2, <2>3, <2>4, <2>5, <2>6 DEF PipeInv, EveryAnswerIsOwn
<1>2. CASE Notify
  BY <1>2 DEF Notify
<1>3. CASE Die
  BY <1>3 DEF Die, PipeInv, Carries, Quiet, Lives, EveryAnswerIsOwn
<1>4. CASE Notice
  BY <1>4 DEF Notice, PipeInv, Carries, Quiet, Lives, EveryAnswerIsOwn
<1>5. CASE UNCHANGED vars
  BY <1>5 DEF vars, PipeInv, Carries, Quiet, Lives, EveryAnswerIsOwn
<1>6. QED
  BY <1>1, <1>2, <1>3, <1>4, <1>5

(* A server stays what it is. *)
LEMMA ServerStays ==
  ASSUME [Next]_vars
  PROVE  UNCHANGED <<slow, chatty>>
<1>1. CASE MainStep
  BY <1>1 DEF MainStep, MainSpawns, MainConnects, MainFails, MainStops,
              SessionTimesOut, server
<1>2. ASSUME NEW c \in Callers, Call(c) \/ CallReconnects(c) \/ CallerStep(c)
      PROVE  UNCHANGED <<slow, chatty>>
  BY <1>2 DEF CallerStep, Call, CallReconnects, CallReconnected, Read, ReadRaises, ReadEof,
              ReadTimesOut, RereadTimesOut, Retry, RetryReconnects,
              RetryReconnected, ReconnectFails, server
<1>3. CASE Serve \/ Refuse \/ Notify \/ Die \/ Notice \/ UNCHANGED vars
  BY <1>3 DEF Serve, Refuse, Notify, Die, Notice, server, vars
<1>4. QED
  BY <1>1, <1>2, <1>3 DEF Next, Over

(* PipeInv for the servers that it is about. *)
ExactPipeInv == ~slow /\ ~chatty => PipeInv

(* ExactPipeInv is an invariant. *)
LEMMA AlwaysExactPipe == Spec => []ExactPipeInv
<1>1. Init => ExactPipeInv
  BY DEF Init, ExactPipeInv, PipeInv, EveryAnswerIsOwn, NoAnswer
<1>2. Safe /\ ExactPipeInv /\ [Next]_vars => ExactPipeInv'
  <2> SUFFICES ASSUME Safe, ExactPipeInv, [Next]_vars, ~slow', ~chatty'
               PROVE  PipeInv'
    BY DEF ExactPipeInv
  <2>1. ~slow /\ ~chatty
    BY ServerStays
  <2>2. PipeInv
    BY <2>1 DEF ExactPipeInv
  <2>3. QED
    BY <2>1, <2>2, MainKeepsPipe, CallsKeepPipe, ServerKeepsPipe
       DEF Next, Over
<1>3. QED
  BY <1>1, <1>2, AlwaysSafe, PTL DEF Spec

(* If the server is in time and writes no notifications, a call returns its own
   answer or none, through any number of deaths, refusals and reconnections. *)
THEOREM CallsGetTheirAnswers == Spec => []AnswersOwnCall
<1>1. ExactPipeInv => AnswersOwnCall
  BY DEF ExactPipeInv, PipeInv, EveryAnswerIsOwn, AnswersOwnCall
<1>2. QED
  BY <1>1, AlwaysExactPipe, PTL

-----------------------------------------------------------------------------
(* A subprocess of any kind answers in order *)

(* The ids in the pipe from the subprocess are in order and come before those in
   the pipe to it; none is older than what was returned or newer than the last
   request.  Handshakes and notifications, which are not positive, may be
   anywhere. *)
InOrder(o, i, low, high) ==
    /\ \A a, b \in DOMAIN o : a < b /\ o[a] > 0 /\ o[b] > 0 => o[a] <= o[b]
    /\ \A a, b \in DOMAIN i : a < b /\ i[a] > 0 /\ i[b] > 0 => i[a] <= i[b]
    /\ \A a \in DOMAIN o, b \in DOMAIN i : o[a] > 0 /\ i[b] > 0 => o[a] <= i[b]
    /\ \A a \in DOMAIN o : o[a] > 0 => low <= o[a] /\ o[a] <= high
    /\ \A a \in DOMAIN i : i[a] > 0 => low <= i[a] /\ i[a] <= high

OrderInv ==
    /\ latest <= reqId
    /\ InOrder(out, inbox, latest, reqId)
    /\ \A c \in Callers :
          pc[c] \in {"read", "retry", "rehandshake", "reread"} => request[c] = reqId

(* What is left after the first line was read is in order, and not older than
   that line. *)
LEMMA ReadKeepsOrder ==
  ASSUME NEW o \in Seq(Int), NEW i \in Seq(Int), NEW low \in Int, NEW high \in Int,
         InOrder(o, i, low, high), o # <<>>
  PROVE  /\ InOrder(Tail(o), i, low, high)
         /\ Head(o) > 0 => /\ low <= Head(o) /\ Head(o) <= high
                           /\ InOrder(Tail(o), i, Head(o), high)
<1>1. /\ \A a \in DOMAIN Tail(o) : /\ a \in Nat /\ a + 1 \in DOMAIN o /\ 1 < a + 1
                                   /\ Tail(o)[a] = o[a + 1]
      /\ 1 \in DOMAIN o /\ Head(o) = o[1]
  OBVIOUS
<1>2. \A a \in DOMAIN o : o[a] \in Int
  OBVIOUS
<1>3. \A a \in DOMAIN i : i[a] \in Int
  OBVIOUS
<1>4. QED
  BY <1>1, <1>2, <1>3 DEF InOrder

(* A request that is not older than any before it goes to the end. *)
LEMMA WriteKeepsOrder ==
  ASSUME NEW o \in Seq(Int), NEW i \in Seq(Int), NEW low \in Int, NEW high \in Int,
         NEW id \in Int, InOrder(o, i, low, high), low <= high, high <= id
  PROVE  InOrder(o, Append(i, id), low, id) /\ InOrder(o, i, low, id)
<1>1. \A a \in DOMAIN Append(i, id) :
          /\ a \in Nat
          /\ \/ a \in DOMAIN i /\ Append(i, id)[a] = i[a]
             \/ a = Len(i) + 1 /\ Append(i, id)[a] = id
  OBVIOUS
<1>2. \A a \in DOMAIN o : o[a] \in Int
  OBVIOUS
<1>3. \A a \in DOMAIN i : i[a] \in Int /\ a <= Len(i)
  OBVIOUS
<1>4. Len(i) \in Nat
  OBVIOUS
<1>5. \A a, b \in DOMAIN Append(i, id) :
          a < b => a \in DOMAIN i /\ Append(i, id)[a] = i[a]
  BY <1>1, <1>3, <1>4
<1>6. /\ \A a \in DOMAIN i : i[a] > 0 => low <= i[a] /\ i[a] <= id
      /\ \A a \in DOMAIN o : o[a] > 0 => low <= o[a] /\ o[a] <= id
  BY <1>2, <1>3 DEF InOrder
<1>7. \A a \in DOMAIN Append(i, id) :
          Append(i, id)[a] > 0 => low <= Append(i, id)[a] /\ Append(i, id)[a] <= id
  BY <1>1, <1>6
<1>8. \A a, b \in DOMAIN Append(i, id) :
          a < b /\ Append(i, id)[a] > 0 /\ Append(i, id)[b] > 0
            => Append(i, id)[a] <= Append(i, id)[b]
  <2>1. \A a, b \in DOMAIN i : a < b /\ i[a] > 0 /\ i[b] > 0 => i[a] <= i[b]
    BY DEF InOrder
  <2>2. \A a \in DOMAIN i : i[a] > 0 => i[a] <= id
    BY <1>6
  <2>3. QED BY <1>1, <1>5, <2>1, <2>2
<1>9. \A a \in DOMAIN o, b \in DOMAIN Append(i, id) :
          o[a] > 0 /\ Append(i, id)[b] > 0 => o[a] <= Append(i, id)[b]
  BY <1>1, <1>6 DEF InOrder
<1>10. QED
  BY <1>6, <1>7, <1>8, <1>9 DEF InOrder

(* What a line at the end of a stream adds to it. *)
LEMMA AppendedAt ==
  ASSUME NEW s \in Seq(Int), NEW e \in Int
  PROVE  \A a \in DOMAIN Append(s, e) :
             /\ a \in Nat
             /\ \/ a \in DOMAIN s /\ Append(s, e)[a] = s[a]
                \/ a = Len(s) + 1 /\ Append(s, e)[a] = e
OBVIOUS

(* The subprocess takes the first request and answers behind its last answer. *)
LEMMA ServeKeepsOrder ==
  ASSUME NEW o \in Seq(Int), NEW i \in Seq(Int), NEW low \in Int, NEW high \in Int,
         InOrder(o, i, low, high), i # <<>>
  PROVE  InOrder(Append(o, Head(i)), Tail(i), low, high)
<1>1. /\ \A a \in DOMAIN Tail(i) : /\ a \in Nat /\ a + 1 \in DOMAIN i /\ 1 < a + 1
                                   /\ Tail(i)[a] = i[a + 1]
      /\ 1 \in DOMAIN i /\ Head(i) = i[1]
  OBVIOUS
<1>2. \A a \in DOMAIN Append(o, Head(i)) :
          /\ a \in Nat
          /\ \/ a \in DOMAIN o /\ Append(o, Head(i))[a] = o[a]
             \/ a = Len(o) + 1 /\ Append(o, Head(i))[a] = i[1]
  <2>1. Head(i) \in Int
    OBVIOUS
  <2>2. Head(i) = i[1]
    BY <1>1
  <2>3. QED BY ONLY o \in Seq(Int), <2>1, <2>2, AppendedAt
<1>3. \A a \in DOMAIN o : o[a] \in Int /\ a <= Len(o)
  OBVIOUS
<1>4. \A a \in DOMAIN i : i[a] \in Int
  OBVIOUS
<1>5. Len(o) \in Nat
  OBVIOUS
<1>6. \A a, b \in DOMAIN Append(o, Head(i)) :
          a < b /\ Append(o, Head(i))[a] > 0 /\ Append(o, Head(i))[b] > 0
            => Append(o, Head(i))[a] <= Append(o, Head(i))[b]
  <2>1. \A a \in DOMAIN o : o[a] > 0 /\ i[1] > 0 => o[a] <= i[1]
    BY <1>1 DEF InOrder
  <2>2. \A a, b \in DOMAIN o : a < b /\ o[a] > 0 /\ o[b] > 0 => o[a] <= o[b]
    BY DEF InOrder
  <2>3. \A a \in DOMAIN Append(o, Head(i)), b \in DOMAIN Append(o, Head(i)) :
            a < b => a \in DOMAIN o /\ Append(o, Head(i))[a] = o[a]
    BY <1>2, <1>3, <1>5
  <2>4. QED BY <1>2, <2>1, <2>2, <2>3
<1>7. \A a, b \in DOMAIN Tail(i) :
          a < b /\ Tail(i)[a] > 0 /\ Tail(i)[b] > 0 => Tail(i)[a] <= Tail(i)[b]
  BY <1>1 DEF InOrder
<1>8. \A a \in DOMAIN Append(o, Head(i)), b \in DOMAIN Tail(i) :
          Append(o, Head(i))[a] > 0 /\ Tail(i)[b] > 0
            => Append(o, Head(i))[a] <= Tail(i)[b]
  BY <1>1, <1>2 DEF InOrder
<1>9. \A a \in DOMAIN Append(o, Head(i)) :
          Append(o, Head(i))[a] > 0
            => low <= Append(o, Head(i))[a] /\ Append(o, Head(i))[a] <= high
  BY <1>1, <1>2 DEF InOrder
<1>10. \A a \in DOMAIN Tail(i) : Tail(i)[a] > 0 => low <= Tail(i)[a] /\ Tail(i)[a] <= high
  BY <1>1 DEF InOrder
<1>11. QED
  BY <1>6, <1>7, <1>8, <1>9, <1>10 DEF InOrder

(* A line that answers nothing may be written at any time. *)
LEMMA NotifyKeepsOrder ==
  ASSUME NEW o \in Seq(Int), NEW i \in Seq(Int), NEW low \in Int, NEW high \in Int,
         InOrder(o, i, low, high), NEW line \in {Notification, Refused}
  PROVE  InOrder(Append(o, line), i, low, high)
<1>1. \A a \in DOMAIN Append(o, line) :
          \/ a \in DOMAIN o /\ Append(o, line)[a] = o[a]
          \/ Append(o, line)[a] = line
  OBVIOUS
<1>2. ~(line > 0)
  BY DEF Notification, Refused
<1>3. QED
  BY <1>1, <1>2 DEF InOrder

(* A request that is refused is no longer in the pipe. *)
LEMMA RefuseKeepsOrder ==
  ASSUME NEW o \in Seq(Int), NEW i \in Seq(Int), NEW low \in Int, NEW high \in Int,
         InOrder(o, i, low, high), i # <<>>
  PROVE  InOrder(Append(o, Refused), Tail(i), low, high)
<1>1. \A a \in DOMAIN Tail(i) : /\ a \in Nat /\ a + 1 \in DOMAIN i
                                 /\ Tail(i)[a] = i[a + 1]
  OBVIOUS
<1>2. InOrder(o, Tail(i), low, high)
  BY <1>1 DEF InOrder
<1>3. Tail(i) \in Seq(Int)
  OBVIOUS
<1>4. QED
  BY <1>2, <1>3, NotifyKeepsOrder

(* The pipes of a new subprocess hold no answer. *)
LEMMA SpawnKeepsOrder ==
  ASSUME NEW low \in Int, NEW high \in Int
  PROVE  InOrder(<<>>, <<Handshake>>, low, high)
BY DEF InOrder, Handshake

(* Numbers, as the types have them. *)
LEMMA PipeNumbers ==
  ASSUME TypeOK
  PROVE  /\ out \in Seq(Int) /\ inbox \in Seq(Int)
         /\ latest \in Int /\ reqId \in Int
         /\ \A c \in Callers : request[c] \in Int
<1>1. Refused..MaxCalls \subseteq Int /\ 0..MaxCalls \subseteq Int
  BY DEF Refused
<1>2. out \in Seq(Refused..MaxCalls) /\ inbox \in Seq(0..MaxCalls)
  BY DEF TypeOK
<1>3. ASSUME NEW S \in SUBSET Int, NEW s \in Seq(S)  PROVE s \in Seq(Int)
  <2>1. s \in [1..Len(s) -> S] /\ Len(s) \in Nat
    OBVIOUS
  <2>2. s \in [1..Len(s) -> Int]
    BY <2>1
  <2>3. QED
    BY <2>1, <2>2, SeqDef
<1>4. out \in Seq(Int) /\ inbox \in Seq(Int)
  BY ONLY <1>1, <1>2, <1>3
<1>5. QED
  BY <1>4 DEF TypeOK

(* One step of the answers' order. *)
AnswersStep ==
    \A c \in Callers :
        answer'[c] > 0 /\ answer'[c] # answer[c] =>
            latest <= answer'[c] /\ answer'[c] <= request'[c]

(* A step that leaves the calls alone. *)
LEMMA PipeStepKeepsOrder ==
  ASSUME TypeOK, OrderInv, UNCHANGED <<pc, reqId, request, answer, latest>>,
         InOrder(out', inbox', latest, reqId)
  PROVE  OrderInv' /\ AnswersStep
BY DEF OrderInv, AnswersStep

(* A call that ends without an answer. *)
LEMMA FailureKeepsOrder ==
  ASSUME TypeOK, OrderInv, NEW c \in Callers, NEW label \in {"idle", "raised"},
         NEW value \in {Failure, NoAnswer}, Finish(c, label, value),
         InOrder(out', inbox', latest, reqId)
  PROVE  OrderInv' /\ AnswersStep
<1>1. ~(value > 0) /\ ~(value > latest)
  BY DEF Failure, NoAnswer, TypeOK
<1>2. latest' = latest /\ reqId' = reqId /\ request' = request
  BY <1>1 DEF Finish
<1>3. \A d \in Callers : answer'[d] = answer[d] \/ answer'[d] = value
  BY DEF Finish, TypeOK
<1>4. \A d \in Callers : pc'[d] = pc[d] \/ pc'[d] \in {"idle", "raised"}
  BY DEF Finish, TypeOK
<1>5. QED
  BY <1>1, <1>2, <1>3, <1>4 DEF OrderInv, AnswersStep

(* A caller that goes on with its request. *)
LEMMA GotoKeepsOrder ==
  ASSUME TypeOK, OrderInv, NEW c \in Callers,
         pc[c] \in {"read", "retry", "rehandshake", "reread"},
         NEW label, Goto(c, label), InOrder(out', inbox', latest, reqId)
  PROVE  OrderInv' /\ AnswersStep
<1>1. \A d \in Callers : pc'[d] = pc[d] \/ d = c
  BY DEF Goto, TypeOK
<1>2. QED
  BY <1>1 DEF Goto, OrderInv, AnswersStep

(* The same request again, or no answer. *)
LEMMA RewriteKeepsOrder ==
  ASSUME TypeOK, OrderInv, NEW c \in Callers,
         pc[c] \in {"retry", "rehandshake"}, Rewrite(c),
         out' \in Seq(Int), InOrder(out', inbox, latest, reqId)
  PROVE  OrderInv' /\ AnswersStep
<1>1. request[c] = reqId /\ latest <= reqId
  BY DEF OrderInv
<1>2. InOrder(out', inbox', latest, reqId)
  BY <1>1, WriteKeepsOrder, PipeNumbers DEF Rewrite, Written
<1>3. CASE Goto(c, "reread")
  BY <1>2, <1>3, GotoKeepsOrder
<1>4. CASE Return(c, Failure)
  BY <1>2, <1>4, FailureKeepsOrder DEF Return
<1>5. QED
  BY <1>3, <1>4 DEF Rewrite

(* A new request is newer than all lines in the pipes. *)
LEMMA TransmitKeepsOrder ==
  ASSUME Safe, OrderInv, NEW c \in Callers, Transmit(c), lock \in {c, Nobody},
         out' \in Seq(Int), InOrder(out', inbox, latest, reqId)
  PROVE  OrderInv' /\ AnswersStep
<1>0. TypeOK /\ LockInv
  BY DEF Safe
<1>1. reqId' = reqId + 1 /\ latest' = latest /\ latest <= reqId'
  BY <1>0, PipeNumbers DEF Transmit, OrderInv
<1>2. InOrder(out', inbox', latest, reqId')
  <2>1. inbox \in Seq(Int) /\ latest \in Int /\ reqId \in Int /\ latest <= reqId
    BY <1>0, PipeNumbers DEF OrderInv
  <2> PICK id \in Int : id = reqId + 1 /\ reqId <= id
    BY <2>1
  <2>2. InOrder(out', Append(inbox, id), latest, id) /\ InOrder(out', inbox, latest, id)
    BY <2>1, WriteKeepsOrder
  <2>3. inbox' = Append(inbox, id) \/ inbox' = inbox
    BY DEF Transmit, Written
  <2>4. QED
    BY <1>1, <2>2, <2>3
<1>3. \A d \in Callers : d # c => pc'[d] \notin Working
  BY <1>0, CallersAssumption DEF Transmit, TypeOK, LockInv
<1>4. request'[c] = reqId'
  BY <1>0, <1>1 DEF Transmit, TypeOK
<1>5. \A d \in Callers : answer'[d] = answer[d] \/ ~(answer'[d] > 0)
  BY <1>0 DEF Transmit, TypeOK, NoAnswer
<1>6. QED
  BY <1>1, <1>2, <1>3, <1>4, <1>5 DEF OrderInv, AnswersStep, Working

(* The steps of the command line. *)
LEMMA MainKeepsOrder ==
  ASSUME Safe, OrderInv, MainStep
  PROVE  OrderInv' /\ AnswersStep
<1>0. TypeOK /\ InOrder(out, inbox, latest, reqId)
  BY DEF Safe, OrderInv
<1> USE <1>0, PipeNumbers DEF pipe, calls, server
<1>1. CASE MainSpawns
  BY <1>1, SpawnKeepsOrder, PipeStepKeepsOrder DEF MainSpawns, Spawn
<1>2. CASE MainConnects
  BY <1>2, ReadKeepsOrder, PipeStepKeepsOrder DEF MainConnects, HandshakeDone
<1>3. CASE MainFails
  BY <1>3, ReadKeepsOrder, PipeStepKeepsOrder DEF MainFails, HandshakeFails
<1>4. CASE MainStops
  BY <1>4, PipeStepKeepsOrder DEF MainStops
<1>5. CASE SessionTimesOut
  <2>1. \A d \in Callers : pc'[d] = pc[d] \/ pc'[d] = "cancelled"
    BY <1>5 DEF SessionTimesOut, TypeOK
  <2>2. QED
    BY <1>5, <2>1 DEF SessionTimesOut, OrderInv, AnswersStep
<1>6. QED
  BY <1>1, <1>2, <1>3, <1>4, <1>5 DEF MainStep

(* The steps of a call. *)
LEMMA CallsKeepOrder ==
  ASSUME Safe, OrderInv, NEW c \in Callers,
         Call(c) \/ CallReconnects(c) \/ CallerStep(c)
  PROVE  OrderInv' /\ AnswersStep
<1>0. TypeOK /\ LockInv /\ InOrder(out, inbox, latest, reqId)
  BY DEF Safe, OrderInv
<1> USE <1>0, PipeNumbers DEF pipe, server
<1>1. out # <<>> => Tail(out) \in Seq(Int)
  OBVIOUS
<1>2. CASE Call(c)
  BY <1>2, TransmitKeepsOrder DEF Call, Enters, MayEnter
<1>3. CASE CallReconnects(c)
  <2>1. \A d \in Callers : pc'[d] = pc[d] \/ pc'[d] = "handshake"
    BY <1>3 DEF CallReconnects, TypeOK
  <2>2. QED
    BY <1>3, <2>1, SpawnKeepsOrder
       DEF CallReconnects, Spawn, OrderInv, AnswersStep
<1>4. CASE CallReconnected(c)
  <2>1. lock = c
    BY <1>4 DEF CallReconnected, LockInv, Working
  <2>2. QED
    BY <1>1, <1>4, <2>1, ReadKeepsOrder, TransmitKeepsOrder
       DEF CallReconnected, HandshakeDone
<1>5. CASE Read(c)
  <2>1. CASE Parsed(Head(out)) = Failure
    BY <1>5, <2>1, ReadKeepsOrder, FailureKeepsOrder DEF Read, Return
  <2>2. CASE Parsed(Head(out)) # Failure
    <3> PICK v : v = Head(out)
      OBVIOUS
    <3>1. v \in Refused..MaxCalls
      BY <1>5, LineTypes DEF Read
    <3>2. Parsed(v) = v /\ v > 0
      <4>1. v > Handshake /\ Parsed(v) = v
        BY <2>2 DEF Parsed
      <4>2. QED
        BY <4>1 DEF Handshake
    <3>3. /\ v \in Int /\ v > 0 /\ latest <= v /\ v <= reqId
          /\ InOrder(out', inbox', v, reqId)
      BY <1>5, <3>1, <3>2, ReadKeepsOrder DEF Read, Refused
    <3>4. Finish(c, "idle", v)
      BY <1>5, <3>2 DEF Read, Return
    <3>5. latest' = v /\ reqId' = reqId /\ request' = request
      BY <3>3, <3>4 DEF Finish
    <3>6. request[c] = reqId
      BY <1>5 DEF Read, OrderInv
    <3>7. \A d \in Callers : answer'[d] = answer[d] \/ (d = c /\ answer'[d] = v)
      BY <3>4 DEF Finish, TypeOK
    <3>8. \A d \in Callers : pc'[d] = pc[d] \/ pc'[d] = "idle"
      BY <3>4 DEF Finish, TypeOK
    <3>9. QED
      BY <3>3, <3>5, <3>6, <3>7, <3>8 DEF OrderInv, AnswersStep
  <2>3. QED
    BY <2>1, <2>2
<1>6. CASE ReadRaises(c) \/ ReadEof(c)
  BY <1>6, ReadKeepsOrder, FailureKeepsOrder DEF ReadRaises, ReadEof, Return
<1>7. CASE ReadTimesOut(c)
  BY <1>7, GotoKeepsOrder DEF ReadTimesOut
<1>8. CASE RereadTimesOut(c)
  BY <1>8, FailureKeepsOrder DEF RereadTimesOut, Return
<1>9. CASE Retry(c)
  BY <1>9, RewriteKeepsOrder DEF Retry
<1>10. CASE RetryReconnects(c)
  BY <1>10, SpawnKeepsOrder, GotoKeepsOrder DEF RetryReconnects, Spawn
<1>11. CASE RetryReconnected(c)
  BY <1>1, <1>11, ReadKeepsOrder, RewriteKeepsOrder
     DEF RetryReconnected, HandshakeDone
<1>12. CASE ReconnectFails(c)
  BY <1>12, ReadKeepsOrder, FailureKeepsOrder
     DEF ReconnectFails, HandshakeFails, Return
<1>13. QED
  BY <1>2, <1>3, <1>4, <1>5, <1>6, <1>7, <1>8, <1>9, <1>10, <1>11, <1>12
     DEF CallerStep

(* The steps of the subprocess. *)
LEMMA ServerKeepsOrder ==
  ASSUME Safe, OrderInv, Serve \/ Refuse \/ Notify \/ Die \/ Notice \/ UNCHANGED vars
  PROVE  OrderInv' /\ AnswersStep
<1>0. TypeOK /\ InOrder(out, inbox, latest, reqId)
  BY DEF Safe, OrderInv
<1> USE <1>0, PipeNumbers DEF calls, server
<1>1. CASE Serve
  BY <1>1, ServeKeepsOrder, PipeStepKeepsOrder DEF Serve
<1>2. CASE Refuse \/ Notify
  BY <1>2, RefuseKeepsOrder, NotifyKeepsOrder, PipeStepKeepsOrder DEF Refuse, Notify
<1>3. CASE Die \/ Notice \/ UNCHANGED vars
  <2>1. UNCHANGED <<calls, out, inbox>>
    BY <1>3 DEF Die, Notice, vars
  <2>2. QED
    BY <2>1, PipeStepKeepsOrder
<1>4. QED
  BY <1>1, <1>2, <1>3

(* OrderInv is an invariant. *)
LEMMA AlwaysOrder == Spec => []OrderInv
<1>1. Init => OrderInv
  BY DEF Init, OrderInv, InOrder
<1>2. Safe /\ OrderInv /\ [Next]_vars => OrderInv'
  BY MainKeepsOrder, CallsKeepOrder, ServerKeepsOrder DEF Next, Over
<1>3. QED
  BY <1>1, <1>2, AlwaysSafe, PTL DEF Spec

(* Whatever the subprocess is, late answers and retries shift answers to later
   calls, never to earlier ones, and never reorder them. *)
THEOREM AnswersAreOrdered == Spec => AnswersComeInOrder
<1>1. Safe /\ OrderInv /\ [Next]_vars => [AnswersStep]_vars
  BY MainKeepsOrder, CallsKeepOrder, ServerKeepsOrder DEF Next, Over
<1>2. Spec => [][AnswersStep]_vars
  BY <1>1, AlwaysOrder, AlwaysSafe, PTL DEF Spec
<1>3. QED
  BY <1>2, PTL DEF AnswersComeInOrder, AnswersStep

-----------------------------------------------------------------------------
(* The contract of a call *)

Sent == {"read", "retry", "rehandshake", "reread"}

(* A call that is under way has a number and no answer yet. *)
AskedInv ==
    \A c \in Callers : pc[c] \in Sent => answer[c] = NoAnswer /\ request[c] > 0

(* As long as no subprocess has died the current one runs, until the command
   line stops it. *)
AliveInv ==
    deaths = 0 /\ main \in {"starting", "validate", "validating", "ready"} =>
        Lives /\ ~seenDead

Steady == ~slow /\ ~chatty /\ deaths = 0

(* A steady server's call is at its first read, and what is in the pipe from the
   server shows whether it has refused the request. *)
RefusalInv ==
    Steady => \A c \in Callers : pc[c] \in Working =>
        /\ pc[c] = "read"
        /\ refused <=> out = <<Refused>>

CallInv ==
    Safe /\ ExactPipeInv /\ OrderInv /\ AskedInv /\ AliveInv /\ RefusalInv

(* A call that ends or goes on without a new number. *)
LEMMA QuietStepKeepsAsked ==
  ASSUME Safe, AskedInv, NEW c \in Callers,
         \/ \E label \in {"idle", "raised"}, value \in Int : Finish(c, label, value)
         \/ pc[c] \in Sent /\ \E label \in Sent : Goto(c, label)
         \/ Goto(c, "handshake")
  PROVE  AskedInv'
<1>1. \A d \in Callers : pc'[d] \in Sent => pc[d] \in Sent /\ answer'[d] = answer[d]
  BY DEF Safe, TypeOK, Finish, Goto, Sent
<1>2. request' = request
  BY DEF Finish, Goto
<1>3. QED
  BY <1>1, <1>2 DEF AskedInv

(* A new number. *)
LEMMA TransmitKeepsAsked ==
  ASSUME Safe, AskedInv, NEW c \in Callers, Transmit(c)
  PROVE  AskedInv'
<1>1. \A d \in Callers \ {c} : /\ pc'[d] = pc[d] /\ answer'[d] = answer[d]
                               /\ request'[d] = request[d]
  BY DEF Safe, TypeOK, Transmit
<1>2. request'[c] = reqId + 1 /\ answer'[c] = NoAnswer
  BY DEF Safe, TypeOK, Transmit
<1>3. reqId + 1 > 0
  BY DEF Safe, TypeOK
<1>4. QED
  BY <1>1, <1>2, <1>3 DEF AskedInv

(* Every step keeps AskedInv. *)
LEMMA NextKeepsAsked ==
  ASSUME Safe, AskedInv, [Next]_vars
  PROVE  AskedInv'
<1> USE DEF calls, pipe, server
<1>1. CASE UNCHANGED <<pc, request, answer>>
  BY <1>1 DEF AskedInv
<1>2. CASE MainStep
  <2>1. CASE SessionTimesOut
    <3>1. \A d \in Callers : pc'[d] \in Sent => pc[d] \in Sent
      BY <2>1 DEF SessionTimesOut, Safe, TypeOK, Sent
    <3>2. QED
      BY <2>1, <3>1 DEF SessionTimesOut, AskedInv
  <2>2. QED
    BY <1>1, <1>2, <2>1 DEF MainStep, MainSpawns, MainConnects, MainFails, MainStops
<1>3. ASSUME NEW c \in Callers, Call(c) \/ CallReconnects(c) \/ CallReconnected(c)
      PROVE  AskedInv'
  BY <1>3, TransmitKeepsAsked DEF Call, CallReconnects, CallReconnected,
     AskedInv, Safe, TypeOK, Sent
<1>4. ASSUME NEW c \in Callers,
             Read(c) \/ ReadRaises(c) \/ ReadEof(c) \/ RereadTimesOut(c) \/ ReconnectFails(c)
      PROVE  AskedInv'
  <2>1. Failure \in Int /\ NoAnswer \in Int
    BY DEF Failure, NoAnswer
  <2>2. out # <<>> => Parsed(Head(out)) \in Int
    BY <2>1, LineTypes DEF Parsed, Safe, Refused
  <2>3. QED
    BY <1>4, <2>1, <2>2, QuietStepKeepsAsked
       DEF Read, ReadRaises, ReadEof, RereadTimesOut, ReconnectFails, Return
<1>5. ASSUME NEW c \in Callers,
             \/ ReadTimesOut(c) \/ Retry(c) \/ RetryReconnects(c)
             \/ RetryReconnected(c)
      PROVE  AskedInv'
  BY <1>5, QuietStepKeepsAsked DEF ReadTimesOut, Retry, RetryReconnects,
     RetryReconnected, Rewrite, Return, Sent, Failure
<1>6. CASE Serve \/ Refuse \/ Notify \/ Die \/ Notice \/ UNCHANGED vars
  BY <1>1, <1>6 DEF Serve, Refuse, Notify, Die, Notice, vars
<1>7. QED
  BY <1>2, <1>3, <1>4, <1>5, <1>6 DEF Next, CallerStep, Over

(* Every step keeps AliveInv. *)
LEMMA NextKeepsAlive ==
  ASSUME Safe, AliveInv, [Next]_vars
  PROVE  AliveInv'
<1> USE DEF calls, pipe, server, AliveInv, Lives
<1>1. CASE MainStep
  BY <1>1 DEF MainStep, MainSpawns, MainConnects, MainFails, MainStops,
     SessionTimesOut, Spawn, Starting
<1>2. ASSUME NEW c \in Callers, Call(c) \/ CallReconnects(c) \/ CallerStep(c)
      PROVE  AliveInv'
  BY <1>2 DEF CallerStep, Call, CallReconnects, CallReconnected, Read, ReadRaises, ReadEof,
     ReadTimesOut, RereadTimesOut, Retry, RetryReconnects, RetryReconnected,
     ReconnectFails, Spawn
<1>3. CASE Serve \/ Refuse \/ Notify \/ Die \/ Notice \/ UNCHANGED vars
  BY <1>3 DEF Serve, Refuse, Notify, Die, Notice, vars, Safe, TypeOK
<1>4. QED
  BY <1>1, <1>2, <1>3 DEF Next, Over

(* The number of deaths only grows. *)
LEMMA SteadyWasSteady ==
  ASSUME Safe, [Next]_vars, Steady'
  PROVE  Steady
<1>1. UNCHANGED <<slow, chatty>>
  BY ServerStays
<1>2. deaths \in Nat /\ deaths' \in {deaths, deaths + 1}
  <2>1. deaths \in Nat
    BY DEF Safe, TypeOK
  <2>2. CASE Die
    BY <2>1, <2>2 DEF Die
  <2>3. CASE MainStep \/ Serve \/ Refuse \/ Notify \/ Notice \/ UNCHANGED vars
    BY <2>1, <2>3 DEF MainStep, MainSpawns, MainConnects, MainFails, MainStops,
       SessionTimesOut, Serve, Refuse, Notify, Notice, server, vars
  <2>4. ASSUME NEW c \in Callers, Call(c) \/ CallReconnects(c) \/ CallerStep(c)
        PROVE  deaths' = deaths
    BY <2>4 DEF CallerStep, Call, CallReconnects, CallReconnected, Read,
       ReadRaises, ReadEof, ReadTimesOut, RereadTimesOut, Retry,
       RetryReconnects, RetryReconnected, ReconnectFails, server
  <2>5. QED
    BY <2>1, <2>2, <2>3, <2>4 DEF Next, Over
<1>3. QED
  BY <1>1, <1>2 DEF Steady

(* Every step keeps RefusalInv. *)
LEMMA NextKeepsRefusal ==
  ASSUME CallInv, [Next]_vars
  PROVE  RefusalInv'
<1> SUFFICES ASSUME Steady'  PROVE RefusalInv'
  BY DEF RefusalInv
<1>0. Safe /\ TypeOK /\ LockInv /\ Steady /\ PipeInv /\ OrderInv
  BY SteadyWasSteady DEF CallInv, Safe, ExactPipeInv, Steady
<1>1. \A c \in Callers : pc[c] \in Working =>
        /\ pc[c] = "read" /\ lock = c /\ main = "ready" /\ Lives /\ ~seenDead
        /\ refused <=> out = <<Refused>>
        /\ Carries(request[c]) /\ request[c] = reqId
  BY <1>0 DEF CallInv, RefusalInv, LockInv, AliveInv, Steady, PipeInv, OrderInv
<1> USE <1>0 DEF calls, pipe, server
<1>2. ASSUME \A c \in Callers : pc'[c] \notin Working  PROVE RefusalInv'
  BY <1>2 DEF RefusalInv
<1>3. ASSUME UNCHANGED <<pc, out, refused>>  PROVE RefusalInv'
  BY <1>3 DEF CallInv, RefusalInv
<1>4. CASE MainStep
  <2>1. \A c \in Callers : pc'[c] \notin Working
    BY <1>4 DEF MainStep, MainSpawns, MainConnects, MainFails, MainStops,
       SessionTimesOut, Starting, LockInv, TypeOK, Working
  <2>2. QED BY <1>2, <2>1
<1>5. ASSUME NEW c \in Callers, Call(c)  PROVE RefusalInv'
  <2>1. lock = Nobody /\ main = "ready" /\ out' = <<>> /\ refused' = FALSE
    BY <1>5 DEF Call, Enters, MayEnter, Transmit, PipeInv, Quiet
  <2>2. \A d \in Callers : pc[d] \notin Working
    BY <2>1 DEF LockInv
  <2>3. Lives
    BY <2>1 DEF CallInv, AliveInv, Steady
  <2>4. \A d \in Callers : pc'[d] = "read" \/ pc'[d] = pc[d]
    BY <1>5, <2>3 DEF Call, Transmit, TypeOK
  <2>5. QED BY <2>1, <2>2, <2>4, SingleLine DEF RefusalInv
<1>6. ASSUME NEW c \in Callers, CallReconnects(c)  PROVE FALSE
  BY <1>6 DEF CallReconnects, Enters, CallInv, AliveInv, Steady
<1>7. ASSUME NEW c \in Callers, pc[c] \in Working,
             NEW label \in {"idle", "raised"}, NEW value, Finish(c, label, value)
      PROVE  RefusalInv'
  <2>1. \A d \in Callers : pc'[d] \notin Working
    BY <1>1, <1>7 DEF Finish, TypeOK, Working
  <2>2. QED BY <1>2, <2>1
<1>8. ASSUME NEW c \in Callers, CallerStep(c)  PROVE RefusalInv'
  <2>1. pc[c] = "read"
    BY <1>1, <1>8 DEF CallerStep, CallReconnected, Read, ReadRaises, ReadEof,
       ReadTimesOut, RereadTimesOut, Retry, RetryReconnects, RetryReconnected,
       ReconnectFails, Working
  <2>2. Read(c) \/ ReadRaises(c) \/ ReadEof(c) \/ ReadTimesOut(c)
    BY <1>8, <2>1 DEF CallerStep, CallReconnected, RereadTimesOut, Retry,
       RetryReconnects, RetryReconnected, ReconnectFails
  <2>3. ~ReadTimesOut(c)
    BY DEF ReadTimesOut, TimesOut, Steady
  <2>4. QED
    BY <1>7, <2>1, <2>2, <2>3 DEF Read, ReadRaises, ReadEof, Return, Working
<1>9. CASE Serve \/ Refuse
  <2>1. \A c \in Callers : pc'[c] = pc[c]
    BY <1>9 DEF Serve, Refuse
  <2>2. ASSUME NEW c \in Callers, pc[c] \in Working
        PROVE  refused' <=> out' = <<Refused>>
    <3> PICK id : id = request[c]
      OBVIOUS
    <3>1. id \in 0..MaxCalls /\ id # Refused
      BY DEF TypeOK, Refused
    <3>2. out = <<>> /\ inbox = <<id>> /\ Head(inbox) = id /\ id = reqId
      BY <1>1, <1>9, <2>2, SingleLine DEF Serve, Refuse, Carries
    <3>3. ~refused
      BY <1>1, <2>2, <3>2, SingleLine
    <3>4. CASE Serve
      <4>1. out' = <<id>> /\ refused' = refused
        BY <3>2, <3>4, SingleLine DEF Serve
      <4>2. <<id>> # <<Refused>>
        BY <3>1
      <4>3. QED BY <3>3, <4>1, <4>2
    <3>5. CASE Refuse
      BY <3>2, <3>5, SingleLine DEF Refuse
    <3>6. QED BY <1>9, <3>4, <3>5
  <2>3. QED BY <1>1, <2>1, <2>2 DEF RefusalInv
<1>10. ~Notify
  BY DEF Notify, Steady
<1>11. ~Die
  BY DEF Die, Steady
<1>12. CASE Notice \/ UNCHANGED vars
  BY <1>3, <1>12 DEF Notice, vars
<1>13. QED
  BY <1>4, <1>5, <1>6, <1>8, <1>9, <1>10, <1>11, <1>12 DEF Next, Over

(* The caller whose request is under way. *)
LEMMA UnderWayIs ==
  ASSUME Safe
  PROVE  /\ UnderWay \in Callers \cup {Nobody}
         /\ \A c \in Callers : UnderWay = c <=> pc[c] \in Sent
BY DEF Safe, TypeOK, LockInv, UnderWay, Sent, Working, Labels

(* The same in the next state. *)
LEMMA NextUnderWayIs ==
  ASSUME Safe'
  PROVE  /\ UnderWay' \in Callers \cup {Nobody}
         /\ \A c \in Callers : UnderWay' = c <=> pc'[c] \in Sent
BY DEF Safe, TypeOK, LockInv, UnderWay, Sent, Working, Labels

(* A step of c that leaves all others alone decides what is under way. *)
LEMMA StepOfHolder ==
  ASSUME Safe, Safe', NEW c \in Callers, lock \in {c, Nobody}, lock' \in {c, Nobody}
  PROVE  /\ UnderWay \in {c, Nobody} /\ UnderWay' \in {c, Nobody}
         /\ UnderWay = c <=> pc[c] \in Sent
         /\ UnderWay' = c <=> pc'[c] \in Sent
BY UnderWayIs, NextUnderWayIs DEF UnderWay

(* A call that goes on, or that was not numbered yet, shows nothing. *)
LEMMA HiddenStep ==
  ASSUME Safe, Safe', NEW c \in Callers, lock \in {c, Nobody}, lock' \in {c, Nobody},
         pc[c] \in Sent <=> pc'[c] \in Sent,
         UNCHANGED <<reqId, request, answer, latest, refused, server>>
  PROVE  UNCHANGED Contract!vars
BY StepOfHolder DEF Contract!vars, server

(* A new number is a request of the contract. *)
LEMMA TransmitAsks ==
  ASSUME Safe, Safe', NEW c \in Callers, lock \in {c, Nobody}, lock' = c,
         pc[c] \notin Sent, Transmit(c), UNCHANGED server
  PROVE  Contract!Ask(c)
<1>1. pc'[c] \in Sent
  BY DEF Safe, TypeOK, Transmit, Sent
<1>2. UnderWay = Nobody /\ UnderWay' = c
  BY <1>1, StepOfHolder
<1>3. QED
  BY <1>2 DEF Contract!Ask, Transmit, server, Contract!NoAnswer, NoAnswer

(* A call that returns a failure, for which the server gives cause. *)
LEMMA FinishFails ==
  ASSUME Safe, Safe', NEW c \in Callers, pc[c] \in Working,
         Return(c, Failure), UNCHANGED server,
         Steady => pc[c] \in Sent /\ refused
  PROVE  Contract!Fail(c)
<1>1. lock = c /\ lock' = Nobody
  BY DEF Safe, LockInv, Return, Finish
<1>2. pc'[c] \notin Sent
  BY DEF Safe, TypeOK, Return, Finish, Sent
<1>3. /\ UnderWay \in {c, Nobody} /\ UnderWay' = Nobody
      /\ Steady => UnderWay = c
  BY <1>1, <1>2, StepOfHolder
<1>4. latest' = latest
  BY DEF Safe, TypeOK, Return, Finish, Failure
<1>5. QED
  BY <1>3, <1>4 DEF Contract!Fail, Return, Finish, server, Steady,
     Contract!Failure, Failure

(* While no subprocess has died a call finds one that lives. *)
LEMMA SteadyLives ==
  ASSUME CallInv, Steady, NEW c \in Callers, pc[c] \in Working
  PROVE  Lives /\ ~seenDead /\ PipeInv
BY DEF CallInv, Safe, LockInv, AliveInv, Steady, ExactPipeInv

(* The same request again: nothing to see, or a failure. *)
LEMMA RewriteShows ==
  ASSUME CallInv, Safe', NEW c \in Callers, pc[c] \in {"retry", "rehandshake"},
         Rewrite(c), UNCHANGED server
  PROVE  [Contract!Next]_Contract!vars
<1>0. Safe /\ lock = c
  BY DEF CallInv, Safe, LockInv, Working
<1>1. CASE Goto(c, "reread")
  <2>1. pc'[c] = "reread" /\ lock' = c
    BY <1>0, <1>1 DEF Safe, TypeOK, Goto
  <2>2. UNCHANGED Contract!vars
    BY <1>0, <1>1, <2>1, HiddenStep DEF Goto, Sent
  <2>3. QED
    BY <2>2
<1>2. CASE ~Lives /\ Return(c, Failure)
  <2>1. ~Steady
    BY <1>2, SteadyLives DEF Working
  <2>2. Contract!Fail(c)
    BY <1>0, <1>2, <2>1, FinishFails DEF Working
  <2>3. QED
    BY <2>2 DEF Contract!Next
<1>3. QED
  BY <1>1, <1>2 DEF Rewrite

(* The line that a call reads is its answer, or it has no content. *)
LEMMA ReadShows ==
  ASSUME CallInv, Safe', NEW c \in Callers, Read(c)
  PROVE  Contract!Return(c) \/ Contract!Fail(c)
<1>0. Safe /\ TypeOK /\ lock = c /\ pc[c] \in Working /\ pc[c] \in Sent
  BY DEF CallInv, Safe, LockInv, Read, Working, Sent
<1> PICK v : v = Head(out)
  OBVIOUS
<1>1. v \in Refused..MaxCalls
  BY <1>0, LineTypes DEF Read
<1>2. ~slow /\ ~chatty => v \in {request[c], Refused} /\ Carries(request[c])
  BY SingleLine DEF CallInv, ExactPipeInv, PipeInv, Carries, Read
<1>3. Steady => (refused <=> v = Refused)
  <2> SUFFICES ASSUME Steady  PROVE refused <=> v = Refused
    OBVIOUS
  <2> PICK id : id = request[c]
    OBVIOUS
  <2>1. id \in 0..MaxCalls /\ id # Refused
    BY <1>0 DEF TypeOK, Refused
  <2>2. out \in {<<id>>, <<Refused>>} /\ (refused <=> out = <<Refused>>)
    BY <1>0, <1>2 DEF Carries, Read, Steady, CallInv, RefusalInv
  <2>3. QED
    BY <2>1, <2>2, SingleLine
<1>4. CASE v <= Handshake
  <2>1. Return(c, Failure)
    BY <1>1, <1>4 DEF Read, Parsed, Handshake, Refused
  <2>2. Steady => refused
    <3>1. request[c] > 0 /\ request[c] \in Nat
      BY <1>0 DEF CallInv, AskedInv, TypeOK
    <3>2. QED
      BY <1>2, <1>3, <1>4, <3>1 DEF Steady, Handshake
  <2>3. QED
    BY <1>0, <2>1, <2>2, FinishFails DEF Read
<1>5. CASE v > Handshake
  <2>1. v \in Nat /\ v > 0
    BY <1>1, <1>5 DEF Handshake, Refused
  <2>2. Finish(c, "idle", v)
    BY <1>5 DEF Read, Return, Parsed
  <2>3. latest <= v /\ v <= reqId /\ request[c] = reqId
    BY <1>0, <2>1, PipeNumbers, ReadKeepsOrder DEF CallInv, OrderInv, Read, Sent
  <2>4. /\ ~slow /\ ~chatty => v = request[c]
        /\ Steady => ~refused
    BY <1>2, <1>3, <2>1 DEF Refused
  <2>5. latest' = v
    BY <1>0, <2>1, <2>2, <2>3 DEF Finish, TypeOK
  <2>6. UnderWay = c /\ UnderWay' = Nobody
    <3>1. pc'[c] = "idle" /\ lock' = Nobody
      BY <1>0, <2>2 DEF Finish, TypeOK
    <3>2. QED
      BY <1>0, <3>1, StepOfHolder DEF Sent
  <2>7. latest' \in Contract!Answers(c)
    <3>1. latest \in Nat /\ request[c] \in Nat
      BY <1>0 DEF TypeOK
    <3>2. v \in (latest..request[c]) \ {0}
      BY <2>1, <2>3, <3>1
    <3>3. QED
      BY <2>4, <2>5, <3>2 DEF Contract!Answers
  <2>8. QED
    BY <2>2, <2>4, <2>5, <2>6, <2>7
       DEF Contract!Return, Finish, Read, server, Steady
<1>6. QED
  BY <1>1, <1>4, <1>5 DEF Handshake, Refused

(* A handshake fails only with a server that may be the reason. *)
LEMMA ReconnectFailureShows ==
  ASSUME CallInv, Safe', NEW c \in Callers, ReconnectFails(c)
  PROVE  Contract!Fail(c)
<1>0. Safe /\ pc[c] \in Working
  BY DEF CallInv, ReconnectFails, Working
<1>1. ~Steady
  BY <1>0 DEF CallInv, RefusalInv, ReconnectFails
<1>2. QED
  BY <1>0, <1>1, FinishFails DEF ReconnectFails

(* A step that touches neither calls nor kind of server shows nothing. *)
LEMMA PipeStepHidden ==
  ASSUME UNCHANGED <<calls, server>>
  PROVE  UNCHANGED Contract!vars
<1>1. UnderWay' = UnderWay
  BY DEF calls, UnderWay
<1>2. QED
  BY <1>1 DEF calls, server, Contract!vars

(* The steps of a call. *)
LEMMA CallShows ==
  ASSUME CallInv, Safe', NEW c \in Callers,
         Call(c) \/ CallReconnects(c) \/ CallerStep(c)
  PROVE  [Contract!Next]_Contract!vars
<1>0. Safe /\ TypeOK /\ LockInv
  BY DEF CallInv, Safe
<1>1. CASE Call(c)
  BY <1>0, <1>1, TransmitAsks DEF Call, Enters, MayEnter, Sent, Contract!Next
<1>2. CASE CallReconnects(c)
  <2>1. pc[c] \notin Sent /\ pc'[c] \notin Sent
    BY <1>0, <1>2 DEF CallReconnects, Enters, Sent, TypeOK
  <2>2. UNCHANGED Contract!vars
    BY <1>0, <1>2, <2>1, HiddenStep DEF CallReconnects, Enters, MayEnter, server
  <2>3. QED
    BY <2>2
<1>3. CASE CallReconnected(c)
  <2>1. lock = c /\ lock' = c /\ pc[c] \notin Sent
    BY <1>0, <1>3 DEF CallReconnected, LockInv, Working, Sent
  <2>2. Contract!Ask(c)
    BY <1>0, <1>3, <2>1, TransmitAsks DEF CallReconnected
  <2>3. QED
    BY <2>2 DEF Contract!Next
<1>4. CASE Read(c)
  BY <1>4, ReadShows DEF Contract!Next
<1>11. ASSUME pc[c] \in {"read", "reread"}, Finish(c, "raised", NoAnswer),
              UNCHANGED server
       PROVE  [Contract!Next]_Contract!vars
  <2>1. lock = c /\ pc[c] \in Sent
    BY <1>0, <1>11 DEF LockInv, Working, Sent
  <2>2. pc'[c] = "raised" /\ lock' = Nobody
    BY <1>0, <1>11 DEF TypeOK, Finish
  <2>3. UnderWay = c /\ UnderWay' = Nobody
    BY <1>0, <2>1, <2>2, StepOfHolder DEF Sent
  <2>4. answer[c] = NoAnswer
    BY <2>1 DEF CallInv, AskedInv
  <2>5. answer' = answer
    BY <1>0, <1>11, <2>4 DEF Finish, TypeOK
  <2>6. latest' = latest
    BY <1>0, <1>11 DEF Finish, TypeOK, NoAnswer
  <2>7. Contract!Abandon
    BY <1>11, <2>3, <2>5, <2>6 DEF Contract!Abandon, Finish, server
  <2>8. QED
    BY <2>7 DEF Contract!Next
<1>12. CASE ReadRaises(c)
  BY <1>11, <1>12 DEF ReadRaises
<1>5. CASE ReadEof(c)
  <2>1. lock = c /\ pc[c] \in Working /\ pc[c] \in Sent
    BY <1>0, <1>5 DEF ReadEof, LockInv, Working, Sent
  <2>2. CASE Return(c, Failure)
    <3>1. ~Steady
      BY <1>5, <2>1, SteadyLives DEF ReadEof, AtEof
    <3>2. Contract!Fail(c)
      BY <1>0, <1>5, <2>1, <2>2, <3>1, FinishFails DEF ReadEof
    <3>3. QED
      BY <3>2 DEF Contract!Next
  <2>3. QED
    BY <1>5, <1>11, <2>2 DEF ReadEof
<1>6. CASE ReadTimesOut(c) \/ RetryReconnects(c)
  <2>1. /\ lock = c /\ lock' = c /\ pc[c] \in Sent /\ pc'[c] \in Sent
        /\ UNCHANGED <<reqId, request, answer, latest, refused, server>>
    BY <1>0, <1>6 DEF ReadTimesOut, RetryReconnects, Goto, LockInv, Working,
       Sent, TypeOK
  <2>2. UNCHANGED Contract!vars
    BY <1>0, <2>1, HiddenStep
  <2>3. QED
    BY <2>2
<1>7. CASE RereadTimesOut(c)
  <2>1. pc[c] \in Working /\ ~Steady
    BY <1>7 DEF RereadTimesOut, TimesOut, Working, Steady
  <2>2. Contract!Fail(c)
    BY <1>0, <1>7, <2>1, FinishFails DEF RereadTimesOut
  <2>3. QED
    BY <2>2 DEF Contract!Next
<1>8. CASE Retry(c) \/ RetryReconnected(c)
  BY <1>8, RewriteShows DEF Retry, RetryReconnected
<1>9. CASE ReconnectFails(c)
  BY <1>9, ReconnectFailureShows DEF Contract!Next
<1>10. QED
  BY <1>1, <1>2, <1>3, <1>4, <1>5, <1>6, <1>7, <1>8, <1>9, <1>12 DEF CallerStep

(* Every step of the transport is one of the contract, or shows nothing. *)
LEMMA StepShows ==
  ASSUME CallInv, Safe', [Next]_vars
  PROVE  [Contract!Next]_Contract!vars
<1> USE DEF calls, pipe, server
<1>1. CASE MainStep
  <2>1. CASE SessionTimesOut
    <3>1. UnderWay' = Nobody
      BY <2>1 DEF SessionTimesOut, UnderWay
    <3>2. CASE UnderWay = Nobody
      BY <2>1, <3>1, <3>2 DEF SessionTimesOut, Contract!vars
    <3>3. CASE UnderWay # Nobody
      BY <2>1, <3>1, <3>3 DEF SessionTimesOut, Contract!Abandon, Contract!Next
    <3>4. QED
      BY <3>2, <3>3
  <2>2. QED
    BY <1>1, <2>1, PipeStepHidden
       DEF MainStep, MainSpawns, MainConnects, MainFails, MainStops
<1>2. ASSUME NEW c \in Callers, Call(c) \/ CallReconnects(c) \/ CallerStep(c)
      PROVE  [Contract!Next]_Contract!vars
  BY <1>2, CallShows
<1>3. CASE Die
  <2>1. UnderWay' = UnderWay /\ deaths' # 0
    BY <1>3 DEF Die, UnderWay, CallInv, Safe, TypeOK
  <2>2. QED
    BY <1>3, <2>1 DEF Die, Contract!Dies, Contract!Next, Contract!vars
<1>4. CASE Serve \/ Notify \/ Notice \/ UNCHANGED vars
  BY <1>4, PipeStepHidden DEF Serve, Notify, Notice, vars
<1>5. CASE Refuse
  <2>1. UnderWay' = UnderWay
    BY <1>5 DEF Refuse, UnderWay
  <2>2. refused' = refused \/ (~refused /\ refused' = TRUE)
    BY <1>5 DEF Refuse, CallInv, Safe, TypeOK
  <2>3. QED
    BY <1>5, <2>1, <2>2 DEF Refuse, Contract!Refuse, Contract!Next, Contract!vars
<1>6. QED
  BY <1>1, <1>2, <1>3, <1>4, <1>5 DEF Next, Over

(* The transport implements the contract of a call, whatever the callers, the
   number of calls and deaths and the subprocess. *)
THEOREM TransportKeepsContract == Spec => ImplementsContract
<1>1. Init => Contract!Init
  BY DEF Init, Contract!Init, UnderWay, Contract!NoAnswer, NoAnswer
<1>2. Init => AskedInv /\ AliveInv /\ RefusalInv
  BY DEF Init, AskedInv, AliveInv, RefusalInv, Sent, Working
<1>3. /\ Safe /\ AskedInv /\ AliveInv /\ [Next]_vars => AskedInv' /\ AliveInv'
      /\ CallInv /\ [Next]_vars => RefusalInv'
  BY NextKeepsAsked, NextKeepsAlive, NextKeepsRefusal
<1>4. CallInv <=> Safe /\ ExactPipeInv /\ OrderInv /\ AskedInv /\ AliveInv /\ RefusalInv
  BY DEF CallInv
<1>5. Spec => []CallInv
  BY <1>2, <1>3, <1>4, AlwaysSafe, AlwaysExactPipe, AlwaysOrder, PTL DEF Spec
<1>6. CallInv /\ Safe' /\ [Next]_vars => [Contract!Next]_Contract!vars
  BY StepShows
<1>7. QED
  BY <1>1, <1>5, <1>6, AlwaysSafe, PTL DEF Spec, ImplementsContract, Contract!Spec
=============================================================================
