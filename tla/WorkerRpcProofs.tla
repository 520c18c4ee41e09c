--------------------------- MODULE WorkerRpcProofs ---------------------------
(* Theorems about WorkerRpc for every value of its constants.              *)
EXTENDS WorkerRpc, SequenceTheorems, TLAPS

\* The frames the code builds are frames; calls name no frame twice.
LEMMA FrameTypes ==
  /\ \A c \in Call, kind \in {"request", "cancel", "response", "unit"} :
       /\ Msg(kind, c) \in Frame
       /\ Msg(kind, c).kind = kind /\ Msg(kind, c).call = c
  /\ "up" \in Direction /\ "down" \in Direction
BY DEF Msg, Frame, Direction

\* Nothing has been called: every group of variables has its initial value.
LEMMA TypeInit == Init => TypeOK
<1> SUFFICES ASSUME Init PROVE TypeOK
  OBVIOUS
<1>1. current \in Call
  BY RpcAssumption DEF Init, RpcAssumption
<1>2. LineOK
  BY RpcAssumption DEF Init, LineOK, Bounded, RpcAssumption
<1> QED
  BY <1>1, <1>2 DEF Init, TypeOK, ClientOK, ServerOK, CallState, ServeState, TaskState

\* A step that leaves a group of variables alone leaves its types alone.
LEMMA Frozen ==
  ASSUME TypeOK
  PROVE  /\ UNCHANGED clientVars => ClientOK'
         /\ UNCHANGED lineVars => LineOK'
         /\ UNCHANGED serverVars => ServerOK'
BY DEF TypeOK, ClientOK, LineOK, ServerOK, Bounded, clientVars, lineVars, serverVars

\* What the head of a channel says, and what is left behind it.
LEMMA HeadTypes ==
  ASSUME NEW q \in Seq(Frame), q # <<>>
  PROVE  /\ Head(q) \in Frame
         /\ Head(q).call \in Call
         /\ Tail(q) \in Seq(Frame)
         /\ Len(Tail(q)) = Len(q) - 1
         /\ Len(q) \in Nat
<1>1. Head(q) \in Frame /\ Tail(q) \in Seq(Frame) /\ Len(Tail(q)) = Len(q) - 1
  BY HeadTailProperties
<1> QED
  BY <1>1, LenProperties DEF Frame

\* A frame enters a queue that has room for it.
LEMMA QueueTypes ==
  ASSUME TypeOK, NEW d \in Direction, NEW frame \in Frame,
         CanQueue(d), Enqueue(d, frame), UNCHANGED <<writing, wire, linked>>
  PROVE  LineOK'
<1>1. /\ queue[d] \in Seq(Frame)
      /\ Append(queue[d], frame) \in Seq(Frame)
      /\ Len(Append(queue[d], frame)) = Len(queue[d]) + 1
      /\ Len(queue[d]) \in Nat
  BY AppendProperties, LenProperties DEF TypeOK, LineOK
<1>2. queue' \in [Direction -> Seq(Frame)]
  BY <1>1 DEF TypeOK, LineOK, Enqueue
<1>3. Len(queue[d]) + 1 <= QueueCap
  BY <1>1, RpcAssumption DEF RpcAssumption, CanQueue
<1>4. Bounded(queue', QueueCap)
  BY <1>1, <1>3 DEF TypeOK, LineOK, Enqueue, Bounded
<1> QED
  BY <1>2, <1>4 DEF TypeOK, LineOK, Bounded

\* A frame is taken off a pipe.
LEMMA TakeTypes ==
  ASSUME TypeOK, NEW d \in Direction, wire[d] # <<>>,
         wire' = [wire EXCEPT ![d] = Tail(@)], UNCHANGED <<queue, writing, linked>>
  PROVE  LineOK'
<1>1. wire[d] \in Seq(Frame)
  BY DEF TypeOK, LineOK
<1>2. wire' \in [Direction -> Seq(Frame)]
  BY <1>1, HeadTypes DEF TypeOK, LineOK
<1>3. Bounded(wire', WireCap)
  BY <1>1, HeadTypes, RpcAssumption DEF TypeOK, LineOK, Bounded, RpcAssumption
<1> QED
  BY <1>2, <1>3 DEF TypeOK, LineOK, Bounded

\* A pipe cut anywhere still holds frames, no more than before.
LEMMA CutTypes ==
  ASSUME NEW q \in Seq(Frame), NEW n \in Nat
  PROVE  /\ Cut(q, n) \in Seq(Frame)
         /\ Len(Cut(q, n)) <= Len(q)
         /\ Len(Cut(q, n)) \in 0..Len(q)
         /\ \A i \in 1..Len(Cut(q, n)) : Cut(q, n)[i] = q[i]
<1> DEFINE m == IF n < Len(q) THEN n ELSE Len(q)
<1>1. Len(q) \in Nat /\ m \in 0..Len(q)
  BY LenProperties
<1>2. /\ SubSeq(q, 1, m) \in Seq(Frame) /\ Len(SubSeq(q, 1, m)) = m
      /\ \A i \in 1..m : SubSeq(q, 1, m)[i] = q[i]
  BY <1>1, SubSeqProperties
<1>3. Cut(q, n) = SubSeq(q, 1, m)
  BY DEF Cut
<1> HIDE DEF m
<1> QED
  BY <1>1, <1>2, <1>3

\* abort leaves other tasks alone and an aborted one without a next poll.
LEMMA Aborted ==
  ASSUME TypeOK, NEW some \in SUBSET Call, Abort(some)
  PROVE  /\ task' \in [Call -> TaskState]
         /\ \A c \in Call \ some : task'[c] = task[c]
         /\ \A c \in some :
              \/ task'[c] = "aborted"
              \/ task[c] = "handling" /\ task'[c] = "lastHandling"
              \/ task[c] = "responding" /\ task'[c] = "lastResponding"
<1>1. PICK polled \in SUBSET {c \in some : task[c] \in {"handling", "responding"}} :
        task' = [c \in Call |->
                   IF c \notin some THEN task[c]
                   ELSE IF c \notin polled THEN "aborted"
                   ELSE IF task[c] = "handling" THEN "lastHandling" ELSE "lastResponding"]
  BY DEF Abort
<1> QED
  BY <1>1 DEF TypeOK, ServerOK, TaskState

\* Every action keeps the types and the capacities.
LEMMA TypeStep == TypeOK /\ [Next]_vars => TypeOK'
<1> SUFFICES ASSUME TypeOK, [Next]_vars PROVE TypeOK'
  OBVIOUS
<1>1. ASSUME NEW c \in Call, Make(c) PROVE TypeOK'
  <2>1. ClientOK'
    BY <1>1 DEF Make, TypeOK, ClientOK, CallState
  <2>2. UNCHANGED <<lineVars, serverVars>>
    BY <1>1 DEF Make
  <2> QED
    BY <2>1, <2>2, Frozen DEF TypeOK
<1>2. ASSUME NEW c \in Call, QueueRequest(c) PROVE TypeOK'
  <2>1. ClientOK'
    BY <1>2 DEF QueueRequest, TypeOK, ClientOK, CallState
  <2>2. LineOK'
    BY <1>2, QueueTypes, FrameTypes DEF QueueRequest, TypeOK
  <2>3. UNCHANGED serverVars
    BY <1>2 DEF QueueRequest
  <2> QED
    BY <2>1, <2>2, <2>3, Frozen DEF TypeOK
<1>3. ASSUME NEW c \in Call, SendFails(c) PROVE TypeOK'
  <2>1. ClientOK'
    BY <1>3 DEF SendFails, TypeOK, ClientOK, CallState
  <2>2. UNCHANGED <<lineVars, serverVars>>
    BY <1>3 DEF SendFails
  <2> QED
    BY <2>1, <2>2, Frozen DEF TypeOK
<1>4. ASSUME NEW c \in Call, Arm(c) PROVE TypeOK'
  <2>1. ClientOK'
    BY <1>4 DEF Arm, TypeOK, ClientOK, CallState
  <2>2. UNCHANGED <<lineVars, serverVars>>
    BY <1>4 DEF Arm
  <2> QED
    BY <2>1, <2>2, Frozen DEF TypeOK
<1>5. ASSUME NEW c \in Call, Return(c) PROVE TypeOK'
  <2>1. ClientOK'
    BY <1>5 DEF Return, TypeOK, ClientOK, CallState, Forget
  <2>2. UNCHANGED <<lineVars, serverVars>>
    BY <1>5 DEF Return
  <2> QED
    BY <2>1, <2>2, Frozen DEF TypeOK
<1>6. ASSUME NEW c \in Call, DropInSend(c) PROVE TypeOK'
  <2>1. ClientOK'
    BY <1>6 DEF DropInSend, TypeOK, ClientOK, CallState
  <2>2. UNCHANGED <<lineVars, serverVars>>
    BY <1>6 DEF DropInSend
  <2> QED
    BY <2>1, <2>2, Frozen DEF TypeOK
<1>7. ASSUME NEW c \in Call, DropWaiting(c) PROVE TypeOK'
  <2>1. ClientOK'
    BY <1>7 DEF DropWaiting, TypeOK, ClientOK, CallState, Forget
  <2>2. UNCHANGED <<lineVars, serverVars>>
    BY <1>7 DEF DropWaiting
  <2> QED
    BY <2>1, <2>2, Frozen DEF TypeOK
<1>8. ASSUME NEW c \in Call, QueueCancel(c) PROVE TypeOK'
  <2>1. ClientOK'
    BY <1>8 DEF QueueCancel, TypeOK, ClientOK
  <2>2. LineOK'
    <3>1. CASE CanQueue("up") /\ Enqueue("up", Msg("cancel", c))
      BY <1>8, <3>1, QueueTypes, FrameTypes DEF QueueCancel
    <3>2. CASE UNCHANGED queue
      BY <1>8, <3>2, Frozen DEF QueueCancel, lineVars
    <3> QED
      BY <1>8, <3>1, <3>2 DEF QueueCancel
  <2>3. UNCHANGED serverVars
    BY <1>8 DEF QueueCancel
  <2> QED
    BY <2>1, <2>2, <2>3, Frozen DEF TypeOK
<1>9. ASSUME NEW c \in Call, Handle(c) PROVE TypeOK'
  <2>1. ServerOK'
    BY <1>9 DEF Handle, TypeOK, ServerOK, TaskState, TakesEffect, HandsOver, RunsOn
  <2>2. UNCHANGED <<clientVars, lineVars>>
    BY <1>9 DEF Handle
  <2> QED
    BY <2>1, <2>2, Frozen DEF TypeOK
<1>10. ASSUME NEW c \in Call, Respond(c) PROVE TypeOK'
  <2>1. LineOK'
    BY <1>10, QueueTypes, FrameTypes DEF Respond, TypeOK
  <2>2. ServerOK'
    BY <1>10 DEF Respond, TypeOK, ServerOK, TaskState
  <2>3. UNCHANGED clientVars
    BY <1>10 DEF Respond
  <2> QED
    BY <2>1, <2>2, <2>3, Frozen DEF TypeOK
<1>11. ASSUME NEW c \in Call, Finish(c) PROVE TypeOK'
  <2>1. ServerOK'
    BY <1>11 DEF Finish, TypeOK, ServerOK, TaskState
  <2>2. UNCHANGED <<clientVars, lineVars>>
    BY <1>11 DEF Finish
  <2> QED
    BY <2>1, <2>2, Frozen DEF TypeOK
<1>12. ASSUME NEW c \in Call, LastPoll(c) PROVE TypeOK'
  <2>1. LineOK'
    <3>1. CASE CanQueue("down") /\ Enqueue("down", Msg("response", c))
      BY <1>12, <3>1, QueueTypes, FrameTypes DEF LastPoll
    <3>2. CASE UNCHANGED queue
      BY <1>12, <3>2, Frozen DEF LastPoll, lineVars
    <3> QED
      BY <1>12, <3>1, <3>2 DEF LastPoll
  <2>2. ServerOK'
    BY <1>12 DEF LastPoll, TypeOK, ServerOK, TaskState, TakesEffect, HandsOver, RunsOn
  <2>3. UNCHANGED clientVars
    BY <1>12 DEF LastPoll
  <2> QED
    BY <2>1, <2>2, <2>3, Frozen DEF TypeOK
<1>13. ASSUME NEW d \in Direction, WriteFrame(d) PROVE TypeOK'
  <2>1. ClientOK'
    BY <1>13 DEF WriteFrame, TypeOK, ClientOK, CallState, WrittenBy
  <2>2. LineOK'
    <3>1. /\ queue[d] \in Seq(Frame) /\ wire[d] \in Seq(Frame) /\ queue[d] # <<>>
          /\ Len(queue[d]) <= QueueCap /\ Len(wire[d]) < WireCap
      BY <1>13 DEF WriteFrame, TypeOK, LineOK, Bounded
    <3>2. /\ Head(queue[d]) \in Frame
          /\ Tail(queue[d]) \in Seq(Frame) /\ Len(Tail(queue[d])) <= QueueCap
      BY <3>1, HeadTypes, RpcAssumption DEF RpcAssumption
    <3>3. /\ Append(wire[d], Head(queue[d])) \in Seq(Frame)
          /\ Len(Append(wire[d], Head(queue[d]))) <= WireCap
      BY <3>1, <3>2, AppendProperties, LenProperties, RpcAssumption DEF RpcAssumption
    <3> QED
      BY <1>13, <3>2, <3>3 DEF WriteFrame, TypeOK, LineOK, Bounded
  <2>3. ServerOK'
    <3>1. queue[d] \in Seq(Frame) /\ queue[d] # <<>>
      BY <1>13 DEF WriteFrame, TypeOK, LineOK
    <3>2. unheard' \subseteq Call
      BY <1>13, <3>1, HeadTypes DEF WriteFrame, TypeOK, ServerOK
    <3> QED
      BY <1>13, <3>2 DEF WriteFrame, TypeOK, ServerOK, ServeState, TaskState, WrittenBy
  <2> QED
    BY <2>1, <2>2, <2>3, Frozen DEF TypeOK
<1>14. ASSUME NEW d \in Direction, WriterStops(d) PROVE TypeOK'
  <2>1. LineOK'
    BY <1>14, RpcAssumption DEF WriterStops, TypeOK, LineOK, Bounded, RpcAssumption
  <2>2. UNCHANGED <<clientVars, serverVars>>
    BY <1>14 DEF WriterStops
  <2> QED
    BY <2>1, <2>2, Frozen DEF TypeOK
<1>15. CASE RouteResponse
  <2>1. ClientOK'
    BY <1>15 DEF RouteResponse, TypeOK, ClientOK
  <2>2. LineOK'
    BY <1>15, TakeTypes, FrameTypes DEF RouteResponse, TypeOK
  <2>3. UNCHANGED serverVars
    BY <1>15 DEF RouteResponse
  <2> QED
    BY <2>1, <2>2, <2>3, Frozen DEF TypeOK
<1>16. CASE RoutingEnds
  <2>1. ClientOK'
    BY <1>16 DEF RoutingEnds, TypeOK, ClientOK
  <2>2. UNCHANGED <<lineVars, serverVars>>
    BY <1>16 DEF RoutingEnds
  <2> QED
    BY <2>1, <2>2, Frozen DEF TypeOK
<1>17. CASE LinkLost
  <2>1. LineOK'
    <3>1. PICK keep \in [Direction -> 0..WireCap] :
            wire' = [d \in Direction |-> Cut(wire[d], keep[d])]
      BY <1>17 DEF LinkLost
    <3>2. ASSUME NEW d \in Direction
          PROVE  Cut(wire[d], keep[d]) \in Seq(Frame) /\ Len(Cut(wire[d], keep[d])) <= WireCap
      <4>1. /\ wire[d] \in Seq(Frame) /\ keep[d] \in Nat
            /\ Len(wire[d]) \in Nat /\ Len(wire[d]) <= WireCap
        BY LenProperties, RpcAssumption DEF TypeOK, LineOK, Bounded, RpcAssumption
      <4> QED
        BY <4>1, CutTypes, RpcAssumption DEF RpcAssumption
    <3> QED
      BY <1>17, <3>1, <3>2 DEF LinkLost, TypeOK, LineOK, Bounded
  <2>2. UNCHANGED <<clientVars, serverVars>>
    BY <1>17 DEF LinkLost
  <2> QED
    BY <2>1, <2>2, Frozen DEF TypeOK
<1>18. CASE Accept
  <2>1. LineOK'
    BY <1>18, TakeTypes, FrameTypes DEF Accept, TypeOK
  <2>2. ServerOK'
    <3> DEFINE frame == Head(wire["up"])
               c == frame.call
    <3>1. c \in Call
      BY <1>18, HeadTypes, FrameTypes DEF Accept, TypeOK, LineOK
    <3>2. CASE /\ serve' = "registering" /\ current' = c
               /\ task' = [task EXCEPT ![c] = AtSpawn] /\ UNCHANGED <<requests, joining>>
      BY <1>18, <3>1, <3>2 DEF Accept, TypeOK, ServerOK, TaskState, ServeState, AtSpawn
    <3>3. CASE serve' = "stopping" /\ current' = c /\ AbortAll
      BY <1>18, <3>1, <3>3, Aborted DEF Accept, TypeOK, ServerOK, ServeState, AbortAll
    <3>4. CASE /\ serve' = "answering" /\ requests' = requests \ {c}
               /\ Abort(Target(c)) /\ UNCHANGED <<current, joining>>
      <4>1. Target(c) \in SUBSET Call
        BY <3>1 DEF Target
      <4>2. task' \in [Call -> TaskState]
        BY <4>1, <3>4, Aborted
      <4> QED
        BY <1>18, <3>4, <4>2 DEF Accept, TypeOK, ServerOK, ServeState
    <3> QED
      BY <1>18, <3>2, <3>3, <3>4 DEF Accept
  <2>3. UNCHANGED clientVars
    BY <1>18 DEF Accept
  <2> QED
    BY <2>1, <2>2, <2>3, Frozen DEF TypeOK
<1>19. CASE Register
  <2>1. ServerOK'
    BY <1>19 DEF Register, TypeOK, ServerOK, TaskState, ServeState
  <2>2. UNCHANGED <<clientVars, lineVars>>
    BY <1>19 DEF Register
  <2> QED
    BY <2>1, <2>2, Frozen DEF TypeOK
<1>20. CASE Reply
  <2>1. LineOK'
    <3>1. Msg("unit", current) \in Frame /\ Msg("response", current) \in Frame
      BY FrameTypes DEF TypeOK, ServerOK
    <3> QED
      BY <1>20, <3>1, QueueTypes, FrameTypes DEF Reply
  <2>2. ServerOK'
    BY <1>20 DEF Reply, TypeOK, ServerOK, ServeState
  <2>3. UNCHANGED clientVars
    BY <1>20 DEF Reply
  <2> QED
    BY <2>1, <2>2, <2>3, Frozen DEF TypeOK
<1>21. CASE Stopped
  <2>1. ServerOK'
    BY <1>21 DEF Stopped, TypeOK, ServerOK, ServeState
  <2>2. UNCHANGED <<clientVars, lineVars>>
    BY <1>21 DEF Stopped
  <2> QED
    BY <2>1, <2>2, Frozen DEF TypeOK
<1>22. CASE EndOfRequests
  <2>1. ServerOK'
    BY <1>22, Aborted DEF EndOfRequests, TypeOK, ServerOK, ServeState, AbortAll
  <2>2. UNCHANGED <<clientVars, lineVars>>
    BY <1>22 DEF EndOfRequests
  <2> QED
    BY <2>1, <2>2, Frozen DEF TypeOK
<1>23. CASE Exit
  <2>1. ServerOK'
    BY <1>23 DEF Exit, TypeOK, ServerOK, TaskState, ServeState
  <2>2. UNCHANGED <<clientVars, lineVars>>
    BY <1>23 DEF Exit
  <2> QED
    BY <2>1, <2>2, Frozen DEF TypeOK
<1>24. CASE UNCHANGED vars
  BY <1>24, Frozen DEF TypeOK, vars
<1>25. ASSUME NEW c \in Call, PoolRuns(c) PROVE TypeOK'
  <2>1. ServerOK'
    BY <1>25 DEF PoolRuns, TypeOK, ServerOK, TaskState
  <2>2. UNCHANGED <<clientVars, lineVars>>
    BY <1>25 DEF PoolRuns
  <2> QED
    BY <2>1, <2>2, Frozen DEF TypeOK
<1>26. CASE ProcessEnds
  <2>1. LineOK'
    BY <1>26 DEF ProcessEnds, TypeOK, LineOK, Bounded
  <2>2. ServerOK'
    BY <1>26 DEF ProcessEnds, TypeOK, ServerOK
  <2>3. UNCHANGED clientVars
    BY <1>26 DEF ProcessEnds
  <2> QED
    BY <2>1, <2>2, <2>3, Frozen DEF TypeOK
<1> QED
  BY <1>1, <1>2, <1>3, <1>4, <1>5, <1>6, <1>7, <1>8, <1>9, <1>10, <1>11, <1>12,
     <1>13, <1>14, <1>15, <1>16, <1>17, <1>18, <1>19, <1>20, <1>21, <1>22, <1>23, <1>24,
     <1>25, <1>26
  DEF Next, CallStep, TaskStep, ServeStep

\* Every variable keeps its type, and every write queue and pipe its capacity.
THEOREM TypeCorrect == Spec => []TypeOK
<1> QED
  BY TypeInit, TypeStep, PTL DEF Spec
-----------------------------------------------------------------------------
(***************************************************************************)
(* The invariant behind the safety properties.  A request is made once, so *)
(* its task starts once and takes effect once; responses follow effects;   *)
(* the serve loop tells what may be left in the registry.                  *)
(***************************************************************************)
Holds(q, kind, c) == \E i \in 1..Len(q) : q[i].kind = kind /\ q[i].call = c

OnceEach(q) ==
  \A i, j \in 1..Len(q) :
    q[i].kind = "request" /\ q[j].kind = "request" /\ q[i].call = q[j].call => i = j

Asked(c) == Holds(queue["up"], "request", c) \/ Holds(wire["up"], "request", c)

\* A request is on its way once, behind its call and ahead of its task.
RequestOnce(c) ==
  /\ ~(Holds(queue["up"], "request", c) /\ Holds(wire["up"], "request", c))
  /\ Asked(c) \/ call[c] \in {"idle", "sending"} => task[c] = "none"
  /\ Asked(c) => call[c] \notin {"idle", "sending"}
RequestInv ==
  /\ OnceEach(queue["up"]) /\ OnceEach(wire["up"])
  /\ \A c \in Call : RequestOnce(c)

CancelInv ==
  \A c \in Call :
    Holds(queue["up"], "cancel", c) \/ Holds(wire["up"], "cancel", c) => canceller[c] # "none"

Answered(c) ==
  \/ Holds(queue["down"], "response", c) \/ Holds(wire["down"], "response", c)
  \/ answer[c] = "sent" \/ call[c] = "ok"
ResponseInv == \A c \in Call \ Shutdowns : Answered(c) => effects[c] = 1

\* A task takes effect between its two awaits, or the pool does it for it once.
Before == {"none", "gated", "handling", "lastHandling"}
Effect(c) ==
  /\ effects[c] \in {0, 1}
  /\ c \in pool => effects[c] = 0
  /\ task[c] \in Before => effects[c] = 0 /\ c \notin pool
  /\ task[c] = "pooled" => c \in pool
  /\ task[c] \notin Before \union {"pooled", "aborted"} => effects[c] = 1
EffectInv == \A c \in Call : Effect(c)

Stopping == {"stopping", "saying", "said", "closing"}
ServeInv ==
  /\ serve \in {"reading", "registering", "answering", "answered"} => joining = {}
  /\ serve = "registering" => task[current] = "gated" /\ current \notin Shutdowns
  /\ serve \in {"stopping", "saying", "said"} => current \in Shutdowns
  /\ serve \in Stopping => requests = {}
  /\ serve = "exited" => \A c \in Call : task[c] \notin Live
  /\ serve \in {"reading", "answering", "answered"} /\ current \in Shutdowns =>
       \A c \in Call : task[c] = "none"
  /\ serve \in {"saying", "said", "closing"} /\ current \in Shutdowns =>
       \A c \in joining : task[c] \notin Live

\* A task that was aborted while it ran is awaited or was cancelled.
LastInv ==
  \A c \in Call : task[c] \in {"lastHandling", "lastResponding"} =>
    c \in joining \/ canceller[c] # "none"

ReplyInv ==
  /\ PendingIsOwned
  /\ \A c \in Call : /\ call[c] = "idle" => answer[c] = "open"
                     /\ call[c] \in {"idle", "waiting"} \union InSend => canceller[c] = "none"

\* The worker's side: what its tasks, its registry and its loop agree on.
WorkInv == /\ EffectInv /\ ServeInv /\ LastInv /\ RegistryIsExact /\ ShutdownQuiesces

IInv == /\ RequestInv /\ CancelInv /\ ResponseInv /\ WorkInv /\ ReplyInv
-----------------------------------------------------------------------------
(* Channels. *)

\* What a channel holds once a frame has been put behind it.
LEMMA HoldsAppend ==
  ASSUME NEW q \in Seq(Frame), NEW x \in Frame, NEW kind, NEW c
  PROVE  Holds(Append(q, x), kind, c) <=>
           Holds(q, kind, c) \/ (x.kind = kind /\ x.call = c)
<1>1. /\ Len(q) \in Nat /\ Len(Append(q, x)) = Len(q) + 1
      /\ Append(q, x)[Len(q) + 1] = x
      /\ \A i \in 1..Len(q) : Append(q, x)[i] = q[i]
  BY AppendProperties, LenProperties
<1>2. \A i : i \in 1..(Len(q) + 1) <=> i \in 1..Len(q) \/ i = Len(q) + 1
  BY <1>1
<1> QED
  BY <1>1, <1>2 DEF Holds

\* What a channel held before its head was taken.
LEMMA HoldsHead ==
  ASSUME NEW q \in Seq(Frame), q # <<>>, NEW kind, NEW c
  PROVE  Holds(q, kind, c) <=>
           (Head(q).kind = kind /\ Head(q).call = c) \/ Holds(Tail(q), kind, c)
<1>1. /\ Len(q) \in Nat \ {0} /\ Len(Tail(q)) = Len(q) - 1
      /\ Head(q) = q[1]
      /\ \A i \in 1..Len(Tail(q)) : Tail(q)[i] = q[i + 1]
  BY HeadTailProperties, LenProperties, EmptySeq
<1>2. \A i \in 1..Len(q) : i = 1 \/ (i - 1 \in 1..Len(Tail(q)) /\ Tail(q)[i - 1] = q[i])
  BY <1>1
<1>3. \A i \in 1..Len(Tail(q)) : i + 1 \in 1..Len(q)
  BY <1>1
<1>4. 1 \in 1..Len(q)
  BY <1>1
<1>5. ASSUME Holds(q, kind, c)
      PROVE  (Head(q).kind = kind /\ Head(q).call = c) \/ Holds(Tail(q), kind, c)
  <2>1. PICK i \in 1..Len(q) : q[i].kind = kind /\ q[i].call = c
    BY <1>5 DEF Holds
  <2>2. CASE i = 1
    BY <1>1, <2>1, <2>2
  <2>3. CASE i # 1
    <3>1. i - 1 \in 1..Len(Tail(q)) /\ Tail(q)[i - 1] = q[i]
      BY <1>2, <2>3
    <3> QED
      BY <2>1, <3>1 DEF Holds
  <2> QED
    BY <2>2, <2>3
<1>6. ASSUME Holds(Tail(q), kind, c)
      PROVE  Holds(q, kind, c)
  <2>1. PICK i \in 1..Len(Tail(q)) : Tail(q)[i].kind = kind /\ Tail(q)[i].call = c
    BY <1>6 DEF Holds
  <2>2. i + 1 \in 1..Len(q) /\ q[i + 1] = Tail(q)[i]
    BY <1>1, <1>3
  <2> QED
    BY <2>1, <2>2 DEF Holds
<1>7. Head(q).kind = kind /\ Head(q).call = c => Holds(q, kind, c)
  BY <1>1, <1>4 DEF Holds
<1> QED
  BY <1>5, <1>6, <1>7

\* A cut channel holds nothing new and repeats no request.
LEMMA HoldsCut ==
  ASSUME NEW q \in Seq(Frame), NEW n \in Nat
  PROVE  /\ \A kind, c : Holds(Cut(q, n), kind, c) => Holds(q, kind, c)
         /\ OnceEach(q) => OnceEach(Cut(q, n))
<1>1. /\ Len(q) \in Nat /\ Len(Cut(q, n)) \in 0..Len(q)
      /\ \A i \in 1..Len(Cut(q, n)) : Cut(q, n)[i] = q[i]
  BY CutTypes, LenProperties
<1>2. \A i \in 1..Len(Cut(q, n)) : i \in 1..Len(q)
  BY <1>1
<1> QED
  BY <1>1, <1>2 DEF Holds, OnceEach

\* An empty channel holds nothing.
LEMMA HoldsNothing == (\A kind, c : ~Holds(<<>>, kind, c)) /\ OnceEach(<<>>)
BY DEF Holds, OnceEach

\* A frame behind a channel repeats no request that was not there.
LEMMA OnceAppend ==
  ASSUME NEW q \in Seq(Frame), OnceEach(q), NEW x \in Frame,
         x.kind = "request" => ~Holds(q, "request", x.call)
  PROVE  OnceEach(Append(q, x))
<1>1. /\ Len(q) \in Nat /\ Len(Append(q, x)) = Len(q) + 1
      /\ Append(q, x)[Len(q) + 1] = x
      /\ \A i \in 1..Len(q) : Append(q, x)[i] = q[i]
  BY AppendProperties, LenProperties
<1>2. \A i : i \in 1..(Len(q) + 1) <=> i \in 1..Len(q) \/ i = Len(q) + 1
  BY <1>1
<1> QED
  BY <1>1, <1>2 DEF Holds, OnceEach

\* Taking the head repeats no request, and a request is gone with it.
LEMMA OnceTail ==
  ASSUME NEW q \in Seq(Frame), q # <<>>, OnceEach(q)
  PROVE  /\ OnceEach(Tail(q))
         /\ Head(q).kind = "request" => ~Holds(Tail(q), "request", Head(q).call)
<1>1. /\ Len(q) \in Nat \ {0} /\ Len(Tail(q)) = Len(q) - 1
      /\ Head(q) = q[1]
      /\ \A i \in 1..Len(Tail(q)) : Tail(q)[i] = q[i + 1]
  BY HeadTailProperties, LenProperties, EmptySeq
<1>2. \A i \in 1..Len(Tail(q)) : i + 1 \in 1..Len(q) /\ i \in Nat /\ i # 0
  BY <1>1
<1>3. 1 \in 1..Len(q)
  BY <1>1
<1> QED
  BY <1>1, <1>2, <1>3 DEF Holds, OnceEach

\* One more frame is queued.
LEMMA Queued ==
  ASSUME TypeOK, NEW d \in Direction, NEW x \in Frame, Enqueue(d, x)
  PROVE  \A e \in Direction : \A kind, c :
           Holds(queue'[e], kind, c) <=>
             Holds(queue[e], kind, c) \/ (e = d /\ x.kind = kind /\ x.call = c)
BY HoldsAppend DEF TypeOK, LineOK, Enqueue

\* A writer touches one direction, and wakes who waits for the frame it wrote.
LEMMA Written ==
  ASSUME TypeOK, NEW d \in Direction, WriteFrame(d)
  PROVE  /\ \A e \in Direction : e # d => queue'[e] = queue[e] /\ wire'[e] = wire[e]
         /\ \A c \in Call :
              /\ task'[c] = task[c] \/ (task[c] = "queued" /\ task'[c] = "written")
              /\ call'[c] = call[c] \/ (call[c] = "queued" /\ call'[c] = "written")
         /\ \/ serve' = serve
            \/ serve = "answered" /\ serve' = "reading"
            \/ serve = "said" /\ serve' = "closing"
<1> DEFINE frame == Head(queue[d])
<1>1. \A e \in Direction : e # d => queue'[e] = queue[e] /\ wire'[e] = wire[e]
  BY DEF WriteFrame, TypeOK, LineOK
<1>2. /\ call' = WrittenBy(frame, "request", call, "written")
      /\ task' = WrittenBy(frame, "response", task, "written")
      /\ serve' = IF serve = "answered" /\ frame.kind = "unit" THEN "reading"
                  ELSE IF serve = "said" /\ frame = Msg("response", current) THEN "closing"
                  ELSE serve
  BY DEF WriteFrame
<1>3. \A state, kind, next, c :
        c \in Call =>
          \/ WrittenBy(frame, kind, state, next)[c] = state[c]
          \/ state[c] = "queued" /\ WrittenBy(frame, kind, state, next)[c] = next
  BY DEF WrittenBy
<1> QED
  BY <1>1, <1>2, <1>3

\* A frame is read off a pipe.
LEMMA Taken ==
  ASSUME TypeOK, NEW d \in Direction, wire[d] # <<>>, wire' = [wire EXCEPT ![d] = Tail(@)]
  PROVE  /\ \A kind, c :
              Holds(wire[d], kind, c) <=>
                \/ Head(wire[d]).kind = kind /\ Head(wire[d]).call = c
                \/ Holds(wire'[d], kind, c)
         /\ \A e \in Direction : e # d => wire'[e] = wire[e]
<1>1. wire[d] \in Seq(Frame) /\ wire'[d] = Tail(wire[d])
  BY DEF TypeOK, LineOK
<1> QED
  BY <1>1, HoldsHead DEF TypeOK, LineOK

\* The serve loop takes a request, the shutdown or a cancel.
LEMMA Accepted ==
  ASSUME TypeOK, Accept
  PROVE  \E c \in Call :
           /\ serve = "reading" /\ UNCHANGED effects
           /\ \/ /\ Head(wire["up"]).kind = "request" /\ Head(wire["up"]).call = c
                 /\ Holds(wire["up"], "request", c)
                 /\ c \notin Shutdowns /\ serve' = "registering" /\ current' = c
                 /\ task' = [task EXCEPT ![c] = "gated"] /\ UNCHANGED <<requests, joining>>
              \/ /\ c \in Shutdowns /\ serve' = "stopping" /\ current' = c
                 /\ AbortAll
              \/ /\ Holds(wire["up"], "cancel", c) /\ serve' = "answering"
                 /\ requests' = requests \ {c} /\ Abort(Target(c))
                 /\ UNCHANGED <<current, joining>>
<1> DEFINE frame == Head(wire["up"])
           c == frame.call
<1>1. wire["up"] \in Seq(Frame) /\ wire["up"] # <<>> /\ c \in Call
  <2>1. wire["up"] \in Seq(Frame) /\ wire["up"] # <<>>
    BY FrameTypes DEF Accept, TypeOK, LineOK
  <2> QED
    BY <2>1, HeadTypes
<1>2. Holds(wire["up"], frame.kind, c)
  BY <1>1, HoldsHead
<1>3. /\ serve = "reading" /\ UNCHANGED effects
      /\ \/ /\ frame.kind = "request" /\ Holds(wire["up"], "request", c)
            /\ c \notin Shutdowns /\ serve' = "registering" /\ current' = c
            /\ task' = [task EXCEPT ![c] = "gated"] /\ UNCHANGED <<requests, joining>>
         \/ /\ c \in Shutdowns /\ serve' = "stopping" /\ current' = c
            /\ AbortAll
         \/ /\ Holds(wire["up"], "cancel", c) /\ serve' = "answering"
            /\ requests' = requests \ {c} /\ Abort(Target(c))
            /\ UNCHANGED <<current, joining>>
  BY <1>2 DEF Accept, AtSpawn
<1> QED
  BY <1>1, <1>3
-----------------------------------------------------------------------------
(* The worker's side. *)

\* A step that leaves the worker alone and takes no cancel back.
LEMMA WorkFrozen ==
  ASSUME WorkInv, UNCHANGED serverVars,
         \A c \in Call : canceller'[c] = "none" => canceller[c] = "none", TypeOK
  PROVE  WorkInv'
<1>1. EffectInv' /\ ServeInv' /\ RegistryIsExact'
  BY DEF WorkInv, EffectInv, Effect, ServeInv, RegistryIsExact, serverVars
<1>2. LastInv' /\ ShutdownQuiesces'
  BY DEF WorkInv, LastInv, ShutdownQuiesces, serverVars, TypeOK, ServerOK
<1> QED
  BY <1>1, <1>2 DEF WorkInv

\* No task is left to abort in the registry once the worker is shutting down,
\* so none runs on behind the answer to Shutdown unless it was cancelled.
LEMMA LateIsCancelled ==
  ASSUME TypeOK, WorkInv, NEW c \in Call, RunsOn(c),
         task[c] \in {"handling", "lastHandling"}, UNCHANGED canceller
  PROVE  ShutdownQuiesces'
<1>1. CASE AfterShutdown
  <2>1. task[c] \in Live
    BY DEF Live, Running
  <2>2. serve # "exited"
    BY <2>1 DEF WorkInv, ServeInv
  <2>3. requests = {} /\ c \notin joining
    BY <1>1, <2>1, <2>2 DEF AfterShutdown, WorkInv, ServeInv, Stopping
  <2>4. serve # "registering"
    BY <1>1 DEF AfterShutdown
  <2>5. task[c] = "lastHandling"
    BY <2>2, <2>3, <2>4 DEF WorkInv, RegistryIsExact, Running
  <2>6. canceller[c] # "none"
    BY <2>3, <2>5 DEF WorkInv, LastInv
  <2> QED
    BY <1>1, <2>6 DEF RunsOn, WorkInv, ShutdownQuiesces
<1>2. CASE ~AfterShutdown
  BY <1>2 DEF RunsOn, WorkInv, ShutdownQuiesces
<1> QED
  BY <1>1, <1>2

\* The worker's own steps keep its invariant.
LEMMA WorkStep ==
  ASSUME TypeOK, WorkInv, CancelInv, RequestInv
  PROVE  /\ \A c \in Call : TaskStep(c) => WorkInv'
         /\ \A d \in Direction : WriteFrame(d) => WorkInv'
         /\ ServeStep => WorkInv'
<1> USE DEF TypeOK, ServerOK, WorkInv
<1>1. ASSUME NEW c \in Call, Handle(c) PROVE WorkInv'
  <2>1. EffectInv'
    BY <1>1 DEF Handle, EffectInv, Effect, Before, TakesEffect, HandsOver
  <2>2. ServeInv'
    BY <1>1 DEF Handle, ServeInv, Live, Running
  <2>3. LastInv'
    BY <1>1 DEF Handle, LastInv, clientVars
  <2>4. RegistryIsExact'
    BY <1>1 DEF Handle, RegistryIsExact, Running
  <2>5. ShutdownQuiesces'
    BY <1>1, LateIsCancelled DEF Handle, clientVars
  <2> QED
    BY <2>1, <2>2, <2>3, <2>4, <2>5
<1>2. ASSUME NEW c \in Call, Respond(c) PROVE WorkInv'
  <2>1. EffectInv'
    BY <1>2 DEF Respond, EffectInv, Effect, Before
  <2>2. ServeInv'
    BY <1>2 DEF Respond, ServeInv, Live, Running
  <2>3. LastInv'
    BY <1>2 DEF Respond, LastInv, clientVars
  <2>4. RegistryIsExact'
    BY <1>2 DEF Respond, RegistryIsExact, Running
  <2>5. ShutdownQuiesces'
    BY <1>2 DEF Respond, ShutdownQuiesces, clientVars
  <2> QED
    BY <2>1, <2>2, <2>3, <2>4, <2>5
<1>3. ASSUME NEW c \in Call, Finish(c) PROVE WorkInv'
  <2>1. EffectInv'
    BY <1>3 DEF Finish, EffectInv, Effect, Before
  <2>2. ServeInv'
    BY <1>3 DEF Finish, ServeInv, Live, Running
  <2>3. LastInv'
    BY <1>3 DEF Finish, LastInv, clientVars
  <2>4. RegistryIsExact'
    BY <1>3 DEF Finish, RegistryIsExact, Running
  <2>5. ShutdownQuiesces'
    BY <1>3 DEF Finish, ShutdownQuiesces, clientVars
  <2> QED
    BY <2>1, <2>2, <2>3, <2>4, <2>5
<1>4. ASSUME NEW c \in Call, LastPoll(c) PROVE WorkInv'
  <2>1. EffectInv'
    BY <1>4 DEF LastPoll, EffectInv, Effect, Before, TakesEffect, HandsOver
  <2>2. ServeInv'
    BY <1>4 DEF LastPoll, ServeInv, Live
  <2>3. LastInv'
    BY <1>4 DEF LastPoll, LastInv, clientVars
  <2>4. RegistryIsExact'
    BY <1>4 DEF LastPoll, RegistryIsExact, Running
  <2>5. ShutdownQuiesces'
    <3>1. CASE RunsOn(c) /\ task[c] = "lastHandling"
      BY <1>4, <3>1, LateIsCancelled DEF LastPoll, clientVars
    <3>2. CASE UNCHANGED late
      BY <1>4, <3>2 DEF LastPoll, clientVars, ShutdownQuiesces
    <3> QED
      BY <1>4, <3>1, <3>2 DEF LastPoll
  <2> QED
    BY <2>1, <2>2, <2>3, <2>4, <2>5
<1>5. ASSUME NEW d \in Direction, WriteFrame(d) PROVE WorkInv'
  <2>1. /\ \A c \in Call : task'[c] = task[c] \/ (task[c] = "queued" /\ task'[c] = "written")
        /\ \/ serve' = serve
           \/ serve = "answered" /\ serve' = "reading"
           \/ serve = "said" /\ serve' = "closing"
        /\ UNCHANGED <<current, requests, joining, pool, effects, late, canceller>>
    BY <1>5, Written DEF WriteFrame
  <2>2. EffectInv'
    BY <2>1 DEF EffectInv, Effect, Before
  <2>3. ServeInv'
    BY <2>1 DEF ServeInv, Stopping, Live, Running
  <2>4. LastInv'
    BY <2>1 DEF LastInv
  <2>5. RegistryIsExact'
    BY <2>1 DEF RegistryIsExact, Running
  <2>6. ShutdownQuiesces'
    BY <2>1 DEF ShutdownQuiesces
  <2> QED
    BY <2>2, <2>3, <2>4, <2>5, <2>6
<1>6. ASSUME Accept PROVE WorkInv'
  <2>1. UNCHANGED <<canceller, pool, effects, late>>
    BY <1>6 DEF Accept, clientVars
  <2>2. PICK c \in Call :
           /\ serve = "reading"
           /\ \/ /\ Holds(wire["up"], "request", c)
                 /\ c \notin Shutdowns /\ serve' = "registering" /\ current' = c
                 /\ task' = [task EXCEPT ![c] = "gated"] /\ UNCHANGED <<requests, joining>>
              \/ /\ c \in Shutdowns /\ serve' = "stopping" /\ current' = c
                 /\ AbortAll
              \/ /\ Holds(wire["up"], "cancel", c) /\ serve' = "answering"
                 /\ requests' = requests \ {c} /\ Abort(Target(c))
                 /\ UNCHANGED <<current, joining>>
    BY <1>6, Accepted
  <2>3. CASE serve' = "registering"
    <3>1. /\ task[c] = "none" /\ c \notin Shutdowns /\ current' = c
          /\ task' = [task EXCEPT ![c] = "gated"] /\ UNCHANGED <<requests, joining>>
      BY <2>2, <2>3 DEF RequestInv, RequestOnce, Asked
    <3>2. EffectInv'
      BY <2>1, <3>1 DEF EffectInv, Effect, Before
    <3>3. ServeInv'
      BY <2>2, <3>1 DEF ServeInv, Stopping
    <3>4. LastInv'
      BY <2>1, <3>1 DEF LastInv
    <3>5. RegistryIsExact'
      BY <2>2, <2>3, <3>1 DEF RegistryIsExact, Running
    <3>6. ShutdownQuiesces'
      BY <2>1 DEF ShutdownQuiesces
    <3> QED
      BY <3>2, <3>3, <3>4, <3>5, <3>6
  <2>4. CASE serve' = "stopping"
    <3>1. /\ current' = c /\ c \in Shutdowns /\ requests' = {} /\ joining' = requests
          /\ \A b \in Call \ requests : task'[b] = task[b]
          /\ \A b \in requests :
               \/ task'[b] = "aborted"
               \/ task[b] = "handling" /\ task'[b] = "lastHandling"
               \/ task[b] = "responding" /\ task'[b] = "lastResponding"
      BY <2>2, <2>4, Aborted DEF AbortAll
    <3>2. EffectInv'
      BY <2>1, <3>1 DEF EffectInv, Effect, Before
    <3>3. ServeInv'
      BY <2>4, <3>1 DEF ServeInv
    <3>4. LastInv'
      BY <2>1, <2>2, <3>1 DEF LastInv, ServeInv
    <3>5. RegistryIsExact'
      BY <2>2, <3>1 DEF RegistryIsExact, Running
    <3>6. ShutdownQuiesces'
      BY <2>1 DEF ShutdownQuiesces
    <3> QED
      BY <3>2, <3>3, <3>4, <3>5, <3>6
  <2>5. CASE serve' = "answering"
    <3>1. /\ requests' = requests \ {c} /\ UNCHANGED <<current, joining>>
          /\ canceller[c] # "none"
          /\ \A b \in Call : b # c \/ c \notin requests => task'[b] = task[b]
          /\ c \in requests =>
               \/ task'[c] = "aborted"
               \/ task[c] = "handling" /\ task'[c] = "lastHandling"
               \/ task[c] = "responding" /\ task'[c] = "lastResponding"
      <4>1. Abort(Target(c)) /\ Target(c) \in SUBSET Call
        BY <2>2, <2>5 DEF Target
      <4> QED
        BY <2>2, <2>5, <4>1, Aborted DEF Target, CancelInv
    <3>2. EffectInv'
      BY <2>1, <3>1 DEF EffectInv, Effect, Before
    <3>3. ServeInv'
      BY <2>2, <3>1 DEF ServeInv, Stopping, Running, RegistryIsExact
    <3>4. LastInv'
      BY <2>1, <3>1 DEF LastInv
    <3>5. RegistryIsExact'
      BY <2>2, <3>1 DEF RegistryIsExact, Running
    <3>6. ShutdownQuiesces'
      BY <2>1 DEF ShutdownQuiesces
    <3> QED
      BY <3>2, <3>3, <3>4, <3>5, <3>6
  <2> QED
    BY <2>2, <2>3, <2>4, <2>5
<1>7. ASSUME Register PROVE WorkInv'
  <2>1. EffectInv'
    BY <1>7 DEF Register, EffectInv, Effect, Before, ServeInv
  <2>2. ServeInv'
    BY <1>7 DEF Register, ServeInv, Stopping, Live, Running
  <2>3. LastInv'
    BY <1>7 DEF Register, LastInv, clientVars
  <2>4. RegistryIsExact'
    <3>1. task[current] = "gated" /\ serve = "registering" /\ current \in Call
      BY <1>7 DEF Register, ServeInv
    <3> QED
      BY <1>7, <3>1 DEF Register, RegistryIsExact, Running
  <2>5. ShutdownQuiesces'
    BY <1>7 DEF Register, ShutdownQuiesces, clientVars
  <2> QED
    BY <2>1, <2>2, <2>3, <2>4, <2>5
<1>8. ASSUME Reply PROVE WorkInv'
  <2>1. EffectInv'
    BY <1>8 DEF Reply, EffectInv, Effect
  <2>2. ServeInv'
    BY <1>8 DEF Reply, ServeInv, Stopping
  <2>3. LastInv'
    BY <1>8 DEF Reply, LastInv, clientVars
  <2>4. RegistryIsExact'
    BY <1>8 DEF Reply, RegistryIsExact
  <2>5. ShutdownQuiesces'
    BY <1>8 DEF Reply, ShutdownQuiesces, clientVars
  <2> QED
    BY <2>1, <2>2, <2>3, <2>4, <2>5
<1>9. ASSUME Stopped PROVE WorkInv'
  <2>1. EffectInv'
    BY <1>9 DEF Stopped, EffectInv, Effect
  <2>2. ServeInv'
    BY <1>9 DEF Stopped, ServeInv, Stopping, Joined
  <2>3. LastInv'
    BY <1>9 DEF Stopped, LastInv, clientVars
  <2>4. RegistryIsExact'
    BY <1>9 DEF Stopped, RegistryIsExact
  <2>5. ShutdownQuiesces'
    BY <1>9 DEF Stopped, ShutdownQuiesces, clientVars
  <2> QED
    BY <2>1, <2>2, <2>3, <2>4, <2>5
<1>10. ASSUME EndOfRequests PROVE WorkInv'
  <2>1. /\ serve = "reading" /\ serve' = "closing"
        /\ requests' = {} /\ joining' = requests
        /\ UNCHANGED <<current, pool, effects, late, canceller>>
        /\ \A b \in Call \ requests : task'[b] = task[b]
        /\ \A b \in requests :
             \/ task'[b] = "aborted"
             \/ task[b] = "handling" /\ task'[b] = "lastHandling"
             \/ task[b] = "responding" /\ task'[b] = "lastResponding"
    BY <1>10, Aborted DEF EndOfRequests, AbortAll, clientVars
  <2>2. EffectInv'
    BY <2>1 DEF EffectInv, Effect, Before
  <2>3. ServeInv'
    BY <2>1 DEF ServeInv, RegistryIsExact, Running
  <2>4. LastInv'
    BY <2>1 DEF LastInv, ServeInv
  <2>5. RegistryIsExact'
    BY <2>1 DEF RegistryIsExact, Running
  <2>6. ShutdownQuiesces'
    BY <2>1 DEF ShutdownQuiesces
  <2> QED
    BY <2>2, <2>3, <2>4, <2>5, <2>6
<1>11. ASSUME Exit PROVE WorkInv'
  <2>1. EffectInv'
    BY <1>11 DEF Exit, EffectInv, Effect, Before, Live, Running
  <2>2. ServeInv'
    BY <1>11 DEF Exit, ServeInv, Stopping, Live, Running
  <2>3. LastInv'
    BY <1>11 DEF Exit, LastInv, clientVars
  <2>4. RegistryIsExact'
    BY <1>11 DEF Exit, RegistryIsExact
  <2>5. ShutdownQuiesces'
    BY <1>11 DEF Exit, ShutdownQuiesces, clientVars
  <2> QED
    BY <2>1, <2>2, <2>3, <2>4, <2>5
<1>12. ASSUME NEW c \in Call, PoolRuns(c) PROVE WorkInv'
  <2>1. EffectInv'
    BY <1>12 DEF PoolRuns, EffectInv, Effect, Before
  <2>2. ServeInv'
    BY <1>12 DEF PoolRuns, ServeInv, Live, Running
  <2>3. LastInv'
    BY <1>12 DEF PoolRuns, LastInv, clientVars
  <2>4. RegistryIsExact'
    BY <1>12 DEF PoolRuns, RegistryIsExact, Running
  <2>5. ShutdownQuiesces'
    BY <1>12 DEF PoolRuns, ShutdownQuiesces, clientVars
  <2> QED
    BY <2>1, <2>2, <2>3, <2>4, <2>5
<1>13. ASSUME ProcessEnds PROVE WorkInv'
  <2>1. EffectInv'
    BY <1>13 DEF ProcessEnds, EffectInv, Effect, Before, ServeInv, Live, Running
  <2>2. ServeInv' /\ RegistryIsExact'
    BY <1>13 DEF ProcessEnds, ServeInv, RegistryIsExact
  <2>3. LastInv' /\ ShutdownQuiesces'
    BY <1>13 DEF ProcessEnds, LastInv, ShutdownQuiesces, clientVars
  <2> QED
    BY <2>1, <2>2, <2>3
<1> QED
  BY <1>1, <1>2, <1>3, <1>4, <1>5, <1>6, <1>7, <1>8, <1>9, <1>10, <1>11,
     <1>12, <1>13
  DEF TaskStep, ServeStep
-----------------------------------------------------------------------------
(* What a step does to a direction when it queues nothing there. *)
Apart(q, w) ==
  /\ OnceEach(q) /\ OnceEach(w)
  /\ \A c \in Call : ~(Holds(q, "request", c) /\ Holds(w, "request", c))

Flows(d) ==
  /\ \A kind, c : Holds(queue'[d], kind, c) => Holds(queue[d], kind, c)
  /\ \A kind, c : Holds(wire'[d], kind, c) =>
       Holds(wire[d], kind, c) \/ Holds(queue[d], kind, c)
  /\ Apart(queue[d], wire[d]) => Apart(queue'[d], wire'[d])

\* A direction that is left alone flows.
LEMMA FlowsSame ==
  ASSUME NEW d \in Direction, queue'[d] = queue[d], wire'[d] = wire[d]
  PROVE  Flows(d)
BY DEF Flows

\* Frames are written in order, each once.
LEMMA FlowsWrite ==
  ASSUME TypeOK, NEW e \in Direction, WriteFrame(e), NEW d \in Direction
  PROVE  Flows(d)
<1>1. CASE d # e
  BY <1>1, Written, FlowsSame
<1>2. CASE d = e
  <2> DEFINE q == queue[d]
             w == wire[d]
  <2>1. /\ q \in Seq(Frame) /\ w \in Seq(Frame) /\ q # <<>>
        /\ Head(q) \in Frame /\ Head(q).call \in Call
    BY <1>2, HeadTypes DEF WriteFrame, TypeOK, LineOK
  <2>2. queue'[d] = Tail(q) /\ wire'[d] = Append(w, Head(q))
    BY <1>2 DEF WriteFrame, TypeOK, LineOK
  <2> HIDE DEF q, w
  <2>3. /\ \A kind, c : Holds(q, kind, c) <=>
             (Head(q).kind = kind /\ Head(q).call = c) \/ Holds(Tail(q), kind, c)
        /\ \A kind, c : Holds(Append(w, Head(q)), kind, c) <=>
             Holds(w, kind, c) \/ (Head(q).kind = kind /\ Head(q).call = c)
    BY <2>1, HoldsHead, HoldsAppend
  <2>4. ASSUME Apart(q, w) PROVE Apart(Tail(q), Append(w, Head(q)))
    <3>1. /\ OnceEach(Tail(q))
          /\ Head(q).kind = "request" => ~Holds(Tail(q), "request", Head(q).call)
      BY <2>1, <2>4, OnceTail DEF Apart
    <3>2. OnceEach(Append(w, Head(q)))
      BY <2>1, <2>3, <2>4, OnceAppend DEF Apart
    <3> QED
      BY <2>3, <2>4, <3>1, <3>2 DEF Apart
  <2>5. /\ \A kind, c : Holds(queue'[d], kind, c) => Holds(q, kind, c)
        /\ \A kind, c : Holds(wire'[d], kind, c) => Holds(w, kind, c) \/ Holds(q, kind, c)
        /\ Apart(q, w) => Apart(queue'[d], wire'[d])
    BY <2>2, <2>3, <2>4
  <2> USE DEF q, w
  <2> QED
    BY <2>5 DEF Flows
<1> QED
  BY <1>1, <1>2

\* A frame read is a frame less.
LEMMA FlowsTake ==
  ASSUME TypeOK, NEW d \in Direction, wire[d] # <<>>,
         wire' = [wire EXCEPT ![d] = Tail(@)], queue'[d] = queue[d]
  PROVE  Flows(d)
<1>1. wire[d] \in Seq(Frame) /\ wire'[d] = Tail(wire[d])
  BY DEF TypeOK, LineOK
<1>2. /\ \A kind, c : Holds(wire'[d], kind, c) => Holds(wire[d], kind, c)
      /\ OnceEach(wire[d]) => OnceEach(wire'[d])
  BY <1>1, HoldsHead, OnceTail
<1> QED
  BY <1>2 DEF Flows, Apart

\* A writer that stops, and a link that is lost, repeat nothing.
LEMMA FlowsLost ==
  ASSUME TypeOK, NEW d \in Direction,
         LinkLost \/ \E e \in Direction : WriterStops(e)
  PROVE  Flows(d)
<1>1. CASE LinkLost
  <2>1. PICK keep \in [Direction -> 0..WireCap] :
          wire' = [e \in Direction |-> Cut(wire[e], keep[e])]
    BY <1>1 DEF LinkLost
  <2>2. wire[d] \in Seq(Frame) /\ keep[d] \in Nat /\ wire'[d] = Cut(wire[d], keep[d])
    BY <2>1 DEF TypeOK, LineOK
  <2>3. /\ \A kind, c : Holds(wire'[d], kind, c) => Holds(wire[d], kind, c)
        /\ OnceEach(wire[d]) => OnceEach(wire'[d])
    BY <2>2, HoldsCut
  <2> QED
    BY <1>1, <2>3 DEF Flows, Apart, LinkLost
<1>2. ASSUME NEW e \in Direction, WriterStops(e) PROVE Flows(d)
  <2>1. /\ wire' = wire
        /\ queue'[d] = queue[d] \/ queue'[d] = <<>>
    BY <1>2 DEF WriterStops, TypeOK, LineOK
  <2> QED
    BY <2>1, HoldsNothing DEF Flows, Apart
<1> QED
  BY <1>1, <1>2

\* Only four actions put a frame into a queue.
LEMMA FlowStep ==
  ASSUME TypeOK, [Next]_vars
  PROVE  /\ Flows("up") \/ \E c \in Call : QueueRequest(c) \/ QueueCancel(c)
         /\ Flows("down") \/ Reply \/ \E c \in Call : Respond(c) \/ LastPoll(c)
<1> USE FrameTypes
<1>1. ASSUME UNCHANGED <<queue, wire>> PROVE Flows("up") /\ Flows("down")
  BY <1>1, FlowsSame
<1>2. ASSUME NEW c \in Call, QueueRequest(c) \/ QueueCancel(c) PROVE Flows("down")
  BY <1>2, FlowsSame DEF QueueRequest, QueueCancel, Enqueue, TypeOK, LineOK
<1>3. ASSUME Reply \/ \E c \in Call : Respond(c) \/ LastPoll(c) PROVE Flows("up")
  <2>1. wire'["up"] = wire["up"] /\ queue'["up"] = queue["up"]
    BY <1>3 DEF Reply, Respond, LastPoll, Enqueue, TypeOK, LineOK
  <2> QED
    BY <2>1, FlowsSame
<1>4. ASSUME Accept PROVE Flows("up") /\ Flows("down")
  <2>1. /\ wire["up"] # <<>> /\ wire' = [wire EXCEPT !["up"] = Tail(@)]
        /\ UNCHANGED queue /\ wire'["down"] = wire["down"]
    BY <1>4 DEF Accept, TypeOK, LineOK
  <2> QED
    BY <2>1, FlowsTake, FlowsSame
<1>5. ASSUME RouteResponse PROVE Flows("up") /\ Flows("down")
  <2>1. /\ wire["down"] # <<>> /\ wire' = [wire EXCEPT !["down"] = Tail(@)]
        /\ UNCHANGED queue /\ wire'["up"] = wire["up"]
    BY <1>5 DEF RouteResponse, TypeOK, LineOK
  <2> QED
    BY <2>1, FlowsTake, FlowsSame
<1>6. ASSUME LinkLost \/ \E d \in Direction : WriteFrame(d) \/ WriterStops(d)
      PROVE  Flows("up") /\ Flows("down")
  BY <1>6, FlowsWrite, FlowsLost
<1>7. ASSUME NEW c \in Call,
             \/ Make(c) \/ SendFails(c) \/ Arm(c) \/ Return(c)
             \/ DropInSend(c) \/ DropWaiting(c) \/ Handle(c) \/ PoolRuns(c) \/ Finish(c)
      PROVE  UNCHANGED <<queue, wire>>
  BY <1>7 DEF Make, SendFails, Arm, Return, DropInSend, DropWaiting, Handle, PoolRuns, Finish,
     lineVars
<1>8. RoutingEnds \/ Register \/ Stopped \/ EndOfRequests \/ Exit \/ ProcessEnds
        \/ UNCHANGED vars
      => UNCHANGED <<queue, wire>>
  BY DEF RoutingEnds, Register, Stopped, EndOfRequests, Exit, ProcessEnds, vars, lineVars
<1> QED
  BY <1>1, <1>2, <1>3, <1>4, <1>5, <1>6, <1>7, <1>8
  DEF Next, CallStep, TaskStep, ServeStep
-----------------------------------------------------------------------------
(* How far a step moves a call, its task and its effect. *)

\* A request once sent is not unsent, a cancel not taken back, and a call
\* returns Ok on an answer that was routed to it.
LEMMA CallMoves ==
  ASSUME TypeOK, [Next]_vars, NEW c \in Call
  PROVE  /\ canceller'[c] = "none" => canceller[c] = "none"
         /\ call'[c] \in {"idle", "sending"} => call[c] \in {"idle", "sending"}
         /\ call'[c] = "ok" => call[c] = "ok" \/ answer[c] = "sent"
         /\ answer'[c] = "sent" =>
              answer[c] = "sent" \/ Holds(wire["down"], "response", c)
<1> DEFINE Moves == /\ canceller'[c] = "none" => canceller[c] = "none"
                    /\ call'[c] \in {"idle", "sending"} => call[c] \in {"idle", "sending"}
                    /\ call'[c] = "ok" => call[c] = "ok" \/ answer[c] = "sent"
                    /\ answer'[c] = "sent" =>
                         answer[c] = "sent" \/ Holds(wire["down"], "response", c)
<1>1. ASSUME NEW b \in Call, CallStep(b) PROVE Moves
  <2> USE DEF TypeOK, ClientOK
  <2>1. ASSUME Make(b) PROVE Moves
    BY <2>1 DEF Make
  <2>2. ASSUME QueueRequest(b) PROVE Moves
    BY <2>2 DEF QueueRequest
  <2>3. ASSUME SendFails(b) PROVE Moves
    BY <2>3 DEF SendFails
  <2>4. ASSUME Arm(b) PROVE Moves
    BY <2>4 DEF Arm
  <2>5. ASSUME Return(b) PROVE Moves
    BY <2>5 DEF Return
  <2>6. ASSUME DropInSend(b) PROVE Moves
    BY <2>6 DEF DropInSend
  <2>7. ASSUME DropWaiting(b) PROVE Moves
    BY <2>7 DEF DropWaiting
  <2>8. ASSUME QueueCancel(b) PROVE Moves
    BY <2>8 DEF QueueCancel
  <2> QED
    BY <1>1, <2>1, <2>2, <2>3, <2>4, <2>5, <2>6, <2>7, <2>8 DEF CallStep
<1>2. ASSUME UNCHANGED clientVars PROVE Moves
  BY <1>2 DEF clientVars
<1>3. ASSUME NEW b \in Call, TaskStep(b) PROVE UNCHANGED clientVars
  BY <1>3 DEF TaskStep, Handle, PoolRuns, Respond, Finish, LastPoll
<1>4. ASSUME ServeStep PROVE UNCHANGED clientVars
  BY <1>4 DEF ServeStep, Accept, Register, Reply, Stopped, EndOfRequests, Exit, ProcessEnds
<1>5. ASSUME NEW d \in Direction, WriteFrame(d) PROVE Moves
  <2>1. UNCHANGED <<canceller, answer>>
    BY <1>5 DEF WriteFrame
  <2>2. call'[c] = call[c] \/ (call[c] = "queued" /\ call'[c] = "written")
    BY <1>5, Written
  <2> QED
    BY <2>1, <2>2
<1>6. ASSUME NEW d \in Direction, WriterStops(d) PROVE UNCHANGED clientVars
  BY <1>6 DEF WriterStops
<1>7. ASSUME RouteResponse PROVE Moves
  <2>1. wire["down"] \in Seq(Frame) /\ wire["down"] # <<>>
    BY <1>7, FrameTypes DEF RouteResponse, TypeOK, LineOK
  <2>2. c \in Addressee(Head(wire["down"])) => Holds(wire["down"], "response", c)
    BY <2>1, HoldsHead DEF Addressee
  <2> QED
    BY <1>7, <2>2 DEF RouteResponse
<1>8. ASSUME RoutingEnds PROVE Moves
  BY <1>8 DEF RoutingEnds
<1>9. ASSUME LinkLost \/ UNCHANGED vars PROVE UNCHANGED clientVars
  BY <1>9 DEF LinkLost, vars
<1> QED
  BY <1>1, <1>2, <1>3, <1>4, <1>5, <1>6, <1>7, <1>8, <1>9 DEF Next

\* A task starts when its request is accepted; an effect is not undone.
LEMMA TaskMoves ==
  ASSUME TypeOK, WorkInv, [Next]_vars, NEW c \in Call
  PROVE  /\ task[c] = "none" =>
              \/ task'[c] = "none"
              \/ Accept /\ Head(wire["up"]).kind = "request" /\ Head(wire["up"]).call = c
         /\ effects'[c] = effects[c] \/ effects'[c] = effects[c] + 1
<1> DEFINE Moves == /\ task[c] = "none" => task'[c] = "none"
                    /\ effects'[c] = effects[c] \/ effects'[c] = effects[c] + 1
<1>1. ASSUME UNCHANGED serverVars PROVE Moves
  BY <1>1 DEF serverVars
<1>2. ASSUME NEW b \in Call, CallStep(b) PROVE UNCHANGED serverVars
  BY <1>2 DEF CallStep, Make, QueueRequest, SendFails, Arm, Return, DropInSend, DropWaiting,
     QueueCancel
<1>3. ASSUME NEW b \in Call, TaskStep(b) PROVE Moves
  <2> USE DEF TypeOK, ServerOK
  <2>1. ASSUME Handle(b) PROVE Moves
    BY <2>1 DEF Handle, TakesEffect, HandsOver
  <2>2. ASSUME Respond(b) PROVE Moves
    BY <2>2 DEF Respond
  <2>3. ASSUME Finish(b) PROVE Moves
    BY <2>3 DEF Finish
  <2>4. ASSUME LastPoll(b) PROVE Moves
    BY <2>4 DEF LastPoll, TakesEffect, HandsOver
  <2>5. ASSUME PoolRuns(b) PROVE Moves
    BY <2>5 DEF PoolRuns
  <2> QED
    BY <1>3, <2>1, <2>2, <2>3, <2>4, <2>5 DEF TaskStep
<1>4. ASSUME NEW d \in Direction, WriteFrame(d) PROVE Moves
  BY <1>4, Written DEF WriteFrame
<1>5. ASSUME RouteResponse \/ RoutingEnds \/ LinkLost \/ UNCHANGED vars
              \/ \E d \in Direction : WriterStops(d)
      PROVE  UNCHANGED serverVars
  BY <1>5 DEF RouteResponse, RoutingEnds, LinkLost, WriterStops, vars
<1>6. ASSUME serve = "reading", task[c] = "none" PROVE c \notin requests
  BY <1>6 DEF WorkInv, RegistryIsExact, Running
<1>7. ASSUME Accept
      PROVE  /\ task[c] = "none" =>
                  \/ task'[c] = "none"
                  \/ Head(wire["up"]).kind = "request" /\ Head(wire["up"]).call = c
             /\ effects'[c] = effects[c]
  <2>1. PICK b \in Call :
           /\ serve = "reading" /\ UNCHANGED effects
           /\ \/ /\ Head(wire["up"]).kind = "request" /\ Head(wire["up"]).call = b
                 /\ task' = [task EXCEPT ![b] = "gated"]
              \/ AbortAll
              \/ Abort(Target(b))
    BY <1>7, Accepted
  <2>2. ASSUME NEW some \in SUBSET requests, Abort(some), task[c] = "none"
        PROVE  task'[c] = "none"
    <3>1. some \in SUBSET Call /\ c \notin some
      BY <1>6, <2>1, <2>2 DEF TypeOK, ServerOK
    <3> QED
      BY <2>2, <3>1, Aborted
  <2>3. ASSUME task[c] = "none", task'[c] # "none" PROVE ~AbortAll /\ ~Abort(Target(b))
    BY <2>2, <2>3 DEF AbortAll, Target
  <2> QED
    BY <2>1, <2>3 DEF TypeOK, ServerOK
<1>8. ASSUME Register \/ Reply \/ Stopped \/ Exit \/ ProcessEnds PROVE Moves
  BY <1>8 DEF Register, Reply, Stopped, Exit, ProcessEnds, TypeOK, ServerOK, Live, Running
<1>9. ASSUME EndOfRequests PROVE Moves
  <2>1. requests \in SUBSET Call /\ Abort(requests) /\ serve = "reading" /\ UNCHANGED effects
    BY <1>9 DEF EndOfRequests, AbortAll, TypeOK, ServerOK
  <2> QED
    BY <1>6, <2>1, Aborted
<1> QED
  BY <1>1, <1>2, <1>3, <1>4, <1>5, <1>7, <1>8, <1>9 DEF Next, ServeStep
-----------------------------------------------------------------------------
(* Every step keeps the invariant. *)

\* Requests and cancels, as the frames of the upward direction tell them.
LEMMA RequestsApart == RequestInv => Apart(queue["up"], wire["up"])
BY DEF RequestInv, RequestOnce, Apart

\* The request of a call is on its way once and starts one task.
LEMMA RequestStep ==
  ASSUME TypeOK, WorkInv, RequestInv, [Next]_vars
  PROVE  RequestInv'
<1>1. \A c \in Call : call'[c] \in {"idle", "sending"} => call[c] \in {"idle", "sending"}
  BY CallMoves
<1>2. \A c \in Call :
        task[c] = "none" =>
          \/ task'[c] = "none"
          \/ Accept /\ Head(wire["up"]).kind = "request" /\ Head(wire["up"]).call = c
  BY TaskMoves
<1>3. CASE Flows("up") /\ ~Accept
  <2>1. Apart(queue'["up"], wire'["up"])
    BY <1>3, RequestsApart DEF Flows
  <2> QED
    BY <1>1, <1>2, <1>3, <2>1 DEF Flows, Apart, RequestInv, RequestOnce, Asked
<1>4. CASE Accept
  <2>1. /\ Flows("up")
        /\ wire["up"] \in Seq(Frame) /\ wire["up"] # <<>> /\ wire'["up"] = Tail(wire["up"])
        /\ queue' = queue
    BY <1>4, FlowsTake, FrameTypes DEF Accept, TypeOK, LineOK
  <2>2. Apart(queue'["up"], wire'["up"])
    BY <2>1, RequestsApart DEF Flows
  <2> DEFINE frame == Head(wire["up"])
  <2>3. frame.kind = "request" =>
          /\ Holds(wire["up"], "request", frame.call)
          /\ ~Holds(wire'["up"], "request", frame.call)
    BY <2>1, HoldsHead, OnceTail DEF RequestInv
  <2>4. ASSUME NEW c \in Call, frame.kind = "request", frame.call = c
        PROVE  RequestOnce(c)'
    <3>1. ~Asked(c)' /\ Asked(c)
      BY <2>1, <2>3, <2>4 DEF RequestInv, RequestOnce, Asked
    <3> QED
      BY <1>1, <2>2, <3>1 DEF RequestInv, RequestOnce, Apart
  <2>5. ASSUME NEW c \in Call, ~(frame.kind = "request" /\ frame.call = c)
        PROVE  RequestOnce(c)'
    BY <1>1, <1>2, <2>1, <2>2, <2>5 DEF Flows, Apart, RequestInv, RequestOnce, Asked
  <2> QED
    BY <2>2, <2>4, <2>5 DEF RequestInv, Apart
<1>5. ASSUME NEW b \in Call, QueueRequest(b) PROVE RequestInv'
  <2>1. /\ Enqueue("up", Msg("request", b)) /\ UNCHANGED <<wire, task>>
        /\ call[b] = "sending" /\ call'[b] = "queued"
    BY <1>5 DEF QueueRequest, TypeOK, ClientOK, serverVars
  <2>2. ~Asked(b) /\ task[b] = "none"
    BY <2>1 DEF RequestInv, RequestOnce
  <2>3. \A c : Holds(queue'["up"], "request", c) <=> Holds(queue["up"], "request", c) \/ c = b
    BY <2>1, Queued, FrameTypes
  <2>4. OnceEach(queue'["up"])
    <3>1. queue["up"] \in Seq(Frame) /\ queue'["up"] = Append(queue["up"], Msg("request", b))
      BY <2>1, FrameTypes DEF TypeOK, LineOK, Enqueue
    <3> QED
      BY <2>2, <3>1, FrameTypes, OnceAppend DEF RequestInv, Asked
  <2>5. ASSUME NEW c \in Call PROVE RequestOnce(c)'
    BY <1>1, <2>1, <2>2, <2>3, <2>5 DEF RequestInv, RequestOnce, Asked
  <2> QED
    BY <2>1, <2>4, <2>5 DEF RequestInv
<1>6. ASSUME NEW b \in Call, QueueCancel(b) PROVE RequestInv'
  <2>1. CASE UNCHANGED queue
    BY <1>6, <2>1 DEF QueueCancel, serverVars, RequestInv, RequestOnce, Asked
  <2>2. CASE Enqueue("up", Msg("cancel", b))
    <3>1. \A c : Holds(queue'["up"], "request", c) <=> Holds(queue["up"], "request", c)
      BY <2>2, Queued, FrameTypes
    <3>2. OnceEach(queue'["up"])
      <4>1. queue["up"] \in Seq(Frame) /\ queue'["up"] = Append(queue["up"], Msg("cancel", b))
        BY <2>2, FrameTypes DEF TypeOK, LineOK, Enqueue
      <4> QED
        BY <4>1, FrameTypes, OnceAppend DEF RequestInv
    <3> QED
      BY <1>6, <3>1, <3>2 DEF QueueCancel, serverVars, RequestInv, RequestOnce, Asked
  <2> QED
    BY <1>6, <2>1, <2>2 DEF QueueCancel
<1> QED
  BY <1>3, <1>4, <1>5, <1>6, FlowStep DEF QueueCancel, QueueRequest

\* A cancel on its way was sent by its call's guard.
LEMMA CancelStep ==
  ASSUME TypeOK, CancelInv, [Next]_vars
  PROVE  CancelInv'
<1>1. \A c \in Call : canceller'[c] = "none" => canceller[c] = "none"
  BY CallMoves
<1>2. CASE Flows("up")
  BY <1>1, <1>2 DEF Flows, CancelInv
<1>3. ASSUME NEW b \in Call, QueueRequest(b) PROVE CancelInv'
  <2>1. \A c : Holds(queue'["up"], "cancel", c) <=> Holds(queue["up"], "cancel", c)
    BY <1>3, Queued, FrameTypes DEF QueueRequest
  <2> QED
    BY <1>1, <1>3, <2>1 DEF QueueRequest, CancelInv
<1>4. ASSUME NEW b \in Call, QueueCancel(b) PROVE CancelInv'
  <2>1. canceller'[b] # "none" /\ UNCHANGED wire
    BY <1>4 DEF QueueCancel, TypeOK, ClientOK
  <2>2. \A c : Holds(queue'["up"], "cancel", c) => Holds(queue["up"], "cancel", c) \/ c = b
    BY <1>4, Queued, FrameTypes DEF QueueCancel
  <2> QED
    BY <1>1, <2>1, <2>2 DEF CancelInv
<1> QED
  BY <1>2, <1>3, <1>4, FlowStep

\* Nothing answers a call before its handler took effect.
LEMMA ResponseStep ==
  ASSUME TypeOK, WorkInv, WorkInv', ResponseInv, [Next]_vars
  PROVE  ResponseInv'
<1>1. \A c \in Call :
        /\ call'[c] = "ok" => call[c] = "ok" \/ answer[c] = "sent"
        /\ answer'[c] = "sent" => answer[c] = "sent" \/ Holds(wire["down"], "response", c)
  BY CallMoves
<1>2. \A c \in Call : effects[c] = 1 => effects'[c] = 1
  <2>1. \A c \in Call : effects'[c] = effects[c] \/ effects'[c] = effects[c] + 1
    BY TaskMoves
  <2>2. \A c \in Call : effects[c] \in {0, 1} /\ effects'[c] \in {0, 1}
    BY DEF WorkInv, EffectInv, Effect
  <2> QED
    BY <2>1, <2>2
<1>3. CASE Flows("down")
  BY <1>1, <1>2, <1>3 DEF Flows, ResponseInv, Answered
<1>4. ASSUME NEW b \in Call, NEW kind \in {"response", "unit"},
             Enqueue("down", Msg(kind, b)), UNCHANGED wire,
             kind = "response" => b \in Shutdowns \/ effects'[b] = 1
      PROVE  ResponseInv'
  <2>1. \A c : Holds(queue'["down"], "response", c) =>
                 Holds(queue["down"], "response", c) \/ (c = b /\ kind = "response")
    BY <1>4, Queued, FrameTypes
  <2> QED
    BY <1>1, <1>2, <1>4, <2>1 DEF ResponseInv, Answered
<1>5. ASSUME Reply PROVE ResponseInv'
  <2>1. /\ UNCHANGED wire /\ current \in Call
        /\ \/ Enqueue("down", Msg("unit", current))
           \/ serve = "saying" /\ Enqueue("down", Msg("response", current))
    BY <1>5 DEF Reply, TypeOK, ServerOK
  <2>2. serve = "saying" => current \in Shutdowns
    BY DEF WorkInv, ServeInv
  <2> QED
    BY <1>4, <2>1, <2>2
<1>6. ASSUME NEW b \in Call, Respond(b) PROVE ResponseInv'
  <2>1. effects[b] = 1
    BY <1>6 DEF Respond, WorkInv, EffectInv, Effect, Before
  <2> QED
    BY <1>2, <1>4, <1>6, <2>1 DEF Respond
<1>7. ASSUME NEW b \in Call, LastPoll(b) PROVE ResponseInv'
  <2>1. CASE UNCHANGED queue
    BY <1>3, <1>7, <2>1, FlowsSame, FrameTypes DEF LastPoll
  <2>2. CASE Enqueue("down", Msg("response", b)) /\ TakesEffect(b) /\ task[b] = "lastHandling"
    <3>1. effects'[b] = 1
      BY <2>2 DEF TakesEffect, WorkInv, EffectInv, Effect, Before, TypeOK, ServerOK
    <3> QED
      BY <1>4, <1>7, <2>2, <3>1 DEF LastPoll
  <2>3. CASE Enqueue("down", Msg("response", b)) /\ task[b] = "lastResponding"
    <3>1. effects'[b] = 1
      BY <1>2, <2>3 DEF WorkInv, EffectInv, Effect, Before
    <3> QED
      BY <1>4, <1>7, <2>3, <3>1 DEF LastPoll
  <2> QED
    BY <1>7, <2>1, <2>2, <2>3 DEF LastPoll
<1> QED
  BY <1>3, <1>5, <1>6, <1>7, FlowStep

\* An entry of the pending map belongs to a call that can still be answered.
LEMMA ReplyStep ==
  ASSUME TypeOK, ReplyInv, [Next]_vars
  PROVE  ReplyInv'
<1> USE DEF TypeOK, ClientOK, ReplyInv, PendingIsOwned, InSend
<1>1. ASSUME NEW c \in Call, CallStep(c) PROVE ReplyInv'
  <2>1. ASSUME Make(c) PROVE ReplyInv'
    BY <2>1 DEF Make
  <2>2. ASSUME QueueRequest(c) PROVE ReplyInv'
    BY <2>2 DEF QueueRequest
  <2>3. ASSUME SendFails(c) PROVE ReplyInv'
    BY <2>3 DEF SendFails
  <2>4. ASSUME Arm(c) PROVE ReplyInv'
    BY <2>4 DEF Arm
  <2>5. ASSUME Return(c) PROVE ReplyInv'
    BY <2>5 DEF Return, Forget
  <2>6. ASSUME DropInSend(c) PROVE ReplyInv'
    BY <2>6 DEF DropInSend
  <2>7. ASSUME DropWaiting(c) PROVE ReplyInv'
    BY <2>7 DEF DropWaiting, Forget
  <2>8. ASSUME QueueCancel(c) PROVE ReplyInv'
    BY <2>8 DEF QueueCancel
  <2> QED
    BY <1>1, <2>1, <2>2, <2>3, <2>4, <2>5, <2>6, <2>7, <2>8 DEF CallStep
<1>2. ASSUME UNCHANGED clientVars PROVE ReplyInv'
  BY <1>2 DEF clientVars
<1>3. ASSUME NEW c \in Call, TaskStep(c) PROVE UNCHANGED clientVars
  BY <1>3 DEF TaskStep, Handle, PoolRuns, Respond, Finish, LastPoll
<1>4. ASSUME ServeStep PROVE UNCHANGED clientVars
  BY <1>4 DEF ServeStep, Accept, Register, Reply, Stopped, EndOfRequests, Exit, ProcessEnds
<1>5. ASSUME NEW d \in Direction, WriteFrame(d) PROVE ReplyInv'
  <2>1. UNCHANGED <<pending, answer, canceller>>
    BY <1>5 DEF WriteFrame
  <2>2. \A c \in Call : call'[c] = call[c] \/ (call[c] = "queued" /\ call'[c] = "written")
    BY <1>5, Written
  <2> QED
    BY <2>1, <2>2
<1>6. ASSUME RouteResponse PROVE ReplyInv'
  BY <1>6 DEF RouteResponse, Addressee
<1>7. ASSUME RoutingEnds PROVE ReplyInv'
  BY <1>7 DEF RoutingEnds, Cleared
<1>8. ASSUME LinkLost \/ UNCHANGED vars \/ \E d \in Direction : WriterStops(d)
      PROVE  UNCHANGED clientVars
  BY <1>8 DEF LinkLost, WriterStops, vars
<1> QED
  BY <1>1, <1>2, <1>3, <1>4, <1>5, <1>6, <1>7, <1>8 DEF Next

\* The worker's invariant is kept by every step, its own and the others'.
LEMMA WorkNext ==
  ASSUME TypeOK, WorkInv, CancelInv, RequestInv, [Next]_vars
  PROVE  WorkInv'
<1>1. ASSUME UNCHANGED serverVars PROVE WorkInv'
  BY <1>1, CallMoves, WorkFrozen
<1>2. ASSUME NEW c \in Call, CallStep(c) PROVE UNCHANGED serverVars
  BY <1>2 DEF CallStep, Make, QueueRequest, SendFails, Arm, Return, DropInSend, DropWaiting,
     QueueCancel
<1>3. ASSUME RouteResponse \/ RoutingEnds \/ LinkLost \/ UNCHANGED vars
              \/ \E d \in Direction : WriterStops(d)
      PROVE  UNCHANGED serverVars
  BY <1>3 DEF RouteResponse, RoutingEnds, LinkLost, WriterStops, vars
<1> QED
  BY <1>1, <1>2, <1>3, WorkStep DEF Next

\* Nothing has been called.
LEMMA InvInit == Init => IInv
<1> SUFFICES ASSUME Init PROVE IInv
  OBVIOUS
<1>1. RequestInv /\ CancelInv /\ ResponseInv
  BY HoldsNothing, FrameTypes
  DEF Init, RequestInv, RequestOnce, Asked, CancelInv, ResponseInv, Answered
<1>2. EffectInv /\ ServeInv /\ LastInv
  BY DEF Init, EffectInv, Effect, Before, ServeInv, Stopping, LastInv
<1>3. ReplyInv /\ RegistryIsExact /\ ShutdownQuiesces
  BY DEF Init, ReplyInv, PendingIsOwned, RegistryIsExact, Running, ShutdownQuiesces
<1> QED
  BY <1>1, <1>2, <1>3 DEF IInv, WorkInv

\* The invariant holds in every behaviour.
THEOREM Invariant == Spec => [](TypeOK /\ IInv)
<1>1. Init => TypeOK /\ IInv
  BY TypeInit, InvInit
<1>2. TypeOK /\ IInv /\ [Next]_vars => (TypeOK /\ IInv)'
  BY TypeStep, RequestStep, CancelStep, ResponseStep, ReplyStep, WorkNext DEF IInv
<1> QED
  BY <1>1, <1>2, PTL DEF Spec
-----------------------------------------------------------------------------
\* A call returns Ok only on its own effect, and takes effect at most once.
THEOREM AnswersCorrect == Spec => []AnswersAreReal
<1>1. IInv => AnswersAreReal
  BY DEF IInv, WorkInv, EffectInv, Effect, ResponseInv, Answered, AnswersAreReal
<1> QED
  BY <1>1, Invariant, PTL

\* The registry is exactly what a Cancel or a Shutdown can still abort.
THEOREM RegistryCorrect == Spec => []RegistryIsExact
<1>1. IInv => RegistryIsExact
  BY DEF IInv, WorkInv
<1> QED
  BY <1>1, Invariant, PTL

\* Behind the answer to Shutdown only handlers of cancelled calls run on; what
\* the blocking pool was given before is not theirs to stop.
THEOREM ShutdownCorrect == Spec => []ShutdownQuiesces
<1>1. IInv => ShutdownQuiesces
  BY DEF IInv, WorkInv
<1> QED
  BY <1>1, Invariant, PTL

\* The pending map holds calls in flight with their reply open, or dropped in
\* their send; a guard that is dropped takes its entry along.
THEOREM PendingCorrect == Spec => []PendingIsOwned
<1>1. IInv => PendingIsOwned
  BY DEF IInv, ReplyInv
<1> QED
  BY <1>1, Invariant, PTL
=============================================================================
