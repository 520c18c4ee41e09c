----------------------------- MODULE WorkerRpc -----------------------------
(***************************************************************************)
(* Calls of the host to its worker (frances-worker: client.rs, server.rs). *)
(* A call enters the map of pending replies, its request is written by the *)
(* connection's writer task, and its future waits on a one-shot channel    *)
(* that the response router fills.  The server runs each request in a task *)
(* of its own, kept in a registry that Cancel and Shutdown abort from.     *)
(*                                                                         *)
(* A call is its request id.  Requests that may run for ever (a wait on a  *)
(* silent shell) are Endless, those that may use the file system Pooled,   *)
(* those that shut the worker down Shutdowns.  What a handler gives to the *)
(* blocking pool goes on when its task is aborted.                         *)
(***************************************************************************)
EXTENDS Naturals, Sequences, FiniteSets

CONSTANTS
  Call,        \* calls; each is made at most once
  Endless,     \* calls whose handler need not finish
  Pooled,      \* calls whose handler may work on the blocking pool
  Shutdowns,   \* calls of Client::shutdown
  QueueCap,    \* capacity of a side's write queue
  WireCap      \* frames a pipe holds before a write blocks

ASSUME RpcAssumption ==
  /\ Call # {}
  /\ Endless \subseteq Call
  /\ Pooled \subseteq Call
  /\ Shutdowns \subseteq Call \ Endless
  /\ QueueCap \in Nat \ {0}
  /\ WireCap \in Nat \ {0}

VARIABLES
  call,        \* where the call's future is, see CallState
  pending,     \* Inner::pending: calls whose reply has a sender
  answer,      \* the call's one-shot reply: "open", "sent" or "cut"
  canceller,   \* the task CancelOnDrop spawns: "none", "sending" or "sent"
  routing,     \* route_responses still runs
  queue,       \* frames waiting for a direction's writer task
  writing,     \* the writer task of a direction still runs
  wire,        \* frames written and not yet read
  linked,      \* the connection is up
  serve,       \* where the serve loop is, see ServeState
  current,     \* the request it is about to register
  task,        \* where the request's task is, see TaskState
  requests,    \* ServerState::requests
  joining,     \* tasks abort_all awaits
  pool,        \* handlers' work given to the blocking pool and not done
  effects,     \* history: times the handler took effect
  late,        \* history: handlers that ran on after Shutdown's answer
  unheard      \* history: requests written when nobody routes responses any more

clientVars == <<call, pending, answer, canceller, routing>>
lineVars   == <<queue, writing, wire, linked>>
serverVars == <<serve, current, task, requests, joining, pool, effects, late, unheard>>
vars == <<clientVars, lineVars, serverVars>>

Direction == {"up", "down"}
Frame == [kind : {"request", "cancel", "response", "unit"}, call : Call]
Msg(kind, c) == [kind |-> kind, call |-> c]

\* sending: waits for room in the write queue; queued: awaits the write;
\* written: it is done; waiting: on the reply, with CancelOnDrop armed.
CallState == {"idle", "sending", "queued", "written", "waiting",
              "ok", "failed", "closed", "dropped"}
InSend == {"sending", "queued", "written"}
Ended  == {"ok", "failed", "closed", "dropped"}

\* pooled: awaits the blocking pool.
\* lastHandling, lastResponding: aborted in the middle of a poll, which runs on.
TaskState == {"none", "gated", "handling", "pooled", "responding", "queued", "written",
              "lastHandling", "lastResponding", "done", "aborted"}
Running == {"gated", "handling", "pooled", "responding", "queued", "written"}
Live == Running \union {"lastHandling", "lastResponding"}

\* answering, answered: the reply to a Cancel; stopping: abort_all of Shutdown,
\* then saying, said: its reply; closing: abort_all behind the loop.
ServeState == {"reading", "registering", "answering", "answered", "stopping",
               "saying", "said", "closing", "exited"}

\* Mutant: an unbounded write queue.
CanQueueUnbounded(d) == writing[d]

CanQueue(d) == writing[d] /\ Len(queue[d]) < QueueCap
Enqueue(d, frame) == queue' = [queue EXCEPT ![d] = Append(@, frame)]

Init ==
  /\ call = [c \in Call |-> "idle"]
  /\ pending = {}
  /\ answer = [c \in Call |-> "open"]
  /\ canceller = [c \in Call |-> "none"]
  /\ routing = TRUE
  /\ queue = [d \in Direction |-> <<>>]
  /\ writing = [d \in Direction |-> TRUE]
  /\ wire = [d \in Direction |-> <<>>]
  /\ linked = TRUE
  /\ serve = "reading"
  /\ current = CHOOSE c \in Call : TRUE
  /\ task = [c \in Call |-> "none"]
  /\ requests = {}
  /\ joining = {}
  /\ pool = {}
  /\ effects = [c \in Call |-> 0]
  /\ late = {}
  /\ unheard = {}
-----------------------------------------------------------------------------
(* Client::call. *)

Make(c) ==
  /\ call[c] = "idle"
  /\ call' = [call EXCEPT ![c] = "sending"]
  /\ pending' = pending \union {c}
  /\ UNCHANGED <<answer, canceller, routing, lineVars, serverVars>>

QueueRequest(c) ==
  /\ call[c] = "sending" /\ CanQueue("up")
  /\ call' = [call EXCEPT ![c] = "queued"]
  /\ Enqueue("up", Msg("request", c))
  /\ UNCHANGED <<pending, answer, canceller, routing, writing, wire, linked, serverVars>>

\* writer.send fails: the entry is taken back.
SendFails(c) ==
  /\ call[c] \in {"sending", "queued"} /\ ~writing["up"]
  /\ call' = [call EXCEPT ![c] = "failed"]
  /\ pending' = pending \ {c}
  /\ UNCHANGED <<answer, canceller, routing, lineVars, serverVars>>

Arm(c) ==
  /\ call[c] = "written"
  /\ call' = [call EXCEPT ![c] = "waiting"]
  /\ UNCHANGED <<pending, answer, canceller, routing, lineVars, serverVars>>

\* Mutant: the guard leaves the entry behind.
Keep(c) == UNCHANGED pending

\* Dropping the armed guard takes the entry back; its Cancel goes out in a task.
Forget(c) == pending' = pending \ {c}

\* A cut reply returns through `?` with the guard still armed.
Return(c) ==
  /\ call[c] = "waiting" /\ answer[c] # "open"
  /\ \/ /\ answer[c] = "sent"
        /\ call' = [call EXCEPT ![c] = "ok"]
        /\ UNCHANGED <<pending, canceller>>
     \/ /\ answer[c] = "cut"
        /\ call' = [call EXCEPT ![c] = "closed"]
        /\ Forget(c)
        /\ canceller' = [canceller EXCEPT ![c] = "sending"]
  /\ UNCHANGED <<answer, routing, lineVars, serverVars>>

\* The caller drops the future.  Before Arm there is no guard to run.
DropInSend(c) ==
  /\ call[c] \in InSend
  /\ call' = [call EXCEPT ![c] = "dropped"]
  /\ UNCHANGED <<pending, answer, canceller, routing, lineVars, serverVars>>

DropWaiting(c) ==
  /\ call[c] = "waiting"
  /\ call' = [call EXCEPT ![c] = "dropped"]
  /\ Forget(c)
  /\ canceller' = [canceller EXCEPT ![c] = "sending"]
  /\ UNCHANGED <<answer, routing, lineVars, serverVars>>

QueueCancel(c) ==
  /\ canceller[c] = "sending"
  /\ canceller' = [canceller EXCEPT ![c] = "sent"]
  /\ \/ CanQueue("up") /\ Enqueue("up", Msg("cancel", c))
     \/ ~writing["up"] /\ UNCHANGED queue
  /\ UNCHANGED <<call, pending, answer, routing, writing, wire, linked, serverVars>>
-----------------------------------------------------------------------------
(* route_responses. *)

\* Mutant: a response goes to whichever call has waited longest, not to its id.
AnyPending(frame) == IF frame.call \in pending THEN {frame.call}
                     ELSE IF pending # {} THEN {CHOOSE c \in pending : TRUE} ELSE {}

Addressee(frame) == IF frame.kind = "response" THEN pending \intersect {frame.call}
                    ELSE {}

RouteResponse ==
  /\ routing /\ wire["down"] # <<>>
  /\ LET to == Addressee(Head(wire["down"])) IN
       /\ pending' = pending \ to
       /\ answer' = [c \in Call |-> IF c \in to THEN "sent" ELSE answer[c]]
  /\ wire' = [wire EXCEPT !["down"] = Tail(@)]
  /\ UNCHANGED <<call, canceller, routing, queue, writing, linked, serverVars>>

\* Mutant: the map is left as it is.
NotCleared == {}

Cleared == pending

\* End of file, or a response that does not decode: every pending reply is cut.
RoutingEnds ==
  /\ routing
  /\ linked => wire["down"] # <<>>
  /\ routing' = FALSE
  /\ pending' = pending \ Cleared
  /\ answer' = [c \in Call |-> IF c \in Cleared THEN "cut" ELSE answer[c]]
  /\ UNCHANGED <<call, canceller, lineVars, serverVars>>
-----------------------------------------------------------------------------
(* The two writer tasks and the link. *)

\* Who the writer task resumes when it has written a frame.
WrittenBy(frame, kind, state, next) ==
  [c \in Call |-> IF frame = Msg(kind, c) /\ state[c] = "queued" THEN next ELSE state[c]]

\* The worker's tasks end with its serve; its half of the link stays up.
WriteFrame(d) ==
  /\ linked /\ writing[d]
  /\ serve = "exited" => d = "up"
  /\ queue[d] # <<>> /\ Len(wire[d]) < WireCap
  /\ LET frame == Head(queue[d]) IN
       /\ wire' = [wire EXCEPT ![d] = Append(@, frame)]
       /\ call' = WrittenBy(frame, "request", call, "written")
       /\ task' = WrittenBy(frame, "response", task, "written")
       /\ serve' = IF serve = "answered" /\ frame.kind = "unit" THEN "reading"
                   ELSE IF serve = "said" /\ frame = Msg("response", current) THEN "closing"
                   ELSE serve
       /\ unheard' = IF ~routing /\ frame.kind = "request" THEN unheard \union {frame.call}
                     ELSE unheard
  /\ queue' = [queue EXCEPT ![d] = Tail(@)]
  /\ UNCHANGED <<pending, answer, canceller, routing, writing, linked, current, requests,
                 joining, pool, effects, late>>

WriterStops(d) ==
  /\ ~linked /\ writing[d] /\ queue[d] # <<>>
  /\ writing' = [writing EXCEPT ![d] = FALSE]
  /\ queue' = [queue EXCEPT ![d] = <<>>]
  /\ UNCHANGED <<clientVars, wire, linked, serverVars>>

Cut(s, n) == SubSeq(s, 1, IF n < Len(s) THEN n ELSE Len(s))

LinkLost ==
  /\ linked
  /\ linked' = FALSE
  /\ \E keep \in [Direction -> 0..WireCap] :
       wire' = [d \in Direction |-> Cut(wire[d], keep[d])]
  /\ UNCHANGED <<clientVars, queue, writing, serverVars>>
-----------------------------------------------------------------------------
(* serve. *)

\* abort: a suspended task is dropped, one in the middle of a poll finishes it.
Abort(some) ==
  \E polled \in SUBSET {c \in some : task[c] \in {"handling", "responding"}} :
    task' = [c \in Call |->
               IF c \notin some THEN task[c]
               ELSE IF c \notin polled THEN "aborted"
               ELSE IF task[c] = "handling" THEN "lastHandling" ELSE "lastResponding"]

\* abort_all: drain the registry, abort, then await each task.
AbortAll == Abort(requests) /\ requests' = {} /\ joining' = requests

Target(c) == {c} \intersect requests

\* Mutant: the task need not wait for its registration.
Ungated == "handling"

AtSpawn == "gated"

Accept ==
  /\ serve = "reading" /\ wire["up"] # <<>>
  /\ wire' = [wire EXCEPT !["up"] = Tail(@)]
  /\ LET frame == Head(wire["up"])
         c == frame.call IN
       \/ /\ frame.kind = "request" /\ c \notin Shutdowns
          /\ serve' = "registering"
          /\ current' = c
          /\ task' = [task EXCEPT ![c] = AtSpawn]
          /\ UNCHANGED <<requests, joining>>
       \/ /\ frame.kind = "request" /\ c \in Shutdowns
          /\ serve' = "stopping"
          /\ current' = c
          /\ AbortAll
       \/ /\ frame.kind = "cancel"
          /\ serve' = "answering"
          /\ requests' = requests \ {c}
          /\ Abort(Target(c))
          /\ UNCHANGED <<current, joining>>
  /\ UNCHANGED <<clientVars, queue, writing, linked, pool, effects, late, unheard>>

\* The task enters the registry before it is let off.
Register ==
  /\ serve = "registering"
  /\ serve' = "reading"
  /\ requests' = requests \union {current}
  /\ task' = [task EXCEPT ![current] = IF @ = "gated" THEN "handling" ELSE @]
  /\ UNCHANGED <<clientVars, lineVars, current, joining, pool, effects, late, unheard>>

Reply ==
  /\ CanQueue("down")
  /\ \/ serve = "answering" /\ serve' = "answered" /\ Enqueue("down", Msg("unit", current))
     \/ serve = "saying" /\ serve' = "said" /\ Enqueue("down", Msg("response", current))
  /\ UNCHANGED <<clientVars, writing, wire, linked, current, task, requests, joining,
                 pool, effects, late, unheard>>

\* Mutant: abort_all does not await the tasks it aborted.
NotAwaited == TRUE

Joined == \A c \in joining : task[c] \notin Live

Stopped ==
  /\ serve = "stopping" /\ Joined
  /\ serve' = "saying"
  /\ UNCHANGED <<clientVars, lineVars, current, task, requests, joining, pool, effects, late, unheard>>

EndOfRequests ==
  /\ serve = "reading" /\ ~linked /\ wire["up"] = <<>>
  /\ serve' = "closing"
  /\ AbortAll
  /\ UNCHANGED <<clientVars, lineVars, current, pool, effects, late, unheard>>

\* serve returns, at once when a reply cannot be written, and main with it.
Exit ==
  /\ \/ serve = "closing" /\ Joined
     \/ serve \in {"answering", "answered", "saying", "said"} /\ ~writing["down"]
  /\ serve' = "exited"
  /\ task' = [c \in Call |-> IF task[c] \in Live THEN "aborted" ELSE task[c]]
  /\ UNCHANGED <<clientVars, lineVars, current, requests, joining, pool, effects, late, unheard>>
-----------------------------------------------------------------------------
(* A request's task. *)

AfterShutdown == serve \in {"saying", "said", "closing", "exited"} /\ current \in Shutdowns

\* A poll of the handler does its work, or hands it to the blocking pool.
TakesEffect(c) ==
  /\ effects' = [effects EXCEPT ![c] = @ + 1]
  /\ UNCHANGED pool
HandsOver(c) ==
  /\ c \in Pooled
  /\ pool' = pool \union {c}
  /\ UNCHANGED effects
RunsOn(c) == late' = IF AfterShutdown THEN late \union {c} ELSE late

Handle(c) ==
  /\ task[c] = "handling"
  /\ \/ TakesEffect(c) /\ task' = [task EXCEPT ![c] = "responding"]
     \/ HandsOver(c) /\ task' = [task EXCEPT ![c] = "pooled"]
  /\ RunsOn(c)
  /\ UNCHANGED <<clientVars, lineVars, serve, current, requests, joining, unheard>>

\* The pool's threads know nothing of aborted tasks, nor of the end of serve.
PoolRuns(c) ==
  /\ c \in pool
  /\ pool' = pool \ {c}
  /\ effects' = [effects EXCEPT ![c] = @ + 1]
  /\ task' = [task EXCEPT ![c] = IF @ = "pooled" THEN "responding" ELSE @]
  /\ UNCHANGED <<clientVars, lineVars, serve, current, requests, joining, late, unheard>>

Respond(c) ==
  /\ task[c] = "responding" /\ CanQueue("down")
  /\ task' = [task EXCEPT ![c] = "queued"]
  /\ Enqueue("down", Msg("response", c))
  /\ UNCHANGED <<clientVars, writing, wire, linked, serve, current, requests, joining,
                 pool, effects, late, unheard>>

\* The response is written, or cannot be: the error is ignored.
Finish(c) ==
  /\ \/ task[c] = "written"
     \/ task[c] \in {"responding", "queued"} /\ ~writing["down"]
  /\ task' = [task EXCEPT ![c] = "done"]
  /\ requests' = requests \ {c}
  /\ UNCHANGED <<clientVars, lineVars, serve, current, joining, pool, effects, late, unheard>>

\* The poll during which the task was aborted runs to its next await.
LastPoll(c) ==
  /\ \/ task[c] = "lastHandling" /\ HandsOver(c) /\ RunsOn(c) /\ UNCHANGED queue
     \/ /\ \/ task[c] = "lastHandling" /\ TakesEffect(c) /\ RunsOn(c)
           \/ task[c] = "lastResponding" /\ UNCHANGED <<pool, effects, late>>
        /\ \/ CanQueue("down") /\ Enqueue("down", Msg("response", c))
           \/ UNCHANGED queue
  /\ task' = [task EXCEPT ![c] = "aborted"]
  /\ UNCHANGED <<clientVars, writing, wire, linked, serve, current, requests, joining,
                 unheard>>

\* Dropping the runtime waits for what the pool has begun; the rest is never done.
ProcessEnds ==
  /\ serve = "exited" /\ linked
  /\ linked' = FALSE
  /\ pool' = {}
  /\ UNCHANGED <<clientVars, queue, writing, wire, serve, current, task, requests, joining,
                 effects, late, unheard>>
-----------------------------------------------------------------------------
CallStep(c) == \/ Make(c) \/ QueueRequest(c) \/ SendFails(c) \/ Arm(c) \/ Return(c)
               \/ DropInSend(c) \/ DropWaiting(c) \/ QueueCancel(c)
TaskStep(c) == Handle(c) \/ PoolRuns(c) \/ Respond(c) \/ Finish(c) \/ LastPoll(c)
ServeStep == Accept \/ Register \/ Reply \/ Stopped \/ EndOfRequests \/ Exit \/ ProcessEnds

Next == \/ \E c \in Call : CallStep(c) \/ TaskStep(c)
        \/ \E d \in Direction : WriteFrame(d) \/ WriterStops(d)
        \/ RouteResponse \/ RoutingEnds \/ LinkLost \/ ServeStep

Spec == Init /\ [][Next]_vars

(***************************************************************************)
(* Tasks are polled again when what they await is ready; a write queue     *)
(* serves its waiting senders in order, hence SF where several compete.    *)
(* Handlers finish unless they are Endless, and so does work on the pool.  *)
(* A process whose serve has returned ends.  Calls, drops, the loss of the *)
(* link and undecodable responses are the environment's choice.            *)
(***************************************************************************)
Fairness ==
  /\ \A c \in Call :
       /\ SF_vars(QueueRequest(c)) /\ SF_vars(QueueCancel(c)) /\ SF_vars(Respond(c))
       /\ WF_vars(SendFails(c)) /\ WF_vars(Arm(c)) /\ WF_vars(Return(c))
       /\ WF_vars(Finish(c)) /\ WF_vars(LastPoll(c)) /\ WF_vars(PoolRuns(c))
  /\ \A c \in Call \ Endless : WF_vars(Handle(c))
  /\ \A d \in Direction : WF_vars(WriteFrame(d)) /\ WF_vars(WriterStops(d))
  /\ WF_vars(RouteResponse \/ RoutingEnds)
  /\ SF_vars(Reply)
  /\ WF_vars(Accept) /\ WF_vars(Register) /\ WF_vars(Stopped)
  /\ WF_vars(EndOfRequests) /\ WF_vars(Exit) /\ WF_vars(ProcessEnds)

FairSpec == Spec /\ Fairness
-----------------------------------------------------------------------------
(* Properties. *)

ClientOK ==
  /\ call \in [Call -> CallState]
  /\ pending \subseteq Call
  /\ answer \in [Call -> {"open", "sent", "cut"}]
  /\ canceller \in [Call -> {"none", "sending", "sent"}]
  /\ routing \in BOOLEAN
Bounded(channel, capacity) == \A d \in Direction : Len(channel[d]) <= capacity
LineOK ==
  /\ queue \in [Direction -> Seq(Frame)] /\ Bounded(queue, QueueCap)
  /\ writing \in [Direction -> BOOLEAN]
  /\ wire \in [Direction -> Seq(Frame)] /\ Bounded(wire, WireCap)
  /\ linked \in BOOLEAN
ServerOK ==
  /\ serve \in ServeState
  /\ current \in Call
  /\ task \in [Call -> TaskState]
  /\ requests \subseteq Call
  /\ joining \subseteq Call
  /\ pool \subseteq Call
  /\ effects \in [Call -> Nat]
  /\ late \subseteq Call /\ unheard \subseteq Call

\* Every variable has its type and every queue and pipe stays within its bounds.
TypeOK == ClientOK /\ LineOK /\ ServerOK

\* A call returns Ok only if the worker has handled that very call, and no
\* call is handled twice, whatever is cancelled, aborted or lost.
AnswersAreReal ==
  \A c \in Call : /\ effects[c] <= 1
                  /\ call[c] = "ok" /\ c \notin Shutdowns => effects[c] = 1

\* The registry names exactly the tasks that can still be aborted, but for the
\* one about to be entered: none escapes a later Cancel, none is leaked.
RegistryIsExact ==
  serve # "exited" =>
    \A c \in Call : c \in requests <=>
      task[c] \in Running /\ ~(serve = "registering" /\ c = current)

\* Behind the answer to Shutdown no handler runs on unless its caller had
\* cancelled it: none opens a shell or a process that was not collected
\* ("Finish in-flight startup before collecting", server.rs).  What a handler
\* has given to the blocking pool by then may still be done, abort or not.
ShutdownQuiesces == \A c \in late : canceller[c] # "none"

\* An entry of the pending map belongs to a call in flight, or to one that was
\* dropped in its send, before there was a guard to take the entry back.
PendingIsOwned ==
  \A c \in pending :
    /\ answer[c] = "open"
    /\ \/ call[c] \in InSend \union {"waiting"}
       \/ call[c] = "dropped" /\ canceller[c] = "none"

\* Whoever dies first and whatever is shut down or given up, a call comes to
\* an end, unless its handler runs for ever, or its request was written when a
\* response that does not decode had ended the routing of a link still up.
CallEnds ==
  \A c \in Call :
    call[c] \in InSend \union {"waiting"} ~>
      \/ call[c] \in Ended
      \/ c \in Endless /\ task[c] = "handling"
      \/ c \in unheard /\ answer[c] = "open"
=============================================================================
