---------------------------- MODULE WorkerShell ----------------------------
(***************************************************************************)
(* One shell on the worker and the host that uses it (frances-shell,       *)
(* frances-worker: client.rs and server.rs, frances-harness: tools/        *)
(* shell.rs).  On the worker an actor owns the shell: it takes commands    *)
(* from the tasks of the host's calls, and during a wait it moves what the *)
(* running command writes into the shell's output feed.  On the host one   *)
(* tool call at a time starts, watches, kills or sets variables.           *)
(*                                                                         *)
(* WorkerRpc and FeedTransport model the connection; here it is the least  *)
(* that shell and host can feel of it: calls arrive in order, the worker's *)
(* frames share one bounded line, and the host's reader stops at a feed    *)
(* frame its inbound channel has no room for.                              *)
(***************************************************************************)
EXTENDS Naturals, Sequences, FiniteSets, SequencesExt

CONSTANTS
  MaxRuns,   \* bound: commands the host starts
  MaxCalls,  \* bound: calls the host makes
  MaxSets,   \* bound: those of them that set or get a variable
  MaxReads,  \* bound: those that have nothing to do with the shell
  Chunks,    \* bound: pieces of output one command writes
  PipeCap,   \* pieces a command's stdout pipe holds
  LocalCap,  \* FEED_CAPACITY, at the worker's end of the feed
  LineCap,   \* frames between the worker's tasks and the host's reader
  InboxCap   \* FEED_CAPACITY, at the host's end

ASSUME ShellAssumption ==
  /\ {MaxRuns, MaxCalls, MaxSets, MaxReads, Chunks} \subseteq Nat
  /\ {PipeCap, LocalCap, LineCap, InboxCap} \subseteq Nat \ {0}

VARIABLES
  op,        \* what the host's tool call does, see Op
  view,      \* Tools::shell_view: a command is taken to be running
  run,       \* the last run the host started
  calls,     \* the calls made; a call is its index
  got,       \* the reply to the last call, or "none"
  seen,      \* history: the pieces of a run's output the host has read
  verdict,   \* history: how a run ended for the host
  feed,      \* the output feed: "open", "dropped", or "cancelled" at the worker
  inbox,     \* its inbound channel on the host
  up,        \* requests and cancels on their way to serve
  line,      \* the worker's frames on their way to the host
  serve,     \* the serve loop: "reading" or "answering" a cancel
  task,      \* the task of a call, see TaskState
  result,    \* what it answers
  commands,  \* ShellResource::commands
  actor,     \* run_shell and actor_wait, see ActorState
  serving,   \* the wait the actor serves
  outcome,   \* what the wait has come to
  hand,      \* the item send_output waits to send (at most one)
  events,    \* ReadEvents not yet turned into items
  local,     \* the feed's local channel
  sink,      \* Shell::output_sink is set
  flight,    \* the run that is Shell::in_flight, or 0
  proc,      \* the last run's process: "none", "alive", "exit" or "dead"
  emitted,   \* history: pieces a run has written
  unread,    \* pieces in the stdout pipe
  captured   \* runs whose cwd and environment were read back

hostVars  == <<op, view, run, calls, got, seen, verdict>>
feedVars  == <<feed, inbox, local>>
lineVars  == <<up, line, serve>>
taskVars  == <<task, result, commands>>
actorVars == <<actor, serving, outcome, hand, events>>
shellVars == <<sink, flight, proc, emitted, unread, captured>>
vars == <<hostVars, feedVars, lineVars, taskVars, actorVars, shellVars>>

Run  == 1..MaxRuns
Call == 1..MaxCalls
Kind == {"run", "wait", "kill", "set", "read"}
Op   == {"none", "running", "waiting", "draining", "killing", "setting", "reading"}

\* spawned: before `commands.send`; asking: awaits the actor's reply; lastAsk:
\* aborted in the middle of the poll that sends the command.
TaskState == {"none", "spawned", "lastAsk", "asking", "answering", "over"}

\* waiting, reaping: the select loop of actor_wait, before and behind the end of
\* the command; flushing: what follows the loop; gone: run_shell has returned.
ActorState == {"idle", "waiting", "reaping", "flushing", "gone"}

\* Item 0 of a run is its exit marker, item n its n-th piece of output.
Item == [run : Run, n : 0..Chunks]
Result == {"ok", "busy", "quiet", "exit", "fail"}

Frame == [kind : {"item"}, item : Item]
           \union [kind : {"response"}, call : Call, result : Result]
           \union [kind : {"unit"}]
ItemFrame(item) == [kind |-> "item", item |-> item]
ResponseFrame(c, r) == [kind |-> "response", call |-> c, result |-> r]
UnitFrame == [kind |-> "unit"]

Init ==
  /\ op = "none" /\ view = FALSE /\ run = 0
  /\ calls = <<>> /\ got = "none"
  /\ seen = [r \in Run |-> <<>>]
  /\ verdict = [r \in Run |-> "open"]
  /\ feed = "open" /\ inbox = <<>> /\ local = <<>>
  /\ up = <<>> /\ line = <<>> /\ serve = "reading"
  /\ task = [c \in Call |-> "none"]
  /\ result = [c \in Call |-> "ok"]
  /\ commands = <<>>
  /\ actor = "idle" /\ serving = 0 /\ outcome = "ok"
  /\ hand = <<>> /\ events = <<>>
  /\ sink = TRUE /\ flight = 0 /\ proc = "none"
  /\ emitted = [r \in Run |-> 0] /\ unread = 0
  /\ captured = {}
-----------------------------------------------------------------------------
(* Tool calls of the host.  Dropping the future of a call sends a cancel. *)

Request(c) == [kind |-> "request", call |-> c]
Cancel(c)  == [kind |-> "cancel", call |-> c]
Newest == Len(calls)

\* Client::call, behind the frames `before`.
Make(kind, before) ==
  /\ Newest < MaxCalls
  /\ calls' = Append(calls, kind)
  /\ up' = up \o Append(before, Request(Newest + 1))
  /\ got' = "none"

Made(kind) == Cardinality({c \in 1..Newest : calls[c] = kind})

StartRun ==
  /\ op = "none" /\ ~view /\ feed = "open" /\ run < MaxRuns
  /\ Make("run", <<>>)
  /\ op' = "running" /\ view' = TRUE /\ run' = run + 1
  /\ UNCHANGED <<seen, verdict, feedVars, line, serve, taskVars, actorVars, shellVars>>

\* run_with_opts goes on to wait; shell_wait begins here.
StartWait ==
  /\ \/ op = "running" /\ got = "ok"
     \/ op = "none" /\ view
  /\ Make("wait", <<>>)
  /\ op' = "waiting"
  /\ UNCHANGED <<view, run, seen, verdict, feedVars, line, serve, taskVars, actorVars,
                 shellVars>>

\* shell_set, shell_get, and tools that use the worker but not the shell.
StartOther ==
  /\ op = "none"
  /\ \/ feed = "open" /\ Made("set") < MaxSets /\ Make("set", <<>>) /\ op' = "setting"
     \/ Made("read") < MaxReads /\ Make("read", <<>>) /\ op' = "reading"
  /\ UNCHANGED <<view, run, seen, verdict, feedVars, line, serve, taskVars, actorVars,
                 shellVars>>

Dropped == IF op \in {"running", "waiting"} THEN <<Cancel(Newest)>> ELSE <<>>

\* stop_shell: for shell_kill, on an interrupt, and when a call has failed.
CallFailed == \/ op = "running" /\ got \in {"busy", "fail"}
              \/ op = "waiting" /\ got = "fail" /\ inbox = <<>>

Kill ==
  /\ Make("kill", Dropped)
  /\ op' = "killing"
  /\ UNCHANGED <<view, run, seen, verdict, feedVars, line, serve, taskVars, actorVars,
                 shellVars>>

StopShell == op = "none" /\ view /\ Kill
Interrupt == op \in {"running", "waiting", "draining"} /\ Kill
GiveUp    == CallFailed /\ Kill

\* The kill is answered: the handle is dropped, and the feed with it.
Stopped ==
  /\ op = "killing" /\ got # "none"
  /\ op' = "none" /\ view' = FALSE
  /\ feed' = "dropped" /\ inbox' = <<>>
  /\ verdict' = [verdict EXCEPT ![run] = "killed"]
  /\ UNCHANGED <<run, calls, got, seen, local, lineVars, taskVars, actorVars, shellVars>>

OtherAnswered ==
  /\ op \in {"setting", "reading"} /\ got # "none"
  /\ op' = "none"
  /\ UNCHANGED <<view, run, calls, got, seen, verdict, feedVars, lineVars, taskVars,
                 actorVars, shellVars>>
-----------------------------------------------------------------------------
(* WorkerShell::wait. *)

Pieces(items) == [i \in 1..Len(items) |-> items[i].n]

\* collect_output over some items, the last of them an exit marker if `done`.
Collect(items, done) ==
  /\ seen' = [seen EXCEPT ![run] =
                @ \o Pieces(IF done THEN Front(items) ELSE items)]
  /\ view' = (view /\ ~done)
  /\ verdict' = IF done THEN [verdict EXCEPT ![run] = "done"] ELSE verdict

TakeItem ==
  /\ op \in {"waiting", "draining"} /\ inbox # <<>>
  /\ LET done == Head(inbox).n = 0 IN
       /\ Collect(<<Head(inbox)>>, done)
       /\ op' = IF done THEN "none" ELSE op
       /\ up' = IF done THEN up \o Dropped ELSE up
  /\ inbox' = Tail(inbox)
  /\ UNCHANGED <<run, calls, got, feed, local, line, serve, taskVars, actorVars, shellVars>>

\* The select is biased: the reply is looked at when no item is there.
SeeQuiet ==
  /\ op = "waiting" /\ inbox = <<>> /\ got = "quiet"
  /\ op' = "none"
  /\ UNCHANGED <<view, run, calls, got, seen, verdict, feedVars, lineVars, taskVars,
                 actorVars, shellVars>>

SeeExit ==
  /\ op = "waiting" /\ inbox = <<>> /\ got = "exit"
  /\ op' = "draining"
  /\ UNCHANGED <<view, run, calls, got, seen, verdict, feedVars, lineVars, taskVars,
                 actorVars, shellVars>>

\* `max` has elapsed: take what is there, up to an exit marker.
Deadline ==
  /\ op = "waiting"
  /\ LET ends == {i \in 1..Len(inbox) : inbox[i].n = 0}
         done == ends # {}
         last == IF done THEN CHOOSE i \in ends : \A j \in ends : i <= j
                 ELSE Len(inbox) IN
       /\ Collect(SubSeq(inbox, 1, last), done)
       /\ inbox' = SubSeq(inbox, last + 1, Len(inbox))
  /\ op' = "none" /\ up' = up \o Dropped
  /\ UNCHANGED <<run, calls, got, feed, local, line, serve, taskVars, actorVars, shellVars>>
-----------------------------------------------------------------------------
(* The connection. *)

\* Mutant: a feed whose inbound channel is full is skipped, not waited for.
AnyRoom == TRUE

RoomInInbox == Len(inbox) < InboxCap

HostReads ==
  /\ line # <<>>
  /\ LET frame == Head(line) IN
       CASE frame.kind = "unit" -> UNCHANGED <<inbox, got>>
         [] frame.kind = "response" ->
              /\ got' = IF frame.call = Newest THEN frame.result ELSE got
              /\ UNCHANGED inbox
         [] frame.kind = "item" ->
              /\ RoomInInbox \/ feed # "open"
              /\ inbox' = IF feed = "open" /\ Len(inbox) < InboxCap
                          THEN Append(inbox, frame.item) ELSE inbox
              /\ UNCHANGED got
  /\ line' = Tail(line)
  /\ UNCHANGED <<op, view, run, calls, seen, verdict, feed, local, up, serve, taskVars,
                 actorVars, shellVars>>

RoomInLine == Len(line) < LineCap

\* The feed's pump.
Pump ==
  /\ local # <<>> /\ RoomInLine
  /\ line' = Append(line, ItemFrame(Head(local)))
  /\ local' = Tail(local)
  /\ UNCHANGED <<hostVars, feed, inbox, up, serve, taskVars, actorVars, shellVars>>

\* The cancel of the feed aborts its pump, which closes the FeedSender.
CancelFeed ==
  /\ feed = "dropped"
  /\ feed' = "cancelled" /\ local' = <<>>
  /\ UNCHANGED <<hostVars, inbox, lineVars, taskVars, actorVars, shellVars>>
-----------------------------------------------------------------------------
(* serve, and the tasks of the calls. *)

Serve ==
  /\ serve = "reading" /\ up # <<>>
  /\ LET frame == Head(up)
         c == frame.call IN
       \/ /\ frame.kind = "request"
          /\ task' = [task EXCEPT ![c] = "spawned"]
          /\ UNCHANGED serve
       \/ /\ frame.kind = "cancel"
          /\ \/ task' = [task EXCEPT ![c] = "over"]
             \/ task[c] = "spawned" /\ task' = [task EXCEPT ![c] = "lastAsk"]
          /\ serve' = "answering"
  /\ up' = Tail(up)
  /\ UNCHANGED <<hostVars, feedVars, line, result, commands, actorVars, shellVars>>

AnswerCancel ==
  /\ serve = "answering" /\ RoomInLine
  /\ line' = Append(line, UnitFrame)
  /\ serve' = "reading"
  /\ UNCHANGED <<hostVars, feedVars, up, taskVars, actorVars, shellVars>>

\* ShellResource::call, up to its wait for the reply.
Ask(c) ==
  /\ task[c] \in {"spawned", "lastAsk"}
  /\ IF calls[c] = "read" \/ actor = "gone"
     THEN /\ task' = [task EXCEPT ![c] = IF @ = "spawned" THEN "answering" ELSE "over"]
          /\ result' = [result EXCEPT ![c] = IF calls[c] = "read" THEN "ok" ELSE "fail"]
          /\ UNCHANGED commands
     ELSE /\ task' = [task EXCEPT ![c] = IF @ = "spawned" THEN "asking" ELSE "over"]
          /\ commands' = Append(commands, c)
          /\ UNCHANGED result
  /\ UNCHANGED <<hostVars, feedVars, lineVars, actorVars, shellVars>>

Answer(c) ==
  /\ task[c] = "answering" /\ RoomInLine
  /\ line' = Append(line, ResponseFrame(c, result[c]))
  /\ task' = [task EXCEPT ![c] = "over"]
  /\ UNCHANGED <<hostVars, feedVars, up, serve, result, commands, actorVars, shellVars>>

\* `reply.send`, lost on a task that is no longer there.
Reply(c, r) ==
  IF task[c] = "asking"
  THEN /\ task' = [task EXCEPT ![c] = "answering"]
       /\ result' = [result EXCEPT ![c] = r]
  ELSE UNCHANGED <<task, result>>
-----------------------------------------------------------------------------
(* run_shell. *)

RunOf(c) == Cardinality({i \in 1..c : calls[i] = "run"})

\* Shell::start.
Start(c) ==
  IF flight # 0
  THEN Reply(c, "busy") /\ UNCHANGED shellVars
  ELSE /\ Reply(c, "ok")
       /\ flight' = RunOf(c) /\ proc' = "alive" /\ unread' = 0
       /\ UNCHANGED <<sink, emitted, captured>>

\* kill_running signals the process group and leaves in_flight to a wait.
Signal(c) ==
  /\ Reply(c, "ok")
  /\ proc' = IF flight # 0 /\ proc = "alive" THEN "dead" ELSE proc
  /\ UNCHANGED <<sink, flight, emitted, unread, captured>>

\* set_var and get_var run a command of their own, unwatched: the sink is
\* taken away, from the running command too, and stays away.  That command is
\* taken to end before it has been quiet for DEFAULT_QUIET (10 s).
RunUnwatched(c) ==
  /\ Reply(c, IF flight # 0 THEN "busy" ELSE "ok")
  /\ sink' = FALSE
  /\ UNCHANGED <<flight, proc, emitted, unread, captured>>

TakeCommand ==
  /\ actor = "idle" /\ commands # <<>>
  /\ commands' = Tail(commands)
  /\ LET c == Head(commands) IN
       \/ /\ \/ calls[c] = "run"  /\ Start(c)
             \/ calls[c] = "kill" /\ Signal(c)
             \/ calls[c] = "set"  /\ RunUnwatched(c)
          /\ UNCHANGED actorVars
       \/ /\ calls[c] = "wait"
          /\ serving' = c
          /\ IF flight # 0 THEN actor' = "waiting" /\ UNCHANGED outcome
             ELSE actor' = "flushing" /\ outcome' = "fail"
          /\ UNCHANGED <<hand, events, task, result, shellVars>>
  /\ UNCHANGED <<hostVars, feedVars, lineVars>>

\* Mutant: a send that waits for room does not see the feed closed.
SeenBetweenCommands == feed = "cancelled" /\ actor = "idle"

SenderClosed == feed = "cancelled"

\* The FeedSender is closed: run_shell returns and drops the command queue.
\* Within a wait nothing is sent first, unless the flush has nothing to send.
Closed ==
  /\ SenderClosed /\ actor # "gone"
  /\ actor = "flushing" => hand # <<>> \/ events # <<>>
  /\ actor' = "gone"
  /\ hand' = <<>> /\ events' = <<>>
  /\ task' = [c \in Call |-> IF task[c] = "asking" THEN "answering" ELSE task[c]]
  /\ result' = [c \in Call |-> IF task[c] = "asking" THEN "fail" ELSE result[c]]
  /\ commands' = <<>>
  /\ UNCHANGED <<hostVars, feedVars, lineVars, serving, outcome, shellVars>>

\* The dropped shell goes to the reaper: SIGTERM, then SIGKILL.
Reap ==
  /\ actor = "gone" /\ proc = "alive"
  /\ proc' = "dead"
  /\ UNCHANGED <<hostVars, feedVars, lineVars, taskVars, actorVars, sink, flight, emitted,
                 unread, captured>>
-----------------------------------------------------------------------------
(* actor_wait: the select loop, and the flush behind it. *)

Looping == actor \in {"waiting", "reaping"} /\ hand = <<>>
Emitted(item) == events' = IF sink THEN Append(events, item) ELSE events

ReadPiece ==
  /\ actor = "waiting" /\ Looping /\ unread > 0
  /\ unread' = unread - 1
  /\ Emitted([run |-> flight, n |-> emitted[flight] - unread + 1])
  /\ UNCHANGED <<hostVars, feedVars, lineVars, taskVars, actor, serving, outcome, hand,
                 sink, flight, proc, emitted, captured>>

TakenAtExit == 0

\* The sentinel: in_flight is taken, the capture is still to come.
ReadExit ==
  /\ actor = "waiting" /\ Looping /\ unread = 0 /\ proc = "exit"
  /\ Emitted([run |-> flight, n |-> 0])
  /\ actor' = "reaping" /\ outcome' = "exit"
  /\ flight' = TakenAtExit
  /\ UNCHANGED <<hostVars, feedVars, lineVars, taskVars, serving, hand, sink, proc, emitted,
                 unread, captured>>

Capture ==
  /\ actor = "reaping" /\ Looping
  /\ captured' = captured \union {RunOf(serving)}
  /\ flight' = 0
  /\ actor' = "flushing"
  /\ UNCHANGED <<hostVars, feedVars, lineVars, taskVars, serving, outcome, hand, events,
                 sink, proc, emitted, unread>>

ReadEof ==
  /\ actor = "waiting" /\ Looping /\ unread = 0 /\ proc = "dead"
  /\ actor' = "flushing" /\ outcome' = "fail"
  /\ flight' = 0
  /\ UNCHANGED <<hostVars, feedVars, lineVars, taskVars, serving, hand, events, sink, proc,
                 emitted, unread, captured>>

QuietElapsed ==
  /\ actor = "waiting" /\ Looping /\ unread = 0 /\ proc = "alive"
  /\ actor' = "flushing" /\ outcome' = "quiet"
  /\ UNCHANGED <<hostVars, feedVars, lineVars, taskVars, serving, hand, events, shellVars>>

\* `reply.closed()`: the wait is abandoned where it stands.
Abandoned ==
  /\ Looping /\ task[serving] # "asking"
  /\ actor' = "idle"
  /\ UNCHANGED <<hostVars, feedVars, lineVars, taskVars, serving, outcome, hand, events,
                 shellVars>>

TakeEvent ==
  /\ actor \in {"waiting", "reaping", "flushing"}
  /\ hand = <<>> /\ events # <<>>
  /\ hand' = <<Head(events)>> /\ events' = Tail(events)
  /\ UNCHANGED <<hostVars, feedVars, lineVars, taskVars, actor, serving, outcome, shellVars>>

SendOutput ==
  /\ hand # <<>> /\ feed # "cancelled"
  /\ Len(local) < LocalCap
  /\ local' = local \o hand /\ hand' = <<>>
  /\ UNCHANGED <<hostVars, feed, inbox, lineVars, taskVars, actor, serving, outcome, events,
                 shellVars>>

\* Mutant: the wait is answered before what it has read is sent.
FlushesLater == hand = <<>>

Flushed == hand = <<>> /\ events = <<>>

FinishWait ==
  /\ actor = "flushing" /\ Flushed
  /\ Reply(serving, outcome)
  /\ actor' = "idle"
  /\ UNCHANGED <<hostVars, feedVars, lineVars, commands, serving, outcome, hand, events,
                 shellVars>>
-----------------------------------------------------------------------------
(* The command's process. *)

WritePiece ==
  /\ proc = "alive" /\ unread < PipeCap /\ emitted[flight] < Chunks
  /\ unread' = unread + 1
  /\ emitted' = [emitted EXCEPT ![flight] = @ + 1]
  /\ UNCHANGED <<hostVars, feedVars, lineVars, taskVars, actorVars, sink, flight, proc,
                 captured>>

\* The wrapper's teardown frames the exit; a killed or replaced bash does not.
ProcessEnds ==
  /\ proc = "alive"
  /\ proc' \in {"exit", "dead"}
  /\ UNCHANGED <<hostVars, feedVars, lineVars, taskVars, actorVars, sink, flight, emitted,
                 unread, captured>>
-----------------------------------------------------------------------------
HostGoesOn == \/ op = "running" /\ StartWait
              \/ GiveUp \/ Stopped \/ OtherAnswered
              \/ TakeItem \/ SeeQuiet \/ SeeExit \/ Deadline
HostStarts == StartRun \/ StartWait \/ StartOther \/ StopShell \/ Interrupt
WorkerWrites == Pump \/ AnswerCancel \/ \E c \in Call : Answer(c)
SomeoneAsks == \E c \in Call : Ask(c)
ActorStep == \/ TakeCommand \/ Closed \/ ReadPiece \/ ReadExit \/ Capture \/ ReadEof
             \/ QuietElapsed \/ Abandoned \/ TakeEvent \/ SendOutput \/ FinishWait
ProcessStep == WritePiece \/ ProcessEnds

Next == \/ HostStarts \/ HostGoesOn
        \/ HostReads \/ CancelFeed \/ Serve \/ WorkerWrites \/ SomeoneAsks
        \/ ActorStep \/ Reap \/ ProcessStep

Spec == Init /\ [][Next]_vars

(***************************************************************************)
(* Tasks are polled again when what they await is ready.  A tool call that *)
(* is under way goes on, at the latest when its `max` has elapsed (the     *)
(* harness always gives one).  What the user and the model do next, and    *)
(* what the command does, is up to them.                                   *)
(***************************************************************************)
Fairness ==
  /\ WF_vars(HostGoesOn)
  /\ WF_vars(HostReads) /\ WF_vars(CancelFeed) /\ WF_vars(Serve)
  /\ WF_vars(WorkerWrites) /\ WF_vars(SomeoneAsks)
  /\ WF_vars(ActorStep) /\ WF_vars(Reap)

FairSpec == Spec /\ Fairness
-----------------------------------------------------------------------------
(* Properties. *)

\* A run the host reports with an exit status did exit, and the host has read
\* every piece of its output, once and in order, over any number of waits that
\* were answered, ran into their deadline or were cancelled half way.
DoneIsReal ==
  \A r \in Run : verdict[r] = "done" =>
    seen[r] = [i \in 1..emitted[r] |-> i] /\ (proc # "alive" \/ flight # r)

\* Once a wait was answered with Exit the marker is found, as the comment in
\* WorkerShell::wait has it ("Drain through that marker"), if items are sent.
DrainEnds == (op = "draining" /\ sink) ~> (op # "draining" \/ ~sink)

\* A shell the host drops leaves no process and no actor behind.
ShellIsFreed == (feed # "open") ~> (actor = "gone" /\ proc # "alive")

\* "Shell observations drain output concurrently with waiting so the bounded
\* feed cannot block progress" (session-runtime.md): a call is answered.
CallsReturn ==
  \A o \in {"killing", "setting", "reading"} : (op = o) ~> (op # o)
=============================================================================
