--------------------------- MODULE SessionDriver ---------------------------
(***************************************************************************)
(* The agent's driver (frances-session: runtime/driver.rs, runtime/mod.rs, *)
(* and of frances-harness what a tool call does to the turn).  One task    *)
(* takes the user's inputs one at a time; while it handles one it goes on  *)
(* receiving, so that an interrupt can cancel what is handled and a prompt *)
(* can wait behind it.  A turn asks the model, runs the calls of its       *)
(* answer, records each result, and asks again until no call is left.      *)
(*                                                                         *)
(* Every write of the chat and of the user interface's entities may fail.  *)
(* That both go through the one lock of the session's database is the      *)
(* matter of DriverLock.  Edits, the title and the busy text are left out. *)
(***************************************************************************)
EXTENDS ChatSession, FiniteSets

CONSTANTS
  MaxInputs,   \* bound: prompts, redirections and MCP prompts of the user
  MaxBatches,  \* bound: answers of the model that call tools
  MaxInterrupts, MaxSelects, MaxFaults,  \* bounds: of those, and failed writes
  Batches      \* what an answer may call: sequences of CallKinds

\* plain: a file, search or variable tool, or arguments that are refused; shell:
\* shell_run; wait: shell_wait and shell_kill; mcp: a tool of an MCP server.
CallKinds == {"plain", "shell", "wait", "mcp"}

ASSUME DriverAssumption ==
  /\ {MaxInputs, MaxBatches, MaxInterrupts, MaxSelects, MaxFaults} \subseteq Nat
  /\ Batches \subseteq Seq(CallKinds) \ {<<>>}

VARIABLES
  sent,       \* history: inputs the user has made, the last one's number
  inbox,      \* the driver's input channel
  queued,     \* inputs received and not taken
  paused,     \* prompts are held back
  held,       \* history: prompts received, and then an interrupt, and no prompt
  work,       \* the input that is handled
  at,         \* how far the handling is, see Stage
  cancelled,  \* the token of this input
  shutdown,   \* SessionRuntime::cancel
  chat,       \* Context::chat
  copy,       \* replace_mcp: the chat to replace it
  drained,    \* inputs the request in flight has taken
  todo,       \* calls of the batch without a result yet
  batches,    \* history: answers with calls
  made,       \* history: calls the model has made
  shell,      \* Tools::shell_running
  reminders,  \* shell_reminders
  told,       \* history: the numbers of the inputs pushed, in order
  interrupts, selects, faults,  \* history: those made
  lost        \* history: the future of a request was dropped, or its outcome

userVars == <<sent, interrupts, selects>>
loopVars == <<inbox, queued, paused, held, shutdown>>
workVars == <<work, cancelled>>
chatVars == <<chat, copy, drained, told>>
callVars == <<todo, batches, made>>
toolVars == <<shell, reminders>>
vars == <<userVars, loopVars, workVars, at, chatVars, callVars, toolVars, faults, lost>>

Message == [kind : {"prompt", "use", "list", "select", "interrupt"}, n : 0..MaxInputs]
Stage == {"idle", "record", "check", "asking", "saving", "replied", "tools", "gate",
          "running", "results", "wrap", "connect", "copied", "fetch", "over"}
Handling == at \notin {"idle", "over"}

Init ==
  /\ sent = 0 /\ interrupts = 0 /\ selects = 0
  /\ inbox = <<>> /\ queued = <<>> /\ paused = FALSE /\ held = {} /\ shutdown = FALSE
  /\ work = Item("interrupt", 0) /\ cancelled = FALSE /\ at = "idle"
  /\ chat = Fresh /\ copy = Fresh /\ drained = <<>> /\ told = <<>>
  /\ todo = <<>> /\ batches = 0 /\ made = 0
  /\ shell = FALSE /\ reminders = 0
  /\ faults = 0 /\ lost = FALSE
-----------------------------------------------------------------------------
(* The user.  The channel has no bound and is open as long as the driver. *)

Send(message) == inbox' = Append(inbox, message)

UserInput ==
  /\ at # "over" /\ sent < MaxInputs
  /\ \E kind \in {"prompt", "use"} : Send(Item(kind, sent + 1))
  /\ sent' = sent + 1
  /\ UNCHANGED <<interrupts, selects, queued, paused, held, shutdown, workVars, at, chatVars,
                 callVars, toolVars, faults, lost>>

UserInterrupts ==
  /\ at # "over" /\ interrupts < MaxInterrupts
  /\ Send(Item("interrupt", 0))
  /\ interrupts' = interrupts + 1
  /\ UNCHANGED <<sent, selects, queued, paused, held, shutdown, workVars, at, chatVars,
                 callVars, toolVars, faults, lost>>

UserSelects ==
  /\ at # "over" /\ selects < MaxSelects
  /\ \E kind \in {"select", "list"} : Send(Item(kind, 0))
  /\ selects' = selects + 1
  /\ UNCHANGED <<sent, interrupts, queued, paused, held, shutdown, workVars, at, chatVars,
                 callVars, toolVars, faults, lost>>

Shutdown ==
  /\ ~shutdown /\ shutdown' = TRUE
  /\ UNCHANGED <<userVars, inbox, queued, paused, held, workVars, at, chatVars, callVars,
                 toolVars, faults, lost>>
-----------------------------------------------------------------------------
(* The loop of run. *)

\* Mutant: the pause holds nothing back.
AllQueued == DOMAIN queued

Runnable == {k \in DOMAIN queued : ~paused \/ queued[k].kind # "prompt"}

FirstStage == [prompt |-> "record", use |-> "fetch", list |-> "fetch", select |-> "connect"]

Take ==
  /\ at = "idle" /\ Runnable # {}
  /\ LET first == CHOOSE k \in Runnable : \A j \in Runnable : k <= j
     IN  /\ work' = queued[first]
         /\ queued' = RemoveAt(queued, first)
         /\ at' = FirstStage[queued[first].kind]
  /\ cancelled' = shutdown
  /\ UNCHANGED <<userVars, inbox, paused, held, shutdown, chatVars, callVars, toolVars, faults,
                 lost>>

Receiving == \/ at = "idle" /\ Runnable = {} /\ ~shutdown
             \/ Handling /\ (shutdown => cancelled)

\* An interrupt pauses; a prompt ends the pause, for those that wait too.
Receive ==
  /\ Receiving /\ inbox # <<>>
  /\ LET message == Head(inbox) IN
       /\ queued' = IF message.kind = "interrupt" THEN queued ELSE Append(queued, message)
       /\ paused' = IF message.kind = "interrupt" THEN TRUE
                    ELSE IF message.kind = "prompt" THEN FALSE ELSE paused
       /\ held' = IF message.kind = "interrupt"
                  THEN {m.n : m \in {x \in ToSet(queued) \union {work} : x.kind = "prompt"}}
                  ELSE IF message.kind = "prompt" THEN {} ELSE held
       /\ cancelled' = (cancelled \/ (Handling /\ message.kind \in {"interrupt", "select"}))
  /\ inbox' = Tail(inbox)
  /\ UNCHANGED <<userVars, shutdown, work, at, chatVars, callVars, toolVars, faults, lost>>

NoticeShutdown ==
  /\ shutdown /\ ~cancelled /\ Handling
  /\ cancelled' = TRUE
  /\ UNCHANGED <<userVars, loopVars, work, at, chatVars, callVars, toolVars, faults, lost>>

Stop ==
  /\ at = "idle" /\ Runnable = {} /\ shutdown
  /\ at' = "over" /\ shell' = FALSE
  /\ UNCHANGED <<userVars, loopVars, workVars, chatVars, callVars, reminders, faults, lost>>

\* The end of handle_input, behind which the loop looks for a shutdown.
Done == at' = IF shutdown THEN "over" ELSE "idle"
-----------------------------------------------------------------------------
(* turn and drive. *)

Fault == faults < MaxFaults /\ faults' = faults + 1
NoFault == faults' = faults

\* persist_pending fails: the row may be written, the inputs are not.
NotSaved(c) == {c, EnsureRow(c)}

\* A prompt of a server is fetched first; listing them ends here.
Fetch ==
  /\ at = "fetch"
  /\ \/ work.kind = "use" /\ ~cancelled /\ at' = "record"
     \/ Done
  /\ UNCHANGED <<userVars, loopVars, workVars, chatVars, callVars, toolVars, faults, lost>>

\* A failure here ends the input before drive; the text stays pending.
RecordPrompt ==
  /\ at = "record"
  /\ told' = Append(told, work.n)
  /\ reminders' = 0
  /\ LET pushed == Push(chat, Item("user", work.n)) IN
       \/ NoFault /\ chat' = PersistPending(pushed) /\ at' = "check"
       \/ Fault /\ chat' \in NotSaved(pushed) /\ Done
  /\ UNCHANGED <<userVars, loopVars, workVars, copy, drained, callVars, shell, lost>>

\* The head of drive's loop, and of ChatSession::run.
Ask ==
  /\ at = "check"
  /\ IF cancelled
     THEN at' = "wrap" /\ UNCHANGED <<chat, drained, faults>>
     ELSE LET full == PushSystem(chat) IN
            \/ /\ NoFault /\ at' = "asking"
               /\ chat' = Drain(PersistPending(full))
               /\ drained' = PersistPending(full).pending
            \/ /\ Fault /\ at' = "wrap"
               /\ chat' \in NotSaved(full) /\ drained' = drained
  /\ UNCHANGED <<userVars, loopVars, workVars, copy, told, callVars, toolVars, lost>>

\* The provider's error or the cancel ends the request.
RequestFails ==
  /\ at = "asking"
  /\ chat' = Restore(chat, drained) /\ drained' = <<>>
  /\ at' = "wrap"
  /\ UNCHANGED <<userVars, loopVars, workVars, copy, told, callVars, toolVars, faults, lost>>

StreamEnds ==
  /\ at = "asking" /\ ~cancelled
  /\ \/ todo' = <<>> /\ UNCHANGED <<batches, made>>
     \/ \E kinds \in Batches :
          /\ batches < MaxBatches
          /\ todo' = [k \in DOMAIN kinds |-> Item(kinds[k], MaxInputs + made + k)]
          /\ batches' = batches + 1 /\ made' = made + Len(kinds)
  /\ at' = "saving"
  /\ UNCHANGED <<userVars, loopVars, workVars, chatVars, toolVars, faults, lost>>

CallsOf(calls) == [k \in DOMAIN calls |-> Item("call", calls[k].n)]

SaveExchange ==
  /\ at = "saving"
  /\ \/ /\ NoFault /\ at' = "replied"
        /\ chat' = Record(chat, drained, CallsOf(todo)) /\ todo' = todo
     \/ /\ Fault /\ at' = "wrap"
        /\ chat' = Restore(chat, drained) /\ todo' = <<>>
  /\ drained' = <<>>
  /\ UNCHANGED <<userVars, loopVars, workVars, copy, told, batches, made, toolVars, lost>>

\* model_call: an event of the request cannot be stored.  `?` drops the request
\* where it stands, or, behind it, its outcome.
EventFails ==
  /\ at \in {"asking", "saving", "replied"} /\ Fault
  /\ drained' = <<>> /\ todo' = <<>>
  /\ lost' = (lost \/ Retry(drained) # <<>> \/ todo # <<>>)
  /\ at' = "wrap"
  /\ UNCHANGED <<userVars, loopVars, workVars, chat, copy, told, batches, made, toolVars>>

\* Mutant: reminders are not counted.
AnsweredUncounted ==
  /\ at = "replied" /\ todo = <<>>
  /\ at' = IF shell THEN "check" ELSE "wrap"
  /\ UNCHANGED <<userVars, loopVars, workVars, chatVars, callVars, toolVars, faults, lost>>

\* No call: the turn is over, unless a command runs that the model has forgotten.
Answered ==
  /\ at = "replied" /\ todo = <<>>
  /\ IF ~shell
     THEN at' = "wrap" /\ UNCHANGED toolVars
     ELSE /\ at' = "check"
          /\ IF reminders >= 2 THEN shell' = FALSE /\ UNCHANGED reminders
             ELSE reminders' = reminders + 1 /\ UNCHANGED shell
  /\ UNCHANGED <<userVars, loopVars, workVars, chatVars, callVars, faults, lost>>

StartBatch ==
  /\ at = "replied" /\ todo # <<>>
  /\ at' = "tools" /\ reminders' = 0
  /\ UNCHANGED <<userVars, loopVars, workVars, chatVars, callVars, shell, faults, lost>>
-----------------------------------------------------------------------------
(* The calls of a batch, one behind the other. *)

Call == Head(todo)

\* The call's result is pushed, and the next call's turn comes.
Settle ==
  /\ chat' = Push(chat, Item("result", Call.n))
  /\ told' = Append(told, Call.n)
  /\ todo' = Tail(todo)
  /\ at' = IF Tail(todo) = <<>> THEN "results" ELSE "tools"
  /\ UNCHANGED <<userVars, loopVars, workVars, copy, drained, batches, made, reminders, faults,
                 lost>>

\* Interrupted, invalid, or done without a permission.
Execute ==
  /\ at = "tools"
  /\ \/ cancelled
     \/ Call.kind = "plain"
     \/ Call.kind = "mcp"  \* changed inventory, or only a list of resources
     \/ Call.kind = "shell" /\ shell
     \/ Call.kind = "wait" /\ ~shell
  /\ Settle /\ UNCHANGED shell

AskUser ==
  /\ at = "tools" /\ ~cancelled
  /\ \/ Call.kind = "mcp"
     \/ Call.kind = "shell" /\ ~shell
  /\ at' = "gate"
  /\ UNCHANGED <<userVars, loopVars, workVars, chatVars, callVars, toolVars, faults, lost>>

\* The judge or the user; a redirection denies and is a prompt as well.
Approve ==
  /\ at = "gate" /\ ~cancelled
  /\ at' = "running"
  /\ shell' = (shell \/ Call.kind = "shell")
  /\ UNCHANGED <<userVars, loopVars, workVars, chatVars, callVars, reminders, faults, lost>>

Redirect == sent < MaxInputs /\ sent' = sent + 1 /\ Send(Item("prompt", sent + 1))

Deny ==
  /\ at = "gate" /\ ~cancelled
  /\ \/ Redirect
     \/ UNCHANGED <<sent, inbox>>
  /\ chat' = Push(chat, Item("result", Call.n))
  /\ told' = Append(told, Call.n)
  /\ todo' = Tail(todo)
  /\ at' = IF Tail(todo) = <<>> THEN "results" ELSE "tools"
  /\ UNCHANGED <<interrupts, selects, queued, paused, held, shutdown, workVars, copy, drained,
                 batches, made, toolVars, faults, lost>>

\* Mutant: an interrupt at the gate leaves the turn at once.
GateAbandons ==
  /\ at = "gate" /\ cancelled
  /\ todo' = <<>> /\ at' = "wrap"
  /\ UNCHANGED <<userVars, loopVars, workVars, chatVars, batches, made, toolVars, faults, lost>>

\* Mutant: the gate looks for an answer only.
GateDeaf == FALSE /\ GateAbandons

GateInterrupted ==
  /\ at = "gate" /\ cancelled
  /\ Settle /\ UNCHANGED shell

StartWait ==
  /\ at = "tools" /\ ~cancelled /\ Call.kind = "wait" /\ shell
  /\ at' = "running"
  /\ UNCHANGED <<userVars, loopVars, workVars, chatVars, callVars, toolVars, faults, lost>>

\* A command ends, is left running when it is quiet, or is killed by an error
\* or the interrupt; an MCP call ends or is given up.
CallEnds ==
  /\ at = "running"
  /\ \/ shell' = shell /\ (Call.kind # "mcp" => ~cancelled)
     \/ shell' = FALSE /\ Call.kind # "mcp"
  /\ Settle

SaveResults ==
  /\ at = "results"
  /\ \/ NoFault /\ chat' = PersistPending(chat) /\ at' = "check"
     \/ Fault /\ chat' \in NotSaved(chat) \union {PersistPending(chat)} /\ at' = "wrap"
  /\ UNCHANGED <<userVars, loopVars, workVars, copy, drained, told, callVars, toolVars, lost>>

\* Mutant: the shell is left alone.
WrapUpOnly ==
  /\ at = "wrap"
  /\ shell' = shell
  /\ NoFault /\ chat' = PersistPending(chat)
  /\ Done
  /\ UNCHANGED <<userVars, loopVars, workVars, copy, drained, told, callVars, reminders, lost>>

\* What turn does behind drive, whatever it has come to.
WrapUp ==
  /\ at = "wrap"
  /\ shell' = FALSE
  /\ \/ NoFault /\ chat' = PersistPending(chat)
     \/ Fault /\ chat' \in NotSaved(chat) \union {PersistPending(chat)}
  /\ Done
  /\ UNCHANGED <<userVars, loopVars, workVars, copy, drained, told, callVars, reminders, lost>>
-----------------------------------------------------------------------------
(* replace_mcp. *)

SelectFails ==
  /\ at = "connect" /\ Done
  /\ UNCHANGED <<userVars, loopVars, workVars, chatVars, callVars, toolVars, faults, lost>>

\* The copy is made of the rows, and written.
CopyChat ==
  /\ at = "connect"
  /\ LET old == PersistPending(chat) IN
       \/ /\ NoFault /\ chat' = old
          /\ copy' = IF old.prims = <<>> THEN Fresh ELSE PersistPending(CopyOf(old.prims))
          /\ at' = "copied"
       \/ Fault /\ chat' \in NotSaved(chat) \union {old} /\ copy' = copy /\ Done
  /\ UNCHANGED <<userVars, loopVars, workVars, drained, told, callVars, toolVars, lost>>

SwitchChat ==
  /\ at = "copied"
  /\ \/ NoFault /\ ~cancelled /\ chat' = copy
     \/ NoFault /\ cancelled /\ chat' = chat
     \/ Fault /\ ~cancelled /\ chat' = chat
  /\ copy' = Fresh
  /\ Done
  /\ UNCHANGED <<userVars, loopVars, workVars, drained, told, callVars, toolVars, lost>>
-----------------------------------------------------------------------------
User == UserInput \/ UserInterrupts \/ UserSelects \/ Shutdown \/ Approve \/ Deny

Driver ==
  \/ Take \/ Receive \/ NoticeShutdown \/ Stop
  \/ Fetch \/ RecordPrompt \/ Ask \/ RequestFails \/ StreamEnds \/ SaveExchange \/ EventFails
  \/ Answered \/ StartBatch \/ Execute \/ AskUser \/ GateInterrupted \/ StartWait \/ CallEnds
  \/ SaveResults \/ WrapUp
  \/ SelectFails \/ CopyChat \/ SwitchChat

Next == User \/ Driver

Spec == Init /\ [][Next]_vars

\* The driver's task is run; the provider, the database and the tools answer at
\* last.  Users promise nothing.
FairSpec == Spec /\ WF_vars(Driver)
-----------------------------------------------------------------------------
AskedOrWaiting == Inputs(chat.wire) \o Inputs(Values(drained)) \o Inputs(Values(chat.pending))

\* session-runtime.md: "A failed model request keeps its inputs queued for retry".
\* Everything the chat was ever told has been sent to the model, is with the
\* request in flight or is pending: each input once, and in the order it came.
FailedRequestKeepsInputs == AskedOrWaiting = told

\* The same as far as it holds: unless model_call has dropped a request.
InputsAreKept == ~lost => FailedRequestKeepsInputs

\* "Chat inputs and tool outcomes are persisted before continuation, including
\* on interruption ... without duplicating primitive history rows."  The rows of
\* the chat, and behind them what is pending and not marked, are all it was
\* told, once and in order, through failures, retries and changes of the chat.
NotMarked == [value : Items, persisted : {FALSE}]
RowsAreExact == Inputs(chat.prims) \o Inputs(Values(Picked(chat.pending, NotMarked))) = told

\* "Every call receives a result, even if a prior call was interrupted.  No new
\* model request is issued while a batch is unsettled" (driver.rs).
Settled(n) == \E item \in Range(chat.wire \o Values(drained)) : item = Item("result", n)
BatchIsSettled ==
  at = "asking" /\ ~lost =>
    \A item \in Range(chat.wire) : item.kind = "call" => Settled(item.n)

\* "The host ... waits for new user input to resume": a prompt the driver had
\* received when it received an interrupt is not sent to the model until the
\* driver has received a newer prompt.
InterruptHolds == at = "asking" /\ ~cancelled /\ work.kind = "prompt" => work.n \notin held

\* No command outlives the turn that ran it: none runs between turns, while the
\* tools are replaced, or behind the end of the session.
ShellIsStopped == at \in {"idle", "over", "connect", "copied", "fetch", "record"} => ~shell

\* An interrupt, a selection or a shutdown ends what the driver is handling.
InterruptEnds == cancelled ~> at \in {"idle", "over"}

\* A turn ends or waits for a permission, also when the model leaves a command
\* running and only talks: it is reminded twice, and then the command is killed.
TurnEnds == Handling ~> at \in {"idle", "over", "gate"}
=============================================================================
