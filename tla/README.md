# Frances: a verification development

Frances is a desktop coding agent. A Tauri host holds the session: it talks to
language models, runs the tool calls they ask for, and shows the result. Files,
shells and processes are reached through `frances-worker`, a second program on
the machine that owns the workspace, over one framed duplex stream (its stdin
and stdout, possibly through ssh). This directory holds TLA+ modules that model
that system, TLC configurations that check them on small instances, and proofs
that TLAPS checks for every value of the constants. All paths below are under
`src/crates/` unless they start with `docs/`.

Run a model with `tlc -config FeedTransport.cfg MCFeedTransport.tla` (each `.cfg` is
named in the table of runs with its MC module), and check proofs with `tlapm
FeedTransportProofs.tla` or any other of the modules whose name ends in `Proofs`.
`PROJECT.json` lists the runs, the source lines of every definition, the mutants
that show each property can fail, the hazards, the findings and the theorems.

## The system

| Component | State it keeps | Operations | What makes it hard | What makes it correct | Modules |
| --- | --- | --- | --- | --- | --- |
| Feed transport (`frances-worker-protocol`: feed.rs, transport.rs) | local and inbound channels, pumps, `outbound_feeds`, the `feeds` map, one write queue and two tasks a side | send, transfer, pump, route, next, drop, disconnect | four tasks a connection, one reader for everything, cancels that race registration | order, no loss, a clean close means complete, cancels scoped to a feed, progress | OrderedFeed, FeedTransport |
| Framing and content (frame.rs, content.rs) | attachments received and not claimed | stage, encode, claim, decode | an attachment that fails in the middle of a message, torn frames | a message and its attachment arrive together or not at all | Framing |
| Worker calls (`frances-worker`: client.rs, server.rs, main.rs) | `pending`, one-shot replies, `requests` | call, drop, cancel, respond, shutdown, end of stream | futures dropped at any await, aborts in the middle of a poll | answers are real, every call ends, no handler runs on behind a shutdown | WorkerRpc |
| Worker shells (client.rs, server.rs; `frances-shell`: shell.rs) | an actor's command queue, `in_flight`, sink, cwd and environment; the host's view of the shell | run, wait, kill, set and get a variable, drop | two paths (replies, feed items), abandoned waits, deadlines, interrupts | complete output, no process left over | WorkerShell |
| Worker files and search (server.rs, search.rs, client.rs; `frances-harness`: io/) | the files, what is staged of a write, a walk's counters | read, write, create, search | truncation before copying, dropped calls that go on, early stop of several walkers | an answered write is read back, a search says what it found | WorkerFiles, FileSearch |
| Chat session (`frances-llm`: chat/) | `pending`, the chat row, history rows | submit, persist, run, retry | a failure between drain and restoration | inputs are persisted before continuation, once | ChatSession |
| Session runtime (`frances-session`: runtime/) | queue of inputs, paused, cancel token, tool batch | prompt, interrupt, select MCP, turn, permission | inputs during a turn, cancel at any await, a fair lock shared with the frontend | every tool call gets a result; pause holds prompts back | SessionDriver, DriverLock |
| Model requests and the auto judge (`frances-llm`: providers/genai, chat/session.rs; `frances-session`: runtime/driver.rs) | wire history, the stream with its attempts | forge, lay out, stream, retry, judge | retries behind shown output, renamed and missing calls | every call has its results, a request extends the last one | Wire, ModelCalls |
| Codex authentication (`frances-llm`: codex_auth.rs) | `auth.json` and the file beside it | resolve, refresh, write | single-use tokens, two programs, a drop at any await | the token the server takes is not lost | CodexAuth |
| MCP (`frances-mcp`, runtime/mcp.rs) | connections, catalogue revision, the context's tools, processes | configure, connect, list, select, call, close | a catalogue that changes under a call, selections that fail half way | a call uses the tools the server has; nothing else stays open | McpConfig, McpSession |
| Entities and scrollback (`frances-session`: entities/, scrollback/; the frontend's stores) | records, sequence numbers, subscription state, rows, the frontend's copy | upsert, append, subscribe, settle, replay | numbering before storing, catch-up beside live items, restarts | a catch-up is in order and complete; what is shown is what is recorded | EntityHub |
| Permissions (`frances`: app.rs, App.svelte) | one slot, one prompt | ask, show, answer, withdraw | a round trip in which the request may change | an answer decides the request it was given for | PermissionSlot |
| Storage (`frances-storage`) | the migrations table, one connection and its lock | open, check, apply; lock | crashes between statements, programs of several versions | what is recorded is what is applied | Migrations, DriverLock |
| Configuration (`frances-config`, llm/session_provider.rs) | layers, tree, bindings, notifications, rows | load, batch, bind, promote, refresh, write | a batch between read and registration | a binding follows the layers | Configuration |
| Provider cache (`frances-llm`: provider_cache.rs, chat/manager.rs) | built providers | get, rebuild, drop | stale builds, ids that come and go | a call gets the provider the configuration asks for | ProviderCache |
| Edit engine and anchors (`frances-edit`, `frances-anchors`, anchor_store, the file tools) | open files, stored entries, tombstones, the loop guard | read, search, edit, overwrite, create, commit | anchors across outside writes, equal and blank lines, failing stores | an anchor names one line; a stamp tells what is known | Anchors, EditSession |
| Desktop (`frances`) | the process and its database | start, forward, end, restart | a crash anywhere, another version | composition of the three above it | Desktop |

One session is one driver task. It answers its user by requests to a model and
by tool calls. Tools reach the workspace through the worker client; the client's
calls are messages of the transport; a shell's output and a search's events are
feeds of the same connection; MCP servers started on the worker are processes
whose streams are feeds. What the driver makes goes into entities and sections,
which the desktop forwards to the window and keeps in the database; permissions
go the same way and come back. Configuration decides which provider a request
uses and changes under it.

The hard places follow from this. Everything a tool does is a future that an
interrupt drops at whatever await it stands, while the worker's half goes on
(calls, shells, files, judge, MCP). One reader, one lock and one channel serve
parties that do not know of each other (feeds of a connection, the database, the
window's events). Things are remembered under a key that may mean something else
later (stamps, revisions, ids, numbers of requests). And several writes that are
not one transaction can fail or be cut between them.

## The modules

A component is a module; what several need is a module of operators
(`ChatSession`, `Picking`, `Wire`, `Anchors`, `McpConfig`, `Framing`) or of budgets
(`Bounds`). Four modules compose, and a fifth for TLC only:

- `Desktop` EXTENDS `Migrations`, `EntityHub` and `PermissionSlot` and gives them
  one life: a process starts on a database, does all three, dies at any moment,
  and a process of any version may start again.
- `ProviderCache` EXTENDS `Configuration`.
- `SessionServices` puts `ModelCalls` (over `CodexAuth` and `Wire`) beside
  `McpSession` (over `McpConfig`) under the one driver that uses both.
- `WorkerFiles` runs reads, writes and a search of `FileSearch` over the frames of
  `Framing`.
- `MCSession` puts the instances of `Desktop` and of `ProviderCache` in one run; a
  behaviour's budget says which of the two it is about.

The transport, the calls and the shell describe one path from two ends; each
has just as much of its neighbours as it can feel (a full queue, a lost link, an
order). The modules `MC...` give the constants to TLC, those `...Proofs` hold
the theorems.

### Transport and worker

`OrderedFeed` is the abstract promise of one feed: values in an unbroken run,
closed only behind the last one. It allows the run to start late, because the
code does lose values at the start (see "Met while modelling"), and allows no
other loss.

`FeedTransport` models `feed.rs` and `transport.rs`: a side's write queue and
`run_writer`, the pipe, `run_reader` with `route_feed`, `Writer::send` with its
three awaits (queue, written, resumed), the pump of a feed, `outbound_feeds`,
the receiver's map, `next`, drop, and a loss of the connection that keeps any
prefix of what was in the pipe. A frame is a kind, a feed and a number: values
are numbered in order of sending, so a local channel, which loses nothing, is a
count. `written`, `routed`, `strays` and `delivered` are history. What decoding
does to a value is left out, and so is a decoding error.

`WorkerRpc` models `Client::call`, `CancelOnDrop`, `route_responses`, `serve`,
`abort_all` and `main`. A call is its request id. `call` follows the future
through the awaits at which it can be dropped, `task` follows the request's
task on the worker. An abort of a task in the middle of a poll lets the poll run
to its next await (`lastHandling`, `lastResponding`); this is what tokio's
`abort` does to a task on another thread. A handler is one effect: the poll that
reaches it does it, or hands it to tokio's blocking pool, as the calls on files do
(`Pooled`). What is in the pool is done in any case, behind an abort, behind the
join of `abort_all` and behind the end of `serve` (`PoolRuns`). The search, which
is a detached task of its own, is in `FileSearch`.

`WorkerShell` models one shell: the host's tool call (`shell.rs` of the
harness), `WorkerShell::wait` of the client with its deadline, the drain behind
Exit and the final `try_next`, the shell's actor (`run_shell`, `actor_wait`,
`send_output`, variables), `Shell::start_run`, `read_outcome` and
`kill_running`, the reaper, and the command's process. Output is a number of
pieces and an exit marker, item 0. The connection is what shell and host can
feel of it: calls arrive in order, the worker's frames share one bounded line,
the host's reader waits at a feed frame whose inbound channel is full. The
command of `set_var` and `get_var` is one step, taken to end before it has been
quiet for ten seconds; stdin is left out.

`Framing` has the operators of one message with its attachment: it is staged
whole before anything goes out, leaves as two frames, and the JSON frame claims
what came before it. Any prefix of the frames may have arrived when a link ends.

`WorkerFiles` follows a call of a file tool from the client to the worker's task
and back: `read`, `write` with its truncation and one write per piece,
`create_new`, `create_dir_all`. A call may be dropped at every step, its task
may be aborted, but a system call already handed to the blocking pool, a write's
or that of `create_dir_all`, goes on behind it (`late`); a system call may fail
between any two (`OpFails`), which leaves what the ones before it did; the
worker may die in the middle. `known` is what answered calls say of a path.
`metadata` and `canonicalize` keep no state and are left out.

`FileSearch` is one search in it: walkers that take files from a shared tree,
reserve a place in the result when they meet a first match, send one event for
each match through a bounded feed and stop all when the result is full; the
collector on the host; the feed's close. A search starts before its answer is on
its way, so while that answer waits to be decoded the reader throws the first
events away (`Overtaken`, `Lose`); `lost` counts them. It may also end in an error,
of its root or a pattern, or by a panic (`Breaks`, `FinishBroken`). Which lines
match is a constant.

### Session

`ChatSession` is the value a chat session is: its pending inputs with their
`persisted` marks, its row, its primitives and its wire history, and one
operator for each operation of `chat/session.rs` (`push`, `push_system`,
`persist_pending`, the draining, restoring and recording of `run`). An item is a
kind and a number; what it says is left out.

`SessionDriver` models `driver.rs` on such chats: `run` with its queue, pause,
cancel token and select (an input is received at any moment of the handling, as
between any two polls of the turn), `turn`, `drive`, the request with its
`model_call`, the calls of a batch one behind the other with the permission
gate of the shell tool and of an MCP tool, the reminders of an unattended
command, and `replace_mcp`, which makes a chat from another one's rows. `at`
says at which await the handling stands. Every database write may fail, at most
`MaxFaults` times: where a write is several, what the first ones did stays
(`NotSaved`). A failed transaction writes nothing. `sent`, `held`, `told`,
`made`, `batches` and `lost` are history. Redirecting a permission is a denial
and a prompt in one step; the code sends them one behind the other from a
thread of the frontend, and a prompt may come at any moment anyway.

`DriverLock` models the same task at another grain: the fair mutex of
`Database::connect`, the select of `run` whose body publishes outputs, and
inside it the select of `model_call` whose body stores events. A body that waits
for the lock keeps the future beside it from being polled, though the lock may
be handed to that future. The turn is a row of uses of the database; other
tasks are commands of the frontend that use it too (`EntityHub::subscribe` and
others).

`Wire` is how the messages of a request are made: forged from what the host puts
in, calls renamed by their order in the history, results moved behind their
calls and made up where they are missing.

`ModelCalls` is a turn as the model's side sees it: `ChatSession::run`, the
provider's stream with its attempts, deltas, breaks and backoffs, the flush of the
answered request, the batch, and the auto judge's request, which the driver
drops when the user interrupts. An interrupt, a fault and a dropped future may
come between any two steps. `sent` is the last answered request, the history
that `PrefixIsKept` compares with.

`CodexAuth` is what happens before a request goes out: `auth.json` is read, an
expired token is refreshed at a server that takes a refresh token once, the new
ones go to a file beside it and are renamed. The session, its judge and other
programs are the clients; tokens are numbered as they are issued. An interrupt can drop the
refresh only while it waits for the server: from the arrival of the answer to the
rename the code awaits nothing. A failing write and the end of the process can come
there, and the token then in hand is gone; `burned` is its number. That the
file is whole, and what is to replace it newer, holds in those cases too. A server
that answers without a new refresh token is left out.

`McpConfig` decides what a file's entries and a selection mean (transport, host
or remote, malformed entries, presets, unknown names). `McpSession` is what
follows: `replace_mcp`'s `prepare` server by server, with the reuse of live
connections, `connect` with its process, the listing with the revision read
before it, the swap, the closing of what is no longer used; a call with its two
checks of the revision around the permission; resources and their rounds;
notices, subscriptions that end, servers that hang up; servers that hang, which
read no more while their input is full and may go on later (`reads`); and the
processes, those of a connect dropped at start-up among them, which are stopped
when one of the two copies between a process and its connection has ended
(`CopyEnds`).

`SessionServices` lets the driver do one of these things at a time, which is what
it does.

### Desktop

`Bounds` gives each behaviour a budget: how often each event that the code does
not limit may happen. The initial states choose one of several, which keeps an
instance small where all counts together would not.

`Migrations` is the runner: every schema's rows are compared with the declared
list, the rest is applied one transaction each. Programs are functions from
schemas to lists; they fork, rename and change migrations.

`EntityHub` follows one entity with a stream, and the sections around it: the
driver's `open`, `upsert`, `append` (number and subscription looked at under the
record's lock, the row inserted later), `settle` with its artifact; `subscribe`
with the catch-up, its replay and splice; `unsubscribe`; the replay of old
sections while the driver adds new ones; the one channel of events to the window,
and the window's stores with an inline view and a tab that come and go.

`PermissionSlot` is a permission's way to the user and back: asked, forwarded
(the slot is filled), shown, answered by a command that takes whatever the slot
holds when it arrives, and the prompt cleared when the command returns.

`Configuration` has the layered tree itself, the providers with what they find at
the start, the channel of batches, the one processor that applies, publishes and
refreshes binding after binding, and beside it the tasks that bind, promote to
`required` and read, and the session's provider with its rows. A tree is a
function from the paths of its nodes to their slots; a value is absent, null, one
of two that decode, or one that does not. What `apply_at_node` does on its way
back from the recursion is said from the ends of the paths towards the root
(`Surviving`): whether a node that a batch entered stays depends on which of the
nodes under it do (`Stays`). `Picking` has the filter that registries and chats
apply to what they hold (`Picked`).

`ProviderCache` adds the set of ids, the entries with their subscription, the
rebuild, and a completion that resolves its model and asks for its provider.

`Anchors` holds the algorithms on lines and anchors: hashing with ordinals for
blank lines, minting from a pool, filling, reconciliation, splicing. `EditSession`
holds the calls: a read with its stat, open and the ladder of what is known
(stamp, hashes, reconciliation), the loop guard, line edits and overwrites with
the write, the stat behind it and the draft's reconciliation, `create`, `commit`
behind an answered request, a new context. Between any two steps someone else
may write a file, and the store may fail.

## What the runs check

Bounds are named constants. Each is the smallest at which the cases it bounds
happen: capacities of one or two make every queue fill and block (the code
has `FEED_CAPACITY` 16 and queues of 32, and only "full", "empty" and "in between"
differ in their effects), two feeds are the fewest that can disturb each other, four values
overflow channels of two on both sides, two commands are the fewest of which one
can follow the other.

| Run | MC module | Instance | Shows |
| --- | --- | --- | --- |
| `feed_transport` | MCFeedTransport, `FeedTransport.cfg` | one feed, four values, channels of 2, losses and aborts anywhere; or two feeds of one value over the same connection; 296 000 states | `TypeOK`; `KeepsPromise`: the transport implements `OrderedFeed`; `AbortIsScoped`; `EndIsSeen`: a feed still read reaches its end although one reader serves both |
| `rpc_calls` | MCWorkerRpc, `RpcCalls.cfg` | an endless call that may use the blocking pool and a shutdown, drops, a link that dies; 74 000 states | `TypeOK`, `AnswersAreReal`, `RegistryIsExact`; `ShutdownQuiesces`: behind a shutdown's answer no handler runs on that its caller had not cancelled; `PendingIsOwned`; `CallEnds` |
| `shell_use` | MCWorkerShell, `ShellUse.cfg` | two commands of two pieces, four calls, one variable; 713 000 states | `DoneIsReal`: a reported exit comes with all output; `DrainEnds`, `ShellIsFreed` |
| `shell_busy` (violation) | MCWorkerShell, `ShellBusy.cfg` | one command of four pieces | one unread feed stops every call of the connection |
| `driver_turns` | MCSessionDriver, `DriverTurns.cfg` | two inputs, two answers with calls, one interrupt, one selection, one failing write, a shutdown; 529 000 states | `InputsAreKept`, `RowsAreExact`, `BatchIsSettled`, `InterruptHolds`, `ShellIsStopped`; `InterruptEnds`, `TurnEnds` |
| `driver_lock` (violation) | DriverLock, `DriverLock.cfg` | a turn, one use of the database by the frontend | the driver can wait for ever for a lock that was handed to its own turn |
| `session_base` | MCSession, `Session.cfg` | six program versions over two schemas; streams of three items, two views; three permissions; each with failing writes and restarts; or a file that says nothing, something or nonsense, stored rows, two writes of the session, two completions; 3.4 million states | `RecordIsExact`, `SpliceIsExact`, `LifeAgrees`, `OldSectionsShownOnce`, `AnswersItsPrompt`; `BindingsFollow`, `ReturnsCurrent` |
| `catch_up` (violation) | MCDesktop, `CatchUp.cfg` | one entity and its views | an item numbered before a catch-up and stored behind its query is never sent |
| `required_binding` (violation) | MCProviderCache, `RequiredBinding.cfg` | the configuration of `session_base` | a binding promoted to required can lose its value |
| `edit_session` | MCEditSession, `EditSession.cfg` | a file of the project and one outside, equal, blank and reindented lines, up to four calls, outside writes, a failing store; 3.0 million states | `AnchorsNameOneLine`, `StampsAreHonest`; `CarriedKeepAnchors` |
| `session_services` | MCSessionServices, `SessionServices.cfg` | the model alone, the servers alone, and both: two prompts, retries, the judge, another program with the tokens; a server of each transport, three selections, a server that hangs; 783 000 states | `RequestsArePaired`, `ShownOnce`, `PrefixIsKept`, `TokenIsRecoverable`, `UsableIsCurrent`, `SelectionIsWhole`; `ProcessesStop` |
| `worker_files` | MCWorkerFiles, `WorkerFiles.cfg` | one path, a write of two pieces and another write, a read or a search of three files by two walkers for two results; 1.2 million states | `ReadYourWrites`, `ResultsAreWhole`; `SearchStops` |

The batches of `driver_turns` have two calls each and all four kinds of calls
between them, so an interrupt, a denial or a failure can come between two calls
of a batch, and a command can be left running by the last call or be met by a
later one. Its two prompts, its interrupt and its selection are the fewest with
which a prompt can be held back while another input passes it. Larger instances
(three inputs, two interrupts, two faults, each with the rest small) agree.
`driver_lock` without other tasks satisfies the property: the driver alone never
waits for itself.

In `session_base` and `session_services` a behaviour has one budget of several
(`MCBudgets`). What shares no budget shares no state in the code either:
migrations end before the hub loads; permissions touch the entities through the
channel of events only; the configuration keeps a table of its own. `session_base`
lets three versions follow each other
(forward, back, and to a fork), and views come and go twice, once
while items are under way. In `session_services` three selections are the fewest
in which a connection is taken over, let go and made again, and a selection may
fail with one server of its own and one that is shared. The three attempts of
`MaxAttempts` are a first, a middle and a last one (the code allows more); the
other budgets of the model let two prompts meet a fault and an interrupt.

`edit_session`'s three files are the smallest with different lines, with equal
ones, and with lines equal but for indentation beside blank ones; a payload of
one line shortens or keeps a file, one of two lengthens it. A second outside
write lands between two steps of a call that has already met the first.

`worker_files` starts a second call beside the remains of the first: a write of
two pieces can be cut before, between and behind them. A search for two results
among three files has a first file too many, found by the other walker; behind a
write its answer waits in the queue, and the reader can overtake it with any number
of events.

Of what the transport does to the modules above it, a search has the loss of a
feed's start, its end included, behind which the call fails or waits; a shell has the
blocked reader. A shell loses no first items: it sends output only while it serves
a wait (`actor_wait`), which the host asks for when it has decoded the feed.

Deadlock is not checked: a closed connection, a user who does nothing more, a
shell that was dropped, a refused database and spent budgets are proper ends.

### Fairness

Tokio polls a task again when what it awaits is ready, so each task's step is
weakly fair. Senders of a full tokio channel are served in the order they wait,
so the actions of the first two modules that compete for a write queue are
strongly fair; `WorkerShell` gets by with weak fairness of their disjunction.
A consumer that holds a feed keeps calling `next` (`EndIsSeen` is about such a
consumer; `shell_busy` is about one that does not). A handler that is not
Endless finishes. A tool call that is under way goes on, because the harness
always gives its waits a `max`. The driver's task is polled, and the provider,
the tools and the database answer in the end, with an error or without
(`WF_vars(Driver)`); a permission may stay unanswered for ever, so `TurnEnds`
counts it as an end, while `InterruptEnds` does not. `DriverLock` adds that a
holder of the lock gives it back. `SessionServices` has fairness for the tasks of
processes alone (`ProcessSteps`): they are polled, and a process that is killed
ends; `ProcessesStop` needs nothing of the driver or the user, and nothing of a
server but that it does not hang with its input full when its connection is closed
(`Stuck`).
`WorkerFiles` has it for the walkers of a search, which are threads. Nothing
else is assumed of the user, the model, the command a shell runs, the loss of the
link, or of a response that does not decode; the desktop, the configuration and
the edit session have safety properties only. `ConnectedSpec` and `SteadySpec`
restrict a liveness run to behaviours in which the connection lasts; every
property of those runs says what a lasting connection gives.

### Findings

The four violation runs are places where a document or a comment promises what the
code does not do; `PROJECT.json` quotes them.

1. Output nobody reads after a deadline or an interrupt stops the one reader of
   the connection, and with it the kill that would stop the output
   (`frances-worker-protocol/src/feed.rs:516`).
2. `publish` and `model_event` wait for the database's fair lock beside a turn
   that may be next in its line and is not polled; when the frontend holds the
   lock at the start of a turn, the session can stop for good
   (`frances-session/src/runtime/driver.rs:113`).
3. `append` numbers an item and looks at the subscription before it stores the row.
   A catch-up that begins and queries in between neither replays nor buffers the item
   (`frances-session/src/entities/mod.rs:292`), against the words of `subscribe`
   (277-280) and of its test (678-681). `SpliceIsExact` says what does hold: nothing
   else is left out, and nothing is sent twice or out of order.
4. A refresher collected while a binding was optional stores an absence after its
   promotion (`frances-config/src/binding.rs:283`); a required binding is said never
   to have none (130, 408), and its next `get` panics. `BindingsFollow` says that a
   required binding keeps the last model named otherwise.

### Met while modelling

The models do what the code does in these cases too. No run states them; where a
property would be false because of one, it exempts the case by name, and the
comment above it says so.

- A value or the end of a feed that arrives before its message is decoded is
  dropped (`feed.rs:506`); `OrderedFeed` lets a run start late. A cancel that
  arrives before the pump is registered finds nothing to cancel (`feed.rs:436`),
  a cancel is a `try_send` and can be lost (`feed.rs:296`), and an attachment
  that cannot be read, a directory for one, stops the writer of the connection
  (`feed.rs:471`).
- A call dropped before its guard exists leaves its task running and its entry
  in `pending` (`client.rs:320`). `PendingIsOwned` admits this call alone, by its
  having no canceller: one dropped later has taken its entry back.
- A write or a new folder that is on the blocking pool when a shutdown
  is answered is done afterwards (`server.rs:284`); `ShutdownQuiesces` is about
  handlers.
- The first matches of a search can be thrown away on the host without a word
  (`feed.rs:506`): its result then misses them and is not marked as truncated.
  `ResultsAreWhole` counts them (`lost`). When its end is thrown away
  too, the call waits until the connection ends.
- `close` waits for ever for a process that hangs with its input full: neither copy
  ends, so nothing stops it (`connection.rs:158`, `440`). `ProcessesStop` exempts it
  (`Stuck`).
- The working directory of a finished command is lost when the host drops the
  wait at the exit marker before the worker has read it back (`shell.rs:361`).
  `shell_set` and `shell_get` take the output sink away for good; later waits
  answered with Exit never find the marker (`server.rs:588`). `DrainEnds` is
  about shells whose sink is still there.
- A failing entity write drops the request with the inputs it has taken, and
  behind the request its outcome with the calls (`driver.rs:401`). The invariants
  of `driver_turns` about inputs and batches speak of sessions in which that has
  not happened (`lost`).
- A cancelled or broken `create_new` leaves a part of the file, and a retry gets
  AlreadyExists; what a task left by a cancelled write still does may fall behind
  a later write (`late`). `ReadYourWrites` exempts both: it is about answered writes
  made beside no other. A file that becomes
  unreadable in the middle of a search keeps the count it had (`search.rs:214`).
- A binding made while a batch is applied misses it until the next one
  (`handle.rs:121`), a provider is built from the configuration before it is
  subscribed to it (`provider_cache.rs:180`), an id that comes and goes keeps its
  entry, unsetting an absent path leaves empty nodes behind (`config.rs:139`).
- A file's stamp and lines are taken at two awaits (`file.rs:94`): entries stored
  for one text may be paired with another, and a panic ends the session's task.
  Edits check the cached copy alone, so that an outside write behind a read
  is overwritten (`whole_file.rs:70`). Lines and tombstones are two transactions
  (`engine.rs:115`): when the second fails, an anchor let go may be minted again
  (`torn`).
- A judge dropped by an interrupt while the server's answer is on its way takes the
  new token with it (`driver.rs:526`, `codex_auth.rs:139`); so do a failing write and
  a crash before the rename (`burned`). Two programs share one temporary file
  (`codex_auth.rs:217`), which does no harm as long as a refresh token is good for
  one use: the second of two that have it is refused.
- A subscription to an MCP server that ends is not renewed (`connection.rs:216`),
  so a connection may be no longer listening (`UsableIsCurrent` names it).
- A tail-only stream that a tab escalates may show the stream from the next live
  item on, without its history (`entityStreams.svelte.ts:26`). An answer's return
  clears the prompt of the next request when that was shown before it
  (`App.svelte:132`).

## What is proved

TLC shows the formulas below on the instances above; the theorems show them for
every value of the constants, from the named assumptions, which TLC evaluates on
every run. The listed ones, 32 in eight modules:

- `FeedTransportProofs`, for any set of feeds, any origins, any capacities and
  any number of values (`FeedAssumption`: capacities are positive).
  `TypeCorrect`: `TypeOK` is inductive as it stands; the proof has one step per
  action and uses that an unchanged group of variables keeps its part
  (`Frozen`). `AbortsAreScoped`: "aborted implies dropped" is not inductive,
  since that a dropped feed is never opened again depends on its message being
  decoded once. `ScopeInv` follows the one reference of a feed: at most one copy
  in each channel (`RefsOnce`), in at most one of the queue, the pipe, the
  reader's hand and the message channel, all on the feed's own way, and none
  once the feed is open (`RefPlaces`); and every cancel under way belongs to a
  dropped feed (`CancelsOfDropped`). `PromiseIsKept`: the refinement of
  `OrderedFeed`. `PromiseInv` lays a feed's frames on one tape (`Tape`): which
  numbers the pump, the queue, the pipe, the reader and the inbox hold, each run
  following the next, the end frame behind the last; from it every step is a
  step of `OrderedFeed` or a stutter.
- `WorkerRpcProofs`, for any set of calls, any choice of endless calls and
  shutdowns among them, and any capacities (`RpcAssumption`: there is a call, a
  shutdown is not endless, capacities are positive). `TypeCorrect`, as above.
  `Invariant`: `Spec => [](TypeOK /\ IInv)`, and from it `AnswersCorrect`,
  `RegistryCorrect`, `ShutdownCorrect` and `PendingCorrect`. None of the first
  three is inductive, and they need each other: that a task starts once needs its
  request to exist once (`RequestInv`: in the queue or on the pipe, never both,
  never after the task started); that a handler takes effect once needs the task
  to start once (`EffectInv`); that a response means an effect needs `EffectInv`
  and the frames under way (`ResponseInv`); that an abort cannot reach a task that
  has not started needs the registry; and that no handler runs on behind the
  answer to Shutdown needs all phases of the serve loop (`ServeInv`), the tasks aborted
  in the middle of a poll (`LastInv`: awaited by `abort_all`, or cancelled) and
  the origin of every Cancel under way (`CancelInv`). The parts about channels are
  proved from one lemma (`FlowStep`): but for four actions, a step only moves
  frames along a direction and repeats none. `ShutdownCorrect` is about handlers, and
  leaves the pool to itself.
- `SessionDriverProofs`, for any numbers of inputs, batches, interrupts,
  selections and failing writes, and any batches (`DriverAssumption`: the bounds
  are natural numbers, a batch is a sequence of kinds of calls that is not empty).
  `InterruptsHold`: what a step of the loop does to the pause, the token and the
  queue is decided far from the moment the model is asked, so `HoldInv` says it
  of the whole handling: prompts are held in a pause only (hence none is taken
  while one is held), and a prompt that is handled and not cancelled is not held.
  That the queue stays a sequence (`QueueOK`) is needed for `Take`, whose first
  runnable input exists because a set of numbers has a least one (`FirstOf`).
  `ShellStops` is inductive as it stands. `InputsKept`, `RowsExact` and
  `BatchesAreSettled` share `DriverInv`: the rows together with what is pending
  and not marked are all the chat was told, and a copy taken for a retry holds the
  same (`RowsInv`); only a request under way has taken inputs, and all of them
  (`InputsInv`); a recorded call is open or its result is recorded, taken or
  pending (`BatchInv`). The model picks elements of a sequence with a recursive
  function (`Picking!Picked`), and what it does to an element at the end and
  to a concatenation is proved with `SnocInduction`: a set that holds the empty
  sequence and is closed under `Append` holds every sequence. An induction stated
  for sets needs no operator as a parameter.

  And for any providers, models, layers, batches, stored rows and numbers of
  writes and calls (`ConfigAssumption`: ids and names are finitely many, batches
  and rows are of the paths there are), `BindingsAlwaysFollow` and
  `ProvidersAreCurrent`, of `ProvidersSpec`. `ProviderInv` is what they share.
  `TreeInv`: each leaf's slots are what the layers said last, a leaf has a
  value, and every node has its parent; what pruning keeps is said first, level
  by level (`SurvivingAre`): a leaf exactly if it has a value, and a node over
  it as long as anything under it is there. `RegistryInv`: whoever is bound is
  among the registered refreshers under the generation it has now, so a
  refresher that is still held after its binding was dropped changes nothing.
  `CurrentInv`: a binding has what the tree says unless a batch has just been
  applied, its refresher is among those still to be refreshed, or its owner
  missed the batch between reading and registering. `LastInv` says of the model
  last named what the tree or a bound default has of it, which is what a
  required binding keeps. `CacheHolds` and `QuietInv`: a drained stream whose
  tick is the binding's means that the cache has the ids, or the entry the
  provider, that the binding has; from one step of a quiet call to the next
  nothing else moves. `ReturnsCurrent` holds behind these only, since each step
  of `get` looks at one of the bindings.
- `WorkerShellProofs`, for any numbers of calls, runs and pieces of output, any
  capacities and any order of deadlines, interrupts and cancels
  (`ShellAssumption`). `OutputIsComplete`: `ShellInv` lays the output of the run the
  host watches on its way: seen, in the inbox, on the line between other frames, in
  the local channel, in the hand of `send_output`, among the events, unread in the
  pipe, in order and each once, the exit marker behind the last (`PipeInv`). Where
  no run is watched nothing is under way at all; and a command called for and not
  begun finds it so, because its call is in one place (`CallInv`) and the actor has
  nothing in flight (`BeginInv`, `FlightInv`).
- `WorkerFilesProofs`, for any walkers, files, matches and capacities
  (`SearchAssumption`, `FilesAssumption`). `ResultsWhole`: a match is counted
  where it is, in the feed, among the collector's entries or among those thrown
  away before the answer was decoded (`Emitted`). While the receiver is there
  and the worker has not died under the walk, `SearchInv` says that each file is
  untouched and not counted, in the hands of one walker that has seen as many
  matches as are counted, or done with and counted in full; that the files
  counted or about to be are as many as the slots taken, up to the cap
  (`SlotsInv`); and that the end is the last event and is sent when no walker is
  at work (`EndInv`). Who hears the end has counted everything that was not
  lost. `WritesAreReadBack`, for any paths and numbers of calls, needs the whole
  way of a file's content (`FilesKept`). A request is on the line once
  (`OnceInv`), a call is asked, being done or answered (`PlaceInv`), and an
  attachment goes with the message behind it wherever it has got to (`Carries`,
  `ApartInv`, `WriterInv`): so a request brings its own content (`UpInv`), which
  a task writes piece by piece (`TaskInv`). While a path is known, only
  operations that leave it alone are pending for it (`SureInv`); a write made
  beside no other has the path to itself, and its answer finds the whole content
  there (`CleanInv`); so what the worker stages for a read is a beginning of the
  known file, and the attachment of its answer all of it (`ReadInv`).
- `DesktopProofs`, for any list of schemas and any programs
  (`MigrationAssumption`: schemas have different names), any lengths of channels,
  streams and scrollback, and any numbers of processes and requests.
  `RecordAlwaysExact`:
  `MigrationInv` adds to the property what a run knows in the middle: the rows of
  a transaction continue those of its schema (`TxFits`), schemas are finished in
  order (`InOrder`), and those before the one in hand are the program's
  (`Progress`). `PromptsAreAnswered`: `SlotInv` numbers requests, prompts and
  answers: which are queued, coming, pending, due or settled, each in one of these
  at a time, and an answer goes astray only where the property excuses it
  (`Patient`). `LivesAgree`, `OldSectionsAreShown` and `CatchUpIsExact` are parts
  of `HubInv`: the last frame of an entity that is under way, or what is shown when
  none is, agrees with its record and row (`LifeInv`); the sections of the past are
  a run that the replay, its channel and the list on screen divide among them
  (`SectionInv`); and what is stored, numbered, buffered and sent of a stream
  between a catch-up's query and its splice leaves no gap but an item that was
  numbered before and stored behind (`StreamInv`, `SpliceInv`).
- `SessionServicesProofs`, for any set of clients (`AuthAssumption`: the session
  is not one of the others). `TokensAreRecoverable`, its three parts in one:
  `AuthInv` says that at most one client holds the newest token (who else
  refreshes is refused), that it is then not in the file, and that the temporary
  file to be renamed is the holder's own. For any servers, presets and
  selections (`McpAssumption`): `UsableEntriesAreCurrent` and
  `SelectionsAreWhole`: `McpInv` says of every entry, in the context or being
  prepared, that its revision is not ahead of its connection and that an equal
  one means a current listing or a notice under way; and that what is open is
  owned by the context, the selection or its closing. `RetriesShowOnce`: what is
  shown is of the attempt under way, and a request waits to be tried again only
  while nothing is shown (`ShowInv`). `RequestsPaired` and `PrefixKept`, for any
  prompts, answers of any length and any attempts (`CallsAssumption`), are about
  what `Wire` computes of a history of any length. `LaidOut` is proved to be a
  map of each message to a run of messages (`FlatMap`, `LaidOutIs`), and what
  remapping does to one message more (`RemapAppend`) and to messages that make
  no calls (`RemapSilent`) gives the rest by `SnocInduction`: the calls of a
  request are numbered in order (`CallsRemapped`, `RemapOrdered`), and a result
  that answers the last call with its identifier (`Sound`) gets the number of
  that call (`RemapBears`). Hence `RequestPaired`: calls have different numbers,
  each is followed by its own results, and what was recorded is there; and
  `RequestPrefix`: results carried behind an answer answer its calls only, so
  the messages before it stay as they were. `TalkInv` says that this is how
  things stand in every state: the history is sound and empty or ended by an
  answer whose calls have different identifiers (`HistoryInv`), what is pending
  or on its way answers its calls (`TurnInv`, `Asking`), a batch is under way
  exactly while calls are open, and the judge asks only then.
- `EditSessionProofs`, for any paths, texts, payloads and requests
  (`TextsAssumption`: trimming twice is trimming once; `EditAssumption`).
  `StampsAlwaysHonest`, `AnchorsAlwaysNameOneLine` and `CarriedAlwaysKeep`:
  `EditInv` says that no stamp is in the future and that what is known under one
  (by the store, by the loop guard, by the call in hand) is true while the file
  has it; that anchors let go are among the tombstones and the cached ones among
  those stored, so that what is minted is new. The steps rest on lemmas about the
  operators of `Anchors`: what a pool gives is fresh and distinct (`MintIsFresh`),
  a filling keeps what is there (`FillFills`), a reconciliation keeps anchors
  distinct for any diff and changes nothing on equal hashes
  (`ReconcileDistinct`, `ReconcileSame`), a splice has the length of its parts
  (`SpliceLength`) and each line an origin (`OriginsLead`). Ordinals of equal
  lines are ranks, cardinalities of sets of positions, and so need no induction.

Only model-checked: all liveness, since fairness and ENABLED are outside what the
proof system handles. Every safety property of a passing run is a theorem too.

Two things the proofs showed of the models. The cases of `Decode` overlapped for a
path that is not there, which TLC had resolved by taking the first. And
`BindingsFollow` said that models are absent when no layer says any: an unset of a
model that is not there leaves an empty node behind (`config.rs:139`), so a binding
may have no models as well as none at all.

## What is not modelled

`PROJECT.json` lists each component with what is left out of it, and each hazard
without a property with the reason.

- Bytes: the scanner for the exit marker and the buffer of the shell's output
  (`frances-shell`: reader.rs, proto.rs), the encodings of frames. A property of
  theirs is about positions in byte strings, which the other modules do not tell
  apart, and needs a model of its own.
- Conversions without state: what a provider makes of options, usage and
  payloads, the serde deserializer of configuration values, the words of anchors,
  regular expressions, globs, diffs and excerpts, jq over variables, the contents
  of MCP results. They are sequential and have unit tests.
- Start-up, installation of a worker, arguments, presentation in the frontend:
  plain I/O.
- Code nothing calls: `purge_and_reforge` (which would wait for its own lock,
  `history/mod.rs:50`), `force_settle_all_live`, the compaction of a stream,
  `map_async`.
- Idealised: an outside write of a file gives it a new stamp (it is the time and the
  size in the code); checksums of migrations do not collide; a message carries at
  most one attachment, as all messages of this protocol do.
- Hazards that no module reaches: the reader task's exit leaves the inbound map in
  place (`transport.rs:79`), all of stdin is written before stdout is read
  (`shell.rs:329`), a false prefix of a marker (`proto.rs:68`), and a copied chat
  that a failed replacement leaves behind (`driver.rs:258`).
