---------------------------- MODULE McpSession ----------------------------
(***************************************************************************)
(* The MCP servers of a session: frances-mcp's connections and the tools   *)
(* the driver's context has of them.  A selection prepares connections and *)
(* lists tools, then replaces the context's; a call is checked, asked for, *)
(* checked again and sent.  Meanwhile servers change their tools and tell, *)
(* subscriptions end, servers hang up, the user interrupts, and processes  *)
(* are stopped.  The driver does one selection or call at a time.          *)
(***************************************************************************)
EXTENDS McpConfig, Sequences, Bounds

CONSTANTS Selections,   \* what the user may select
          Modern,       \* servers whose tool changes are told by a subscription, not by the peer
          HasResources, \* servers that get the two tools of the host
          MaxRounds     \* the code's 16 continuations of a request

VARIABLES catalog,      \* the version of each server's tools
          conns,        \* every Connection made, in order
          context,      \* McpTools of the context: server -> connection, revision, declared version
          work,         \* the selection or call the driver is at
          cancelled     \* the cancel token of that work

Idle == [pc |-> "idle"]
Ended == [pc |-> "ended"]
Empty == [s \in {} |-> 0]

Init == /\ catalog = [s \in Configured |-> 0]
        /\ conns = << >> /\ context = Empty /\ work = Idle

Conns == DOMAIN conns
IsOpen(c) == conns[c].end = "open"
ConnsOf(tools) == {tools[s].conn : s \in DOMAIN tools}

(* A command runs at the worker or on the host; an HTTP server is a process of nobody here.  A server *)
(* that hangs with its input full (reads is FALSE) takes no more of it and writes nothing.            *)
NewConnection(s) ==
  [server |-> s, changed |-> 0, notes |-> 0, listening |-> TRUE, end |-> "open", reads |-> TRUE,
   process |-> IF Kind(s) = "http" THEN "none" ELSE "running"]

(* Connections dropped or closed; what their server still tells matters no more. *)
Closed(cs) == [c \in Conns |-> IF c \in cs /\ IsOpen(c) THEN [conns[c] EXCEPT !.end = "closed", !.notes = 0]
                               ELSE conns[c]]

(* Selections *)

Select ==
  /\ work = Idle /\ Spend("selects")
  /\ \E selection \in Selections :
       /\ Resolve(selection) # Unresolved
       /\ work' = [pc |-> "connect", todo |-> Resolve(selection), next |-> Empty]
  /\ cancelled' = FALSE
  /\ UNCHANGED << catalog, conns, context >>

(* The revision is read before the tools are listed. *)
Prepare(s, c) ==
  work' = [pc |-> "list", todo |-> work.todo \ {s}, preparing |-> s,
           next |-> [t \in {s} \cup DOMAIN work.next |->
                       IF t = s THEN [conn |-> c, revision |-> conns'[c].changed, version |-> 0]
                       ELSE work.next[t]]]

Reuse ==
  /\ work.pc = "connect" /\ ~cancelled
  /\ UNCHANGED conns
  /\ \E s \in work.todo \cap DOMAIN context :
       IsOpen(context[s].conn) /\ Prepare(s, context[s].conn)
  /\ UNCHANGED << catalog, context, cancelled, left >>

Connect ==
  /\ work.pc = "connect" /\ ~cancelled
  /\ \E s \in work.todo :
       /\ s \in DOMAIN context => ~IsOpen(context[s].conn)
       /\ conns' = Append(conns, NewConnection(s))
       /\ Prepare(s, Len(conns) + 1)
  /\ UNCHANGED << catalog, context, cancelled, left >>

Prepared == work.next[work.preparing]

(* The server answers tools/list with the tools of now ... *)
List ==
  /\ work.pc = "list" /\ ~cancelled /\ IsOpen(Prepared.conn) /\ conns[Prepared.conn].reads
  /\ work' = [work EXCEPT !.pc = "listed", !.next[work.preparing].version = catalog[work.preparing]]
  /\ UNCHANGED << catalog, conns, context, cancelled, left >>

TakenAnew(entry) == [entry EXCEPT !.revision = conns[entry.conn].changed]
Taken(entry) == entry

Usable(entry) == conns[entry.conn].changed = entry.revision

(* ... which are taken if the revision is still the one read. *)
Take ==
  /\ work.pc = "listed" /\ ~cancelled /\ Usable(Taken(Prepared))
  /\ work' = [work EXCEPT !.pc = "connect", !.next[work.preparing] = Taken(@)]
  /\ UNCHANGED << catalog, conns, context, cancelled, left >>

Selecting == work.pc \in {"connect", "list", "listed"}

AllDropped == ConnsOf(work.next)
Dropped == AllDropped \ ConnsOf(context)

(* A connect that is dropped may have started its process: the task or the bridge stays, and the     *)
(* transport's end is closed.                                                                        *)
Started == IF work.pc # "connect" THEN {}
           ELSE {s \in work.todo : Kind(s) # "http" /\ (s \in DOMAIN context => ~IsOpen(context[s].conn))}
Left(s) == [NewConnection(s) EXCEPT !.end = "closed"]

(* An error of any step: connections that are only the new selection's go with it. *)
Abort == /\ Selecting
         /\ \/ conns' = Closed(Dropped)
            \/ \E s \in Started : conns' = Append(Closed(Dropped), Left(s))
         /\ work' = Idle /\ UNCHANGED << catalog, context, cancelled >>

NoConnection == work.pc = "connect" /\ work.todo # {} /\ Spend("faults")
NoTools ==
  /\ work.pc = "list"
  /\ \/ Spend("faults")
     \/ ~IsOpen(Prepared.conn) /\ UNCHANGED left
InventoryChanged == work.pc = "listed" /\ ~Usable(Taken(Prepared)) /\ UNCHANGED left
NotRecorded == work.pc = "connect" /\ work.todo = {} /\ Spend("faults")
SelectFails == Abort /\ (NoConnection \/ NoTools \/ InventoryChanged \/ NotRecorded)
SelectInterrupted == Abort /\ cancelled /\ UNCHANGED left

(* The new context, and McpTools::close of the old: of what nobody shares any more. *)
Replaced == ConnsOf(context) \ ConnsOf(work.next)
Swap ==
  /\ work.pc = "connect" /\ work.todo = {} /\ ~cancelled
  /\ context' = work.next
  /\ conns' = Closed(Replaced)
  /\ work' = [pc |-> "closing", olds |-> Replaced]
  /\ UNCHANGED << catalog, cancelled, left >>

(* close waits for the task of a local process. *)
CloseDone ==
  /\ work.pc = "closing"
  /\ \A c \in work.olds : Kind(conns[c].server) = "local-stdio" => conns[c].process = "gone"
  /\ work' = Idle /\ UNCHANGED << catalog, conns, context, cancelled, left >>

(* Calls *)

(* execute, up to the question: an entry of another revision is refused. *)
Call ==
  /\ work = Idle /\ ~cancelled /\ Spend("calls")
  /\ \E s \in DOMAIN context, operation \in {"tool", "resources", "read_resource"} :
       /\ operation # "tool" => s \in HasResources
       /\ Usable(context[s])
       /\ work' = [pc |-> IF operation = "resources" THEN "allowed" ELSE "ask",
                   server |-> s, operation |-> operation, round |-> 0]
  /\ UNCHANGED << catalog, conns, context, cancelled >>

CallConn == context[work.server].conn

Answered(allowed) ==
  /\ work.pc = "ask" /\ ~cancelled
  /\ work' = IF allowed THEN [work EXCEPT !.pc = "allowed"] ELSE Idle
  /\ UNCHANGED << catalog, conns, context, cancelled, left >>
Permit == Answered(TRUE)
Deny == Answered(FALSE)

(* complete: a request, sent again with the state of the answer while the server asks for that. *)
Request ==
  /\ work.pc = "allowed" /\ ~cancelled /\ IsOpen(CallConn) /\ work.round < MaxRounds
  /\ work.round = 0 => Usable(context[work.server])
  /\ work' = [work EXCEPT !.pc = "sent", !.round = @ + 1]
  /\ UNCHANGED << catalog, conns, context, cancelled, left >>

Continue ==
  /\ work.pc = "sent" /\ ~cancelled /\ IsOpen(CallConn) /\ work.operation # "resources"
  /\ conns[CallConn].reads
  /\ work' = [work EXCEPT !.pc = "allowed"]
  /\ UNCHANGED << catalog, conns, context, cancelled, left >>

(* The result, an error, the deadline; a changed inventory; the last round; an interrupt. *)
CallEnds ==
  /\ \/ work.pc = "sent"
     \/ /\ work.pc = "allowed"
        /\ \/ work.round = 0 /\ ~Usable(context[work.server])
           \/ work.round = MaxRounds
           \/ ~IsOpen(CallConn)
           \/ cancelled
     \/ work.pc = "ask" /\ cancelled
  /\ work' = Idle /\ UNCHANGED << catalog, conns, context, cancelled, left >>

(* Interrupt, or another selection waiting; and the end of the session. *)
Interrupt ==
  /\ work.pc \notin {"idle", "ended"} /\ ~cancelled /\ Spend("interrupts")
  /\ cancelled' = TRUE
  /\ UNCHANGED << catalog, conns, context, work >>

End ==
  /\ work = Idle /\ Spend("ends")
  /\ conns' = Closed(ConnsOf(context)) /\ context' = Empty /\ work' = Ended
  /\ UNCHANGED << catalog, cancelled >>

(* Servers *)

(* A server's tools change: every listening connection to it is told. *)
ServerChanges(s) ==
  /\ Spend("changes")
  /\ catalog' = [catalog EXCEPT ![s] = @ + 1]
  /\ conns' = [c \in Conns |-> IF conns[c].server = s /\ conns[c].listening /\ IsOpen(c)
                               THEN [conns[c] EXCEPT !.notes = @ + 1] ELSE conns[c]]
  /\ UNCHANGED << context, work, cancelled >>

Notice(c) ==
  /\ conns[c].notes > 0 /\ conns[c].reads
  /\ conns' = [conns EXCEPT ![c].notes = @ - 1, ![c].changed = @ + 1]
  /\ UNCHANGED << catalog, context, work, cancelled, left >>

(* A subscription ends or fails: counted as a change, and never opened again. *)
SubscriptionEnds(c) ==
  /\ conns[c].server \in Modern /\ conns[c].listening /\ conns[c].notes = 0
  /\ IsOpen(c) /\ Spend("endings")
  /\ conns' = [conns EXCEPT ![c].listening = FALSE, ![c].changed = @ + 1]
  /\ UNCHANGED << catalog, context, work, cancelled >>

(* A server exits, or closes its output and runs on. *)
HangUp(c) ==
  /\ IsOpen(c) /\ Spend("deaths")
  /\ \E exited \in BOOLEAN :
       conns' = [conns EXCEPT ![c].end = "lost", ![c].notes = 0,
                              ![c].process = IF exited /\ @ = "running" THEN "gone" ELSE @]
  /\ UNCHANGED << catalog, context, work, cancelled >>

(* A server stops to read until its input is full, and to write; it may go on later. *)
Hangs(c) ==
  /\ IsOpen(c) /\ conns[c].process = "running" /\ conns[c].reads /\ Spend("deaths")
  /\ conns' = [conns EXCEPT ![c].reads = FALSE]
  /\ UNCHANGED << catalog, context, work, cancelled >>

Resumes(c) ==
  /\ conns[c].process = "running" /\ ~conns[c].reads
  /\ conns' = [conns EXCEPT ![c].reads = TRUE]
  /\ UNCHANGED << catalog, context, work, cancelled, left >>

(* Processes: of the two copies between the process and its connection one ends, and shutdown follows. *)
(* That of the output ends with the output; that of the input when the connection was closed here, but *)
(* not before what it has read is written.                                                             *)
InputEnds(c) == conns[c].end = "closed" /\ conns[c].reads
CopyEnds(c) == conns[c].end = "lost" \/ InputEnds(c)

Terminate(c) ==
  /\ conns[c].process = "running" /\ CopyEnds(c)
  /\ conns' = [conns EXCEPT ![c].process = "term"]
  /\ UNCHANGED << catalog, context, work, cancelled, left >>

Reap(c) ==
  /\ conns[c].process = "term"
  /\ conns' = [conns EXCEPT ![c].process = "gone"]
  /\ UNCHANGED << catalog, context, work, cancelled, left >>

ProcessSteps == \E c \in Conns : Terminate(c) \/ Reap(c)

Selection ==
  \/ Reuse \/ Connect \/ List \/ Take \/ SelectFails \/ SelectInterrupted \/ Swap \/ CloseDone
  \/ Interrupt

Calling == Permit \/ Request \/ Continue
CallOver == Deny \/ CallEnds

Servers ==
  \/ \E s \in Configured : ServerChanges(s)
  \/ \E c \in Conns : Notice(c) \/ SubscriptionEnds(c) \/ HangUp(c) \/ Hangs(c) \/ Resumes(c)

(* Declared with the tools the server has, or the word that it has others is on its way. *)
Current(s) == \/ context[s].version = catalog[s]
              \/ conns[context[s].conn].notes > 0

(* An entry the next call would pass with is current, as long as the connection is listening: a      *)
(* change between the revision's reading and the listing, or later, makes it unusable (select,       *)
(* execute).                                                                                         *)
UsableIsCurrent ==
  \A s \in DOMAIN context :
    LET c == context[s].conn IN Usable(context[s]) /\ IsOpen(c) /\ conns[c].listening => Current(s)

(* Whatever selections fail, are interrupted or share servers: the context's connections were closed *)
(* by nobody here, and between works no other connection is open (replace_mcp, McpTools::close).     *)
SelectionIsWhole ==
  /\ \A c \in ConnsOf(context) : conns[c].end # "closed"
  /\ work.pc \in {"idle", "ended"} => \A c \in Conns : IsOpen(c) => c \in ConnsOf(context)

(* A process whose connection ended, by whichever side, or never began because the connect was        *)
(* dropped, does not stay (connect, process::shutdown), unless it is one that hangs with its input    *)
(* full: then neither copy ends, and close waits as long (connection.rs:440).                         *)
Stuck(c) == conns[c].end = "closed" /\ ~conns[c].reads
ProcessesStop == []<>(\A c \in Conns : IsOpen(c) \/ Stuck(c) \/ conns[c].process \in {"none", "gone"})
=============================================================================
