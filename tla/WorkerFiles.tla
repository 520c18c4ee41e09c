---------------------------- MODULE WorkerFiles ----------------------------
(***************************************************************************)
(* The file operations a session's tools make on its worker                *)
(* (frances-worker client.rs, server.rs; frances-harness io/real.rs), over *)
(* the frames of Framing, with one search of FileSearch among them.  The   *)
(* tools make one call at a time, but an interrupt drops the call it waits *)
(* in, and what the worker was doing for it goes on for a while: a system  *)
(* call already handed to the blocking pool is not taken back.             *)
(*                                                                         *)
(* A file's content is a sequence of pieces, one per write of its handle.  *)
(* Files change by the worker's own writes only.                           *)
(***************************************************************************)
EXTENDS Framing, FileSearch

CONSTANTS
  Path,       \* paths the calls name
  Folder,     \* those that are directories at first
  MaxCalls,   \* bound on the calls made
  Pieces,     \* how many pieces a call writes
  SearchCalls \* the calls that may be the search

ASSUME FilesAssumption ==
  /\ Folder \subseteq Path
  /\ MaxCalls \in Nat
  /\ Pieces \in [1..MaxCalls -> Nat \ {0}]
  /\ SearchCalls \subseteq 1..MaxCalls

VARIABLES
  disk,      \* what each path is
  made,      \* calls made so far; a call is its number
  call,      \* the call the tools wait in
  tasks,     \* the worker's request tasks
  late,      \* system calls of aborted tasks, still to happen
  serving,   \* the serve loop runs
  known,     \* history: what the calls answered so far say of each path
  seen       \* history: the last read that was answered

fileVars == <<disk, made, call, tasks, late, serving, known, seen>>
vars == <<fileVars, lineVars, searchVars>>

Absent == [kind |-> "absent", body |-> <<>>]
Dir == [kind |-> "folder", body |-> <<>>]
File(b) == [kind |-> "file", body |-> b]
Content(c) == [k \in 1..Pieces[c] |-> <<c, k>>]

NoCall == [at |-> "idle"]
Believed(f) == [sure |-> TRUE, file |-> f]
Unsure == [sure |-> FALSE, file |-> Absent]
NotSeen == [sure |-> FALSE]

Writes == {"overwrite", "create"}
Ops == Writes \union {"read", "folder", "search"}

Request(c, op, p, attached) ==
  [kind |-> "request", call |-> c, op |-> op, path |-> p, attached |-> attached, body |-> <<>>]
Cancel(c) == [kind |-> "cancel", call |-> c, attached |-> FALSE]
Response(c, status, attached) ==
  [kind |-> "response", call |-> c, status |-> status, attached |-> attached, body |-> <<>>]

Init ==
  /\ FramingInit
  /\ SearchInit
  /\ disk = [p \in Path |-> IF p \in Folder THEN Dir ELSE Absent]
  /\ made = 0
  /\ call = NoCall
  /\ tasks = {}
  /\ late = {}
  /\ serving = TRUE
  /\ known = [p \in Path |-> Believed(disk[p])]
  /\ seen = NotSeen
-----------------------------------------------------------------------------
(* The host: WorkerFs over Client::call. *)

\* Writes of a path that are not over: on the way, in a task or left by one.
Unsettled(p) ==
  \/ \E i \in 1..Len(queue["up"]) : queue["up"][i].msg.kind = "request" /\ queue["up"][i].msg.path = p
  \/ \E i \in 1..Len(wire["up"]) :
       wire["up"][i].kind = "json" /\ wire["up"][i].msg.kind = "request" /\ wire["up"][i].msg.path = p
  \/ \E t \in tasks : t.path = p
  \/ \E e \in late : e.path = p

\* What may be said of p once a write of it is on its way: a file that is
\* there makes create_new fail.
Presumed(op, p) ==
  IF op = "create" /\ known[p].sure /\ known[p].file # Absent THEN known[p] ELSE Unsure

Make(op, p) ==
  LET c == made + 1
      source == [kind |-> "bytes", body |-> Content(c)] IN
  /\ call = NoCall /\ made < MaxCalls
  /\ writing["up"] /\ reading["down"] = "open"
  /\ op = "search" => search = "none" /\ c \in SearchCalls
  /\ made' = c
  /\ call' = [at |-> "sending", id |-> c, op |-> op, path |-> p, clean |-> ~Unsettled(p)]
  /\ queue' = Queued("up", Request(c, op, p, op \in Writes), IF op \in Writes THEN source ELSE NoSource)
  /\ known' = IF op \in Writes \union {"folder"} THEN [known EXCEPT ![p] = Presumed(op, p)] ELSE known
  /\ seen' = NotSeen
  /\ UNCHANGED <<disk, tasks, late, serving, searchVars>>
  /\ UNCHANGED <<staging, staged, wire, received, writing, reading, linked>>

\* What an answer says of the path.
Learned(m) ==
  CASE call.op \in Writes /\ m.status = "ok" /\ call.clean -> Believed(File(Content(call.id)))
    [] call.op = "folder" /\ m.status = "ok" /\ call.clean -> Believed(Dir)
    [] OTHER -> known[call.path]

Answered ==
  LET m == Message("down") IN
  /\ Delivered("down")
  /\ IF call.at = "waiting" /\ m.call = call.id
       THEN /\ call' = IF m.status = "search" THEN [call EXCEPT !.at = "hearing"] ELSE NoCall
            /\ known' = [known EXCEPT ![call.path] = Learned(m)]
            /\ seen' = IF call.op # "read" THEN seen
                       ELSE [sure |-> known[call.path].sure /\ m.status # "failed", path |-> call.path,
                             file |-> IF m.status = "ok" THEN File(m.body) ELSE Absent]
            /\ UNCHANGED searchVars
       ELSE /\ IF m.status = "search" THEN Close ELSE UNCHANGED searchVars
            /\ UNCHANGED <<call, known, seen>>
  /\ UNCHANGED <<disk, made, tasks, late, serving>>
  /\ UNCHANGED <<queue, staging, staged, writing, reading, linked>>

\* The call fails with the connection: the writer or the router has stopped.
Fails ==
  /\ \/ call.at = "sending" /\ ~writing["up"]
     \/ call.at = "waiting" /\ reading["down"] # "open"
     \/ call.at = "hearing" /\ reading["down"] # "open"
  /\ call' = NoCall
  /\ UNCHANGED <<disk, made, tasks, late, serving, known, seen, lineVars, searchVars>>

\* An interrupt drops the call where it waits; CancelOnDrop writes a Cancel.
Drop ==
  /\ call.at \in {"sending", "waiting"}
  /\ call' = NoCall
  /\ queue' = IF call.at = "waiting" /\ writing["up"] THEN Queued("up", Cancel(call.id), NoSource) ELSE queue
  /\ UNCHANGED <<disk, made, tasks, late, serving, known, seen, searchVars>>
  /\ UNCHANGED <<staging, staged, wire, received, writing, reading, linked>>

\* find_or_grep is dropped, or returns what it collected.
DropSearch ==
  /\ call.at = "hearing"
  /\ IF closed THEN UNCHANGED searchVars ELSE Close
  /\ call' = NoCall
  /\ UNCHANGED <<disk, made, tasks, late, serving, known, seen, lineVars>>

SearchReturns ==
  /\ call.at = "hearing"
  /\ Finish \/ FinishBroken
  /\ call' = NoCall
  /\ UNCHANGED <<disk, made, tasks, late, serving, known, seen, lineVars>>
-----------------------------------------------------------------------------
(* The worker: serve and handle. *)

Task(m) == [id |-> m.call, op |-> m.op, path |-> m.path, at |-> "open", next |-> 1, body |-> m.body]
Become(t, u) == tasks' = (tasks \ {t}) \union {u}

Receive ==
  LET m == Message("up") IN
  /\ serving /\ Delivered("up") /\ m.kind = "request"
  /\ tasks' = tasks \union {Task(m)}
  /\ UNCHANGED <<disk, made, call, late, serving, known, seen, searchVars>>
  /\ UNCHANGED <<queue, staging, staged, writing, reading, linked>>

\* The system calls of t's next step: the open, the next write or the mkdirs.
Piece(t) == [op |-> "piece", path |-> t.path, at |-> t.next, piece |-> t.body[t.next]]
Opening(t) == [op |-> t.op, path |-> t.path]
InFlight(t) ==
  IF t.op \notin Writes \union {"folder"} THEN {}
  ELSE IF t.at = "open" THEN {Opening(t)}
  ELSE IF t.next <= Len(t.body) THEN {Piece(t)} ELSE {}

\* Mutant: create_new opens a file that is there.
RefusesFolder(op, f) == f.kind = "folder"

\* What an open fails on; it empties what it does not fail on.
Refuses(op, f) == f.kind = "folder" \/ (op = "create" /\ f # Absent)

\* A write at an offset that another handle's truncation has cut away.
Hole == <<0, 0>>
Put(f, i, piece) ==
  File([k \in 1..(IF Len(f.body) < i THEN i ELSE Len(f.body)) |->
          IF k = i THEN piece ELSE IF k <= Len(f.body) THEN f.body[k] ELSE Hole])

\* Cancel: the task stops at its await, which may leave a system call behind.
CancelTask ==
  LET m == Message("up") IN
  /\ serving /\ Delivered("up") /\ m.kind = "cancel" /\ writing["down"]
  /\ tasks' = {t \in tasks : t.id # m.call}
  /\ \E behind \in SUBSET UNION {InFlight(t) : t \in {u \in tasks : u.id = m.call}} :
       late' = late \union behind
  /\ queue' = Queued("down", Response(0, "ok", FALSE), NoSource)
  /\ UNCHANGED <<disk, made, call, serving, known, seen, searchVars>>
  /\ UNCHANGED <<staging, staged, writing, reading, linked>>

\* A Cancel that cannot be answered ends serve, and with it the process.
ServeFails ==
  /\ serving /\ Arrived("up", "json") /\ Message("up").kind = "cancel" /\ ~writing["down"]
  /\ serving' = FALSE
  /\ tasks' = {}
  /\ Unlink(<<>>)
  /\ UNCHANGED <<disk, made, call, late, known, seen, searchVars>>

Folded(f) == IF f = Absent THEN Dir ELSE f

Happens(e) ==
  disk' = [disk EXCEPT ![e.path] =
             CASE e.op = "folder" -> Folded(@)
               [] e.op \in Writes -> IF Refuses(e.op, @) THEN @ ELSE File(<<>>)
               [] OTHER -> IF @.kind = "file" THEN Put(@, e.at, e.piece) ELSE @]

LateCall ==
  /\ \E e \in late : Happens(e) /\ late' = late \ {e}
  /\ UNCHANGED <<made, call, tasks, serving, known, seen, lineVars, searchVars>>

\* Response is queued for the writer, if there is one, and the task ends.
Respond(t, status, source) ==
  /\ tasks' = tasks \ {t}
  /\ queue' = IF writing["down"]
                THEN Queued("down", Response(t.id, status, source # NoSource), source)
                ELSE queue
  /\ UNCHANGED <<staging, staged, wire, received, writing, reading, linked>>

\* FsWrite opens the file.
Open(t) ==
  /\ t.at = "open" /\ t.op \in Writes
  /\ IF Refuses(t.op, disk[t.path])
       THEN Respond(t, "error", NoSource) /\ UNCHANGED disk
       ELSE /\ disk' = [disk EXCEPT ![t.path] = File(<<>>)]
            /\ Become(t, [t EXCEPT !.at = "copy"])
            /\ UNCHANGED lineVars
  /\ UNCHANGED <<made, call, late, serving, known, seen, searchVars>>

\* Content::copy_to, piece by piece.
Copy(t) ==
  /\ t.at = "copy" /\ t.next <= Len(t.body)
  /\ disk' = [disk EXCEPT ![t.path] = Put(@, t.next, t.body[t.next])]
  /\ Become(t, [t EXCEPT !.next = @ + 1])
  /\ UNCHANGED <<made, call, late, serving, known, seen, lineVars, searchVars>>

Copied(t) ==
  /\ t.at = "copy" /\ t.next > Len(t.body)
  /\ Respond(t, "ok", NoSource)
  /\ UNCHANGED <<disk, made, call, late, serving, known, seen, searchVars>>

\* A system call fails for a reason of its own, between any two of a handler:
\* io_error is the answer, and what was done before it stays.
OpFails(t) ==
  /\ t.op # "search"
  /\ Respond(t, "failed", NoSource)
  /\ UNCHANGED <<disk, made, call, late, serving, known, seen, searchVars>>

\* FsRead opens the file, a directory too; it is read when it is sent.
Read(t) ==
  /\ t.op = "read"
  /\ IF disk[t.path] = Absent
       THEN Respond(t, "error", NoSource)
       ELSE Respond(t, "ok", [kind |-> "file", path |-> t.path])
  /\ UNCHANGED <<disk, made, call, late, serving, known, seen, searchVars>>

\* FsCreateDirAll.
MakeFolder(t) ==
  /\ t.op = "folder"
  /\ Respond(t, IF disk[t.path].kind = "file" THEN "error" ELSE "ok", NoSource)
  /\ disk' = [disk EXCEPT ![t.path] = Folded(@)]
  /\ UNCHANGED <<made, call, late, serving, known, seen, searchVars>>

OpenSearch(t) ==
  /\ t.op = "search"
  /\ Start
  /\ Respond(t, "search", NoSource)
  /\ UNCHANGED <<disk, made, call, late, serving, known, seen>>
-----------------------------------------------------------------------------
(* The two writer tasks and readers, and the end of the worker. *)

Source(d) == AtHead(d)
Rest(d) ==
  LET b == IF Source(d).kind = "bytes" THEN Source(d).body ELSE disk[Source(d).path].body
  IN SubSeq(b, Len(staging[d]) + 1, Len(b))
Unreadable(d) == Source(d).kind = "file" /\ disk[Source(d).path].kind = "folder"

\* One read of a file, all of the bytes in memory, the end of either, or a
\* failure: that of reading a directory, or of the temporary file.
Stage(d) ==
  /\ MustStage(d)
  /\ \/ StageFails(d)
     \/ /\ ~Unreadable(d)
        /\ IF Rest(d) = <<>> THEN WriteContent(d) ELSE StagePieces(d, IF Source(d).kind = "file" THEN <<Rest(d)[1]>> ELSE Rest(d))

\* The call whose request is written can be cancelled from here on.
Write(d) ==
  /\ WriteJson(d)
  /\ call' = IF d = "up" /\ call.at = "sending" /\ Head(queue[d]).msg.call = call.id
               THEN [call EXCEPT !.at = "waiting"] ELSE call
  /\ UNCHANGED <<disk, made, tasks, late, serving, known, seen, searchVars>>

Carry(d) == Stage(d) \/ ReadContent(d) \/ ReadTorn(d) \/ ReadEnd(d)

Line(d) == Write(d) \/ (Carry(d) /\ UNCHANGED <<fileVars, searchVars>>)

\* The worker dies, with its tasks and its walkers.
Dies ==
  /\ \E frames \in {<<>>, <<Torn>>} : Unlink(frames)
  /\ serving' = FALSE
  /\ tasks' = {}
  /\ IF search = "none" THEN UNCHANGED <<search, walker>>
     ELSE search' = "over" /\ walker' = [w \in Walker |-> Idle]
  /\ UNCHANGED <<todo, reserved, truncated, quit, feed, closed, entries, result, lost>>
  /\ UNCHANGED <<disk, made, call, late, known, seen>>

\* A feed that no connection carries any more loses its receiver.
FeedBreaks ==
  /\ ~writing["down"]
  /\ Close
  /\ UNCHANGED <<fileVars, lineVars>>

Walk == WalkStep /\ UNCHANGED <<fileVars, lineVars>>
\* The answer that carries the feed is with the reader, not decoded yet.
Overtaken ==
  /\ Arrived("down", "json") /\ Message("down").status = "search"
  /\ Lose
  /\ UNCHANGED <<fileVars, lineVars>>

SearchBreaks == Breaks /\ UNCHANGED <<fileVars, lineVars>>

Hear == Collect /\ call.at = "hearing" /\ UNCHANGED <<fileVars, lineVars>>

HostStep == Answered \/ Fails \/ SearchReturns \/ Hear \/ Overtaken
TaskStep ==
  \/ Receive \/ CancelTask \/ ServeFails \/ LateCall
  \/ \E t \in tasks :
       Open(t) \/ Copy(t) \/ Copied(t) \/ OpFails(t) \/ Read(t) \/ MakeFolder(t) \/ OpenSearch(t)

Fairness == WF_vars(Walk)

Next ==
  \/ \E op \in Ops, p \in Path : Make(op, p)
  \/ Drop \/ DropSearch \/ Dies \/ FeedBreaks \/ SearchBreaks
  \/ HostStep \/ TaskStep \/ Walk
  \/ \E d \in Direction : Line(d)

Spec == Init /\ [][Next]_vars /\ Fairness

(* What an answered write says of a path stays true until the next write   *)
(* of it: the whole content is in the file when the answer is there, a     *)
(* file made with create_new is no other call's, and a later read brings   *)
(* back what was written, through attachments, tasks and cancelled calls   *)
(* (server.rs:283-308, frame.rs:55-72, content.rs:194).  Nothing is known  *)
(* of a path while a write is not answered, nor when one was made beside   *)
(* the remains of a cancelled one.                                         *)
ReadYourWrites ==
  /\ \A p \in Path : known[p].sure => disk[p] = known[p].file
  /\ seen.sure => seen.file = known[seen.path].file
=============================================================================
