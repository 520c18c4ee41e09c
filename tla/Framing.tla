------------------------------ MODULE Framing ------------------------------
(***************************************************************************)
(* Frames and attachments of a worker connection (frances-worker-protocol: *)
(* frame.rs, content.rs, feed.rs run_writer).  A message is JSON that may  *)
(* refer to one attachment; no message of this protocol carries two.  The  *)
(* attachment is staged whole, goes out as a frame of its own before the   *)
(* JSON frame, and is held by the reader until that JSON claims it.  The   *)
(* limits on sizes and on unclaimed attachments are a failure of staging.  *)
(*                                                                         *)
(* A message is a record with a field "attached" and a field "body", the   *)
(* attachment's pieces, which is filled in when the message is decoded.    *)
(***************************************************************************)
EXTENDS Naturals, Sequences

VARIABLES
  queue,      \* [message, source] waiting for a direction's writer task
  staging,    \* the pieces of the head's attachment copied so far
  staged,     \* whether that attachment's frame is written
  wire,       \* frames written and not yet read
  received,   \* Connection::received, as a sequence: attachments unclaimed
  writing,    \* the writer task still runs
  reading,    \* the reader: "open", "ended" or "failed"
  linked      \* both processes hold the connection

lineVars == <<queue, staging, staged, wire, received, writing, reading, linked>>

Direction == {"up", "down"}
NoSource == [kind |-> "none"]
Attached(b) == [kind |-> "content", body |-> b]
Json(m) == [kind |-> "json", msg |-> m]
Torn == [kind |-> "torn"]

FramingInit ==
  /\ queue = [d \in Direction |-> <<>>]
  /\ staging = [d \in Direction |-> <<>>]
  /\ staged = [d \in Direction |-> FALSE]
  /\ wire = [d \in Direction |-> <<>>]
  /\ received = [d \in Direction |-> <<>>]
  /\ writing = [d \in Direction |-> TRUE]
  /\ reading = [d \in Direction |-> "open"]
  /\ linked = TRUE
-----------------------------------------------------------------------------
(* Writer::send and the writer task. *)

\* The queue with a message and the source its attachment is read from.
Queued(d, m, source) == [queue EXCEPT ![d] = Append(@, [msg |-> m, source |-> source])]

AtHead(d) == IF queue[d] = <<>> THEN NoSource ELSE Head(queue[d]).source
Busy(d) == writing[d] /\ linked /\ queue[d] # <<>>
MustStage(d) == Busy(d) /\ AtHead(d) # NoSource /\ ~staged[d]

\* What is read of the source goes to the temporary file.
StagePieces(d, pieces) ==
  /\ MustStage(d)
  /\ staging' = [staging EXCEPT ![d] = @ \o pieces]
  /\ UNCHANGED <<queue, staged, wire, received, writing, reading, linked>>

\* The source is at its end: the staged bytes become a frame.
WriteContent(d) ==
  /\ MustStage(d)
  /\ wire' = [wire EXCEPT ![d] = Append(@, Attached(staging[d]))]
  /\ staging' = [staging EXCEPT ![d] = <<>>]
  /\ staged' = [staged EXCEPT ![d] = TRUE]
  /\ UNCHANGED <<queue, received, writing, reading, linked>>

\* The source cannot be read, is too large, or there is no room to stage it:
\* the writer task stops, and with it every message of this direction.
StageFails(d) ==
  /\ MustStage(d)
  /\ writing' = [writing EXCEPT ![d] = FALSE]
  /\ queue' = [queue EXCEPT ![d] = <<>>]
  /\ staging' = [staging EXCEPT ![d] = <<>>]
  /\ UNCHANGED <<staged, wire, received, reading, linked>>

WriteJson(d) ==
  /\ Busy(d) /\ ~MustStage(d)
  /\ wire' = [wire EXCEPT ![d] = Append(@, Json(Head(queue[d]).msg))]
  /\ queue' = [queue EXCEPT ![d] = Tail(@)]
  /\ staged' = [staged EXCEPT ![d] = FALSE]
  /\ UNCHANGED <<staging, received, writing, reading, linked>>
-----------------------------------------------------------------------------
(* Connection::receive_raw and RawMessage::decode. *)

Arrived(d, kind) == reading[d] = "open" /\ wire[d] # <<>> /\ Head(wire[d]).kind = kind
Consume(d) == wire' = [wire EXCEPT ![d] = Tail(@)]

ReadContent(d) ==
  /\ Arrived(d, "content")
  /\ Consume(d)
  /\ received' = [received EXCEPT ![d] = Append(@, Head(wire[d]).body)]
  /\ UNCHANGED <<queue, staging, staged, writing, reading, linked>>

\* Everything received so far belongs to this message, which must claim it.
Claims(m, contents) == m.attached <=> contents # <<>>
Decoded(m, contents) == IF m.attached THEN [m EXCEPT !.body = Head(contents)] ELSE m

\* The message at the front, decoded, is handed on.
Message(d) == Decoded(Head(wire[d]).msg, received[d])
Delivered(d) ==
  /\ Arrived(d, "json") /\ Claims(Head(wire[d]).msg, received[d])
  /\ Consume(d)
  /\ received' = [received EXCEPT ![d] = <<>>]

\* The stream ends within a frame: what was staged of it is dropped.
ReadTorn(d) ==
  /\ Arrived(d, "torn")
  /\ Consume(d)
  /\ reading' = [reading EXCEPT ![d] = "failed"]
  /\ UNCHANGED <<queue, staging, staged, received, writing, linked>>

\* The stream ends between two frames.
ReadEnd(d) ==
  /\ reading[d] = "open" /\ wire[d] = <<>> /\ ~linked
  /\ reading' = [reading EXCEPT ![d] = "ended"]
  /\ UNCHANGED <<queue, staging, staged, wire, received, writing, linked>>

\* The worker is gone, maybe within a write; what it wrote can still be read.
Unlink(frames) ==
  /\ linked
  /\ linked' = FALSE
  /\ frames \in {<<>>, <<Torn>>}
  /\ frames # <<>> => Busy("down")
  /\ wire' = [up |-> <<>>, down |-> wire["down"] \o frames]
  /\ reading' = [reading EXCEPT !["up"] = "ended"]
  /\ writing' = [d \in Direction |-> FALSE]
  /\ queue' = [d \in Direction |-> <<>>]
  /\ staging' = [d \in Direction |-> <<>>]
  /\ UNCHANGED <<staged, received>>
=============================================================================
