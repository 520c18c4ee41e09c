--------------------------- MODULE FeedTransport ---------------------------
(***************************************************************************)
(* Feeds multiplexed over one framed full-duplex connection                *)
(* (frances-worker-protocol: feed.rs, transport.rs).  Each side runs a     *)
(* writer task that serializes frames from a bounded queue and a reader    *)
(* task that routes them.  A feed is a bounded channel whose receiving     *)
(* half travels inside a message: its side writes that message, then       *)
(* starts a pump that forwards values one frame at a time.  The peer knows *)
(* the feed only once somebody has decoded the message.                    *)
(*                                                                         *)
(* Values are numbered in the order they are sent, so a channel that loses *)
(* nothing is a count: the unread ones are the last `buffered` produced.   *)
(***************************************************************************)
EXTENDS Naturals, Sequences, FiniteSets

CONSTANTS
  Feed,        \* feed ids
  Origin,      \* the side that holds a feed's FeedSender
  FeedCap,     \* FEED_CAPACITY, both for the local and the inbound channel
  QueueCap,    \* capacity of a side's write queue
  WireCap,     \* frames the pipe holds before a write blocks
  MessageCap,  \* capacity of a side's channel of top-level messages
  MaxItems     \* bound: values one producer sends

Side == {"host", "worker"}
Peer(s) == IF s = "host" THEN "worker" ELSE "host"

ASSUME FeedAssumption ==
  /\ Origin \in [Feed -> Side]
  /\ FeedCap \in Nat \ {0}
  /\ QueueCap \in Nat \ {0}
  /\ WireCap \in Nat \ {0}
  /\ MessageCap \in Nat \ {0}
  /\ MaxItems \in Nat

VARIABLES
  produced,    \* values accepted by FeedSender::send
  senderOpen,  \* a FeedSender clone is alive
  buffered,    \* values waiting in the local channel
  pump,        \* where the receiving half is, see PumpState
  registry,    \* outbound_feeds: "absent", "present" or "removed"
  queue,       \* frames waiting for a side's writer task
  writing,     \* the writer task of a side still runs
  up,          \* the transport is connected
  wire,        \* frames a side has written and the peer has not read
  reading,     \* the reader task of a side still runs
  held,        \* the frame a side's reader waits to hand over (at most one)
  messages,    \* top-level messages routed and not yet received
  inbound,     \* feeds with a sender in the peer's `feeds` map
  rx,          \* the peer's Feed: "none", "open" or "dropped"
  inbox,       \* frames waiting in the peer's inbound channel
  delivered,   \* history: values returned by Feed::next
  closed,      \* Feed::next has returned Closed
  written,     \* history: number of the last value put on the wire
  routed,      \* history: number of the last value taken off the wire
  strays       \* history: feeds that lost a frame no receiver had dropped

producerVars == <<produced, senderOpen, buffered>>
connVars     == <<queue, writing, up, wire>>
readerVars   == <<reading, held, messages>>
consumerVars == <<inbound, rx, inbox, delivered, closed>>
historyVars  == <<written, routed, strays>>
vars == <<producerVars, pump, registry, connVars, readerVars, consumerVars,
          historyVars>>

Kind  == {"ref", "item", "end", "cancel"}
Frame == [kind : Kind, feed : Feed, item : 0..MaxItems]

RefFrame(f)    == [kind |-> "ref",    feed |-> f, item |-> 0]
ItemFrame(f,i) == [kind |-> "item",   feed |-> f, item |-> i]
EndFrame(f)    == [kind |-> "end",    feed |-> f, item |-> 0]
CancelFrame(f) == [kind |-> "cancel", feed |-> f, item |-> 0]

(***************************************************************************)
(* unsent    in the Feed, FeedState::Local                                 *)
(* refQueued in a PendingFeed; Writer::send awaits `finished`              *)
(* written   the frame is on the wire, Writer::send has not resumed        *)
(* recv      the pump task awaits the local channel                        *)
(* hand      it holds a value and awaits room in the write queue           *)
(* itemQueued, ending, endQueued                                           *)
(*           likewise, awaiting `finished`, or with the end frame          *)
(* done, aborted, abandoned                                                *)
(*           the receiving half is dropped: the pump returned, was aborted   *)
(*           by a cancel, or never started                                   *)
(***************************************************************************)
PumpState == {"unsent", "refQueued", "written", "recv", "hand", "itemQueued",
              "ending", "endQueued", "done", "aborted", "abandoned"}
Finished == {"done", "aborted", "abandoned"}
Pumping  == {"recv", "hand", "itemQueued", "ending", "endQueued"}

Receiver(f) == Peer(Origin[f])
InHand(f)   == produced[f] - buffered[f]

Init ==
  /\ produced = [f \in Feed |-> 0]
  /\ senderOpen = [f \in Feed |-> TRUE]
  /\ buffered = [f \in Feed |-> 0]
  /\ pump = [f \in Feed |-> "unsent"]
  /\ registry = [f \in Feed |-> "absent"]
  /\ queue = [s \in Side |-> <<>>]
  /\ writing = [s \in Side |-> TRUE]
  /\ up = TRUE
  /\ wire = [s \in Side |-> <<>>]
  /\ reading = [s \in Side |-> TRUE]
  /\ held = [s \in Side |-> <<>>]
  /\ messages = [s \in Side |-> <<>>]
  /\ inbound = {}
  /\ rx = [f \in Feed |-> "none"]
  /\ inbox = [f \in Feed |-> <<>>]
  /\ delivered = [f \in Feed |-> <<>>]
  /\ closed = [f \in Feed |-> FALSE]
  /\ written = [f \in Feed |-> 0]
  /\ routed = [f \in Feed |-> 0]
  /\ strays = {}
-----------------------------------------------------------------------------
(* The producer and its local channel. *)

\* FeedSender::send: waits while the channel is full, fails once the receiving
\* half is gone.
Produce(f) ==
  /\ senderOpen[f]
  /\ pump[f] \notin Finished
  /\ buffered[f] < FeedCap
  /\ produced[f] < MaxItems
  /\ produced' = [produced EXCEPT ![f] = @ + 1]
  /\ buffered' = [buffered EXCEPT ![f] = @ + 1]
  /\ UNCHANGED <<senderOpen, pump, registry, connVars, readerVars,
                 consumerVars, historyVars>>

\* The last FeedSender clone is dropped.
CloseSender(f) ==
  /\ senderOpen[f]
  /\ senderOpen' = [senderOpen EXCEPT ![f] = FALSE]
  /\ UNCHANGED <<produced, buffered, pump, registry, connVars, readerVars,
                 consumerVars, historyVars>>
-----------------------------------------------------------------------------
(* Writer::send of the message that carries the feed. *)

CanQueue(s) == writing[s] /\ Len(queue[s]) < QueueCap
Enqueue(s, frame) == queue' = [queue EXCEPT ![s] = Append(@, frame)]

SendRef(f) ==
  /\ pump[f] = "unsent"
  /\ CanQueue(Origin[f])
  /\ pump' = [pump EXCEPT ![f] = "refQueued"]
  /\ Enqueue(Origin[f], RefFrame(f))
  /\ UNCHANGED <<producerVars, registry, writing, up, wire, readerVars,
                 consumerVars, historyVars>>

\* `activate` spawns the pump; the entry in outbound_feeds comes after it.
Activate(f) ==
  /\ pump[f] = "written"
  /\ pump' = [pump EXCEPT ![f] = "recv"]
  /\ UNCHANGED <<producerVars, registry, connVars, readerVars, consumerVars,
                 historyVars>>

Register(f) ==
  /\ pump[f] \in Pumping \union {"done", "aborted"}
  /\ registry[f] = "absent"
  /\ registry' = [registry EXCEPT ![f] = "present"]
  /\ UNCHANGED <<producerVars, pump, connVars, readerVars, consumerVars,
                 historyVars>>

\* The task inside Writer::send is aborted at one of its awaits, or the writer
\* has stopped: the PendingFeed is dropped, a frame already queued is not.
AbandonSend(f) ==
  /\ pump[f] \in {"unsent", "refQueued", "written"}
  /\ pump' = [pump EXCEPT ![f] = "abandoned"]
  /\ UNCHANGED <<producerVars, registry, connVars, readerVars, consumerVars,
                 historyVars>>
-----------------------------------------------------------------------------
(* The pump task. *)

\* Mutant: the pump ends with the last sender, before the channel is drained.
SendersGone(f) == ~senderOpen[f]

ChannelOver(f) == buffered[f] = 0 /\ ~senderOpen[f]

PumpTake(f) ==
  /\ pump[f] = "recv"
  /\ \/ /\ buffered[f] > 0
        /\ buffered' = [buffered EXCEPT ![f] = @ - 1]
        /\ pump' = [pump EXCEPT ![f] = "hand"]
     \/ /\ ChannelOver(f)
        /\ pump' = [pump EXCEPT ![f] = "ending"]
        /\ UNCHANGED buffered
  /\ UNCHANGED <<produced, senderOpen, registry, connVars, readerVars,
                 consumerVars, historyVars>>

PumpSend(f) ==
  /\ CanQueue(Origin[f])
  /\ \/ /\ pump[f] = "hand"
        /\ pump' = [pump EXCEPT ![f] = "itemQueued"]
        /\ Enqueue(Origin[f], ItemFrame(f, InHand(f)))
     \/ /\ pump[f] = "ending"
        /\ pump' = [pump EXCEPT ![f] = "endQueued"]
        /\ Enqueue(Origin[f], EndFrame(f))
  /\ UNCHANGED <<producerVars, registry, writing, up, wire, readerVars,
                 consumerVars, historyVars>>

\* writer.send failed: the pump returns and drops its receiver.
PumpFail(f) ==
  /\ ~writing[Origin[f]]
  /\ pump[f] \in {"hand", "itemQueued", "ending", "endQueued"}
  /\ pump' = [pump EXCEPT ![f] = "done"]
  /\ UNCHANGED <<producerVars, registry, connVars, readerVars, consumerVars,
                 historyVars>>
-----------------------------------------------------------------------------
(* run_writer. *)

\* What `done.send(Ok)` resumes, for the sender of this frame.
Resumed(frame) ==
  LET p == pump[frame.feed] IN
  CASE frame.kind = "ref"  /\ p = "refQueued"  -> "written"
    [] frame.kind = "item" /\ p = "itemQueued" -> "recv"
    [] frame.kind = "end"  /\ p = "endQueued"  -> "done"
    [] OTHER -> p

Noted(history, frame) ==
  IF frame.kind = "item" THEN [history EXCEPT ![frame.feed] = frame.item]
  ELSE history

WriteFrame(s) ==
  /\ up /\ writing[s]
  /\ queue[s] # <<>>
  /\ Len(wire[s]) < WireCap
  /\ LET frame == Head(queue[s]) IN
       /\ wire' = [wire EXCEPT ![s] = Append(@, frame)]
       /\ pump' = [pump EXCEPT ![frame.feed] = Resumed(frame)]
       /\ written' = Noted(written, frame)
  /\ queue' = [queue EXCEPT ![s] = Tail(@)]
  /\ UNCHANGED <<producerVars, registry, writing, up, readerVars, consumerVars,
                 routed, strays>>

\* A failed write ends the task and drops every queued request.
WriterStops(s) ==
  /\ ~up /\ writing[s]
  /\ queue[s] # <<>>
  /\ writing' = [writing EXCEPT ![s] = FALSE]
  /\ queue' = [queue EXCEPT ![s] = <<>>]
  /\ UNCHANGED <<producerVars, pump, registry, up, wire, readerVars,
                 consumerVars, historyVars>>

\* The peer or the link dies: what has not arrived may be cut anywhere.
Disconnect ==
  /\ up
  /\ up' = FALSE
  /\ \E keep \in [Side -> 0..WireCap] :
       wire' = [s \in Side |->
                  SubSeq(wire[s], 1, IF keep[s] < Len(wire[s]) THEN keep[s]
                                     ELSE Len(wire[s]))]
  /\ UNCHANGED <<producerVars, pump, registry, queue, writing, readerVars,
                 consumerVars, historyVars>>
-----------------------------------------------------------------------------
(* run_reader and route_feed of the side the frames arrive at. *)

Arrived(s) == Head(wire[Peer(s)])
TakeOff(s) == wire' = [wire EXCEPT ![Peer(s)] = Tail(@)]
CanRead(s) == reading[s] /\ held[s] = <<>> /\ wire[Peer(s)] # <<>>

\* Mutant: a cancel aborts every registered pump.
CancelledAny(f) == {g \in Feed : registry[g] = "present"}

Cancelled(f) == {f} \intersect {g \in Feed : registry[g] = "present"}

RouteCancel(s) ==
  /\ CanRead(s)
  /\ Arrived(s).kind = "cancel"
  /\ TakeOff(s)
  /\ LET gone == Cancelled(Arrived(s).feed) IN
       /\ registry' = [f \in Feed |-> IF f \in gone THEN "removed" ELSE registry[f]]
       /\ pump' = [f \in Feed |-> IF f \in gone /\ pump[f] \in Pumping
                                 THEN "aborted" ELSE pump[f]]
  /\ UNCHANGED <<producerVars, queue, writing, up, readerVars, consumerVars,
                 historyVars>>

Unknown(f) == f \notin inbound

\* A frame for a feed that is not in the map is dropped.
RouteUnknown(s) ==
  /\ CanRead(s)
  /\ Arrived(s).kind \in {"item", "end"}
  /\ Unknown(Arrived(s).feed)
  /\ TakeOff(s)
  /\ routed' = Noted(routed, Arrived(s))
  /\ strays' = IF rx[Arrived(s).feed] = "dropped" THEN strays
               ELSE strays \union {Arrived(s).feed}
  /\ UNCHANGED <<producerVars, pump, registry, queue, writing, up, readerVars,
                 consumerVars, written>>

\* Any other frame is kept until the channel it goes to has room.
RouteKnown(s) ==
  /\ CanRead(s)
  /\ \/ Arrived(s).kind = "ref"
     \/ Arrived(s).kind \in {"item", "end"} /\ ~Unknown(Arrived(s).feed)
  /\ TakeOff(s)
  /\ routed' = Noted(routed, Arrived(s))
  /\ held' = [held EXCEPT ![s] = <<Arrived(s)>>]
  /\ UNCHANGED <<producerVars, pump, registry, queue, writing, up, reading,
                 messages, consumerVars, written, strays>>

HandMessage(s) ==
  /\ held[s] # <<>>
  /\ Head(held[s]).kind = "ref"
  /\ Len(messages[s]) < MessageCap
  /\ messages' = [messages EXCEPT ![s] = Append(@, Head(held[s]))]
  /\ held' = [held EXCEPT ![s] = <<>>]
  /\ UNCHANGED <<producerVars, pump, registry, connVars, reading, consumerVars,
                 historyVars>>

\* Mutant: dropping the receiver does not wake the reader blocked on it.
NeverGone(f) == FALSE

ReceiverGone(f) == rx[f] = "dropped"

\* Mutant: one frame too many.
OneTooMany(f) == Len(inbox[f]) <= FeedCap

HasRoom(f) == Len(inbox[f]) < FeedCap

\* `sender.send(raw)` into the inbound channel; the end frame also unregisters
\* the feed.  A send to a dropped receiver fails and unregisters it.
HandFeedFrame(s) ==
  /\ held[s] # <<>>
  /\ Head(held[s]).kind # "ref"
  /\ LET f == Head(held[s]).feed IN
       \/ /\ ReceiverGone(f)
          /\ inbound' = inbound \ {f}
          /\ UNCHANGED inbox
       \/ /\ rx[f] = "open"
          /\ HasRoom(f)
          /\ inbox' = [inbox EXCEPT ![f] = Append(@, Head(held[s]))]
          /\ inbound' = IF Head(held[s]).kind = "end" THEN inbound \ {f}
                        ELSE inbound
  /\ held' = [held EXCEPT ![s] = <<>>]
  /\ UNCHANGED <<producerVars, pump, registry, connVars, reading, messages, rx,
                 delivered, closed, historyVars>>

\* End of file: the task returns and leaves the `feeds` map as it is.
ReaderExits(s) ==
  /\ ~up
  /\ reading[s] /\ held[s] = <<>> /\ wire[Peer(s)] = <<>>
  /\ reading' = [reading EXCEPT ![s] = FALSE]
  /\ UNCHANGED <<producerVars, pump, registry, connVars, held, messages,
                 consumerVars, historyVars>>
-----------------------------------------------------------------------------
(* The consumer. *)

\* ProtocolReader::receive decodes the message, which registers the feed.
Receive(s) ==
  /\ messages[s] # <<>>
  /\ messages' = [messages EXCEPT ![s] = Tail(@)]
  /\ LET f == Head(messages[s]).feed IN
       /\ rx' = [rx EXCEPT ![f] = "open"]
       /\ inbound' = inbound \union {f}
  /\ UNCHANGED <<producerVars, pump, registry, connVars, reading, held, inbox,
                 delivered, closed, historyVars>>

\* Feed::next, and a try_next that finds something.
NextItem(f) ==
  /\ rx[f] = "open"
  /\ inbox[f] # <<>>
  /\ IF Head(inbox[f]).kind = "end"
     THEN closed' = [closed EXCEPT ![f] = TRUE] /\ UNCHANGED delivered
     ELSE /\ delivered' = [delivered EXCEPT ![f] = Append(@, Head(inbox[f]).item)]
          /\ UNCHANGED closed
  /\ inbox' = [inbox EXCEPT ![f] = Tail(@)]
  /\ UNCHANGED <<producerVars, pump, registry, connVars, readerVars, inbound,
                 rx, historyVars>>

\* Drop for Feed: unregister, then try_send a cancel, which a full write
\* queue or a stopped writer discards.
DropFeed(f) ==
  /\ rx[f] = "open"
  /\ rx' = [rx EXCEPT ![f] = "dropped"]
  /\ inbound' = inbound \ {f}
  /\ inbox' = [inbox EXCEPT ![f] = <<>>]
  /\ IF CanQueue(Receiver(f)) THEN Enqueue(Receiver(f), CancelFrame(f))
     ELSE UNCHANGED queue
  /\ UNCHANGED <<producerVars, pump, registry, writing, up, wire, readerVars,
                 delivered, closed, historyVars>>
-----------------------------------------------------------------------------
ProducerStep(f) == Produce(f) \/ CloseSender(f)
WriterStep(f) == \/ SendRef(f) \/ Activate(f) \/ Register(f) \/ AbandonSend(f)
                 \/ PumpTake(f) \/ PumpSend(f) \/ PumpFail(f)
ConsumerStep(f) == NextItem(f) \/ DropFeed(f)
SideStep(s) == \/ WriteFrame(s) \/ WriterStops(s)
               \/ RouteCancel(s) \/ RouteUnknown(s) \/ RouteKnown(s)
               \/ HandMessage(s) \/ HandFeedFrame(s) \/ ReaderExits(s)
               \/ Receive(s)

Next == \/ \E f \in Feed : ProducerStep(f) \/ WriterStep(f) \/ ConsumerStep(f)
        \/ \E s \in Side : SideStep(s)
        \/ Disconnect

Spec == Init /\ [][Next]_vars

(***************************************************************************)
(* Every task is polled again once what it awaits is ready, and a full     *)
(* tokio channel serves its waiting senders in order (hence SF for the two *)
(* that compete for the write queue).  A consumer keeps calling next until *)
(* it drops the feed.  Values, drops, aborts and disconnection are the     *)
(* environment's choice: no fairness.                                      *)
(***************************************************************************)
Fairness ==
  /\ \A f \in Feed : /\ SF_vars(SendRef(f)) /\ SF_vars(PumpSend(f))
                     /\ WF_vars(Activate(f)) /\ WF_vars(Register(f))
                     /\ WF_vars(PumpTake(f)) /\ WF_vars(PumpFail(f))
                     /\ WF_vars(NextItem(f))
  /\ \A s \in Side : /\ WF_vars(WriteFrame(s)) /\ WF_vars(WriterStops(s))
                     /\ WF_vars(RouteCancel(s) \/ RouteUnknown(s) \/ RouteKnown(s))
                     /\ WF_vars(HandMessage(s) \/ HandFeedFrame(s))
                     /\ WF_vars(ReaderExits(s)) /\ WF_vars(Receive(s))

FairSpec == Spec /\ Fairness
-----------------------------------------------------------------------------
(* Properties. *)

ProducersOK ==
  /\ produced \in [Feed -> 0..MaxItems]
  /\ senderOpen \in [Feed -> BOOLEAN]
  /\ buffered \in [Feed -> 0..FeedCap]
  /\ \A f \in Feed : buffered[f] <= produced[f]
PumpsOK ==
  /\ pump \in [Feed -> PumpState]
  /\ registry \in [Feed -> {"absent", "present", "removed"}]
Bounded(channel, capacity) == \A s \in Side : Len(channel[s]) <= capacity
ConnectionOK ==
  /\ queue \in [Side -> Seq(Frame)] /\ Bounded(queue, QueueCap)
  /\ writing \in [Side -> BOOLEAN]
  /\ up \in BOOLEAN
  /\ wire \in [Side -> Seq(Frame)] /\ Bounded(wire, WireCap)
ReadersOK ==
  /\ reading \in [Side -> BOOLEAN]
  /\ held \in [Side -> Seq(Frame)] /\ Bounded(held, 1)
  /\ messages \in [Side -> Seq(Frame)] /\ Bounded(messages, MessageCap)
ConsumersOK ==
  /\ inbound \subseteq Feed
  /\ rx \in [Feed -> {"none", "open", "dropped"}]
  /\ inbox \in [Feed -> Seq(Frame)] /\ \A f \in Feed : Len(inbox[f]) <= FeedCap
  /\ delivered \in [Feed -> Seq(Nat)]
  /\ closed \in [Feed -> BOOLEAN]
HistoryOK ==
  /\ written \in [Feed -> 0..MaxItems]
  /\ routed \in [Feed -> 0..MaxItems]
  /\ strays \subseteq Feed

\* Every variable has its type and every channel stays within its capacity.
TypeOK == /\ ProducersOK /\ PumpsOK /\ ConnectionOK
          /\ ReadersOK /\ ConsumersOK /\ HistoryOK

\* Cancellation is scoped to one feed (route_feed): a pump is aborted only if
\* the peer dropped that very feed.
AbortIsScoped == \A f \in Feed : pump[f] = "aborted" => rx[f] = "dropped"

\* While the connection lasts, a feed the peer has registered is seen to its
\* end or dropped once its producer is gone, even though one reader task
\* serves every feed and blocks on whichever inbound channel is full.
EndIsSeen ==
  \A f \in Feed :
    (f \in inbound /\ ~senderOpen[f] /\ pump[f] \in Pumping)
      ~> (closed[f] \/ rx[f] = "dropped" \/ ~up)

\* Every feed keeps the promise of OrderedFeed.
Promise(f) == INSTANCE OrderedFeed WITH
  produced <- produced[f], senderOpen <- senderOpen[f],
  delivered <- delivered[f], closed <- closed[f]
KeepsPromise ==
  /\ \A f \in Feed : Promise(f)!Init
  /\ [][\A f \in Feed : [Promise(f)!Next]_(Promise(f)!feedVars)]_vars
=============================================================================
