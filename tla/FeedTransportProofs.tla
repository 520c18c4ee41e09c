------------------------ MODULE FeedTransportProofs ------------------------
(* Theorems about FeedTransport for every value of its constants.          *)
EXTENDS FeedTransport, SequenceTheorems, TLAPS

\* A pipe cut anywhere still holds frames, no more than before.
LEMMA CutWire ==
  ASSUME NEW S, NEW q \in Seq(S), NEW k \in Nat
  PROVE  LET m == IF k < Len(q) THEN k ELSE Len(q) IN
         /\ SubSeq(q, 1, m) \in Seq(S)
         /\ Len(SubSeq(q, 1, m)) <= Len(q)
<1> DEFINE m == IF k < Len(q) THEN k ELSE Len(q)
<1>1. Len(q) \in Nat /\ m \in 0..Len(q)
  BY LenProperties
<1>2. SubSeq(q, 1, m) \in Seq(S) /\ Len(SubSeq(q, 1, m)) = m
  BY <1>1, SubSeqProperties
<1> QED
  BY <1>1, <1>2

\* Nothing has been sent: every group of variables has its initial value.
LEMMA TypeInit == Init => TypeOK
BY FeedAssumption DEF Init, TypeOK, ProducersOK, PumpsOK, ConnectionOK, ReadersOK,
  ConsumersOK, HistoryOK, Bounded, PumpState, Side

\* A step that leaves a group of variables alone leaves its types alone.
LEMMA Frozen ==
  ASSUME TypeOK
  PROVE  /\ UNCHANGED producerVars => ProducersOK'
         /\ UNCHANGED <<pump, registry>> => PumpsOK'
         /\ UNCHANGED connVars => ConnectionOK'
         /\ UNCHANGED readerVars => ReadersOK'
         /\ UNCHANGED consumerVars => ConsumersOK'
         /\ UNCHANGED historyVars => HistoryOK'
BY DEF TypeOK, ProducersOK, PumpsOK, ConnectionOK, ReadersOK, ConsumersOK, HistoryOK,
  Bounded, producerVars, connVars, readerVars, consumerVars, historyVars

\* The frames the code builds are frames.
LEMMA FrameTypes ==
  /\ \A f \in Feed : /\ RefFrame(f) \in Frame
                     /\ EndFrame(f) \in Frame
                     /\ CancelFrame(f) \in Frame
  /\ \A f \in Feed, i \in 0..MaxItems : ItemFrame(f, i) \in Frame
BY FeedAssumption DEF FeedAssumption, RefFrame, EndFrame, CancelFrame, ItemFrame,
  Frame, Kind

\* Every feed has an origin and a receiver among the two sides.
LEMMA Sides ==
  /\ \A s \in Side : Peer(s) \in Side
  /\ \A f \in Feed : Origin[f] \in Side /\ Receiver(f) \in Side
BY FeedAssumption DEF FeedAssumption, Receiver, Peer, Side

\* A frame enters a queue that has room for it.
LEMMA QueueTypes ==
  ASSUME ConnectionOK, NEW s \in Side, NEW frame \in Frame,
         CanQueue(s), Enqueue(s, frame), UNCHANGED <<writing, up, wire>>
  PROVE  ConnectionOK'
<1>1. /\ queue[s] \in Seq(Frame)
      /\ Append(queue[s], frame) \in Seq(Frame)
      /\ Len(Append(queue[s], frame)) = Len(queue[s]) + 1
      /\ Len(queue[s]) \in Nat
  BY AppendProperties, LenProperties DEF ConnectionOK
<1>2. queue' \in [Side -> Seq(Frame)]
  BY <1>1 DEF ConnectionOK, Enqueue
<1>3. Len(queue[s]) + 1 <= QueueCap
  BY <1>1, FeedAssumption DEF FeedAssumption, CanQueue
<1>4. \A t \in Side : Len(queue'[t]) <= QueueCap
  BY <1>1, <1>3 DEF ConnectionOK, Enqueue, Bounded
<1> QED
  BY <1>2, <1>4 DEF ConnectionOK, Bounded

\* What the head of a channel says, and what is left behind it.
LEMMA HeadTypes ==
  ASSUME NEW q \in Seq(Frame), q # <<>>
  PROVE  /\ Head(q) \in Frame
         /\ Head(q).feed \in Feed
         /\ Head(q).item \in 0..MaxItems
         /\ Tail(q) \in Seq(Frame)
         /\ Len(Tail(q)) = Len(q) - 1
<1>1. Head(q) \in Frame /\ Tail(q) \in Seq(Frame) /\ Len(Tail(q)) = Len(q) - 1
  BY HeadTailProperties
<1> QED
  BY <1>1 DEF Frame

\* Noting a frame's number keeps the history typed.
LEMMA NotedTypes ==
  ASSUME NEW h \in [Feed -> 0..MaxItems], NEW frame \in Frame
  PROVE  Noted(h, frame) \in [Feed -> 0..MaxItems]
BY DEF Noted, Frame

\* Every action keeps the types and the capacities.
LEMMA TypeStep == TypeOK /\ [Next]_vars => TypeOK'
<1> SUFFICES ASSUME TypeOK, [Next]_vars PROVE TypeOK'
  OBVIOUS
<1> USE FeedAssumption DEF FeedAssumption
<1>1. ASSUME NEW f \in Feed, Produce(f) PROVE TypeOK'
  <2>1. ProducersOK'
    BY <1>1 DEF Produce, TypeOK, ProducersOK
  <2>2. UNCHANGED <<pump, registry, connVars, readerVars, consumerVars, historyVars>>
    BY <1>1 DEF Produce
  <2> QED
    BY <2>1, <2>2, Frozen DEF TypeOK
<1>2. ASSUME NEW f \in Feed, CloseSender(f) PROVE TypeOK'
  <2>1. ProducersOK'
    BY <1>2 DEF CloseSender, TypeOK, ProducersOK
  <2>2. UNCHANGED <<pump, registry, connVars, readerVars, consumerVars, historyVars>>
    BY <1>2 DEF CloseSender
  <2> QED
    BY <2>1, <2>2, Frozen DEF TypeOK
<1>3. ASSUME NEW f \in Feed, SendRef(f) PROVE TypeOK'
  <2>1. PumpsOK'
    BY <1>3 DEF SendRef, TypeOK, PumpsOK, PumpState
  <2>2. ConnectionOK'
    BY <1>3, QueueTypes, FrameTypes, Sides DEF SendRef, TypeOK
  <2>3. UNCHANGED <<producerVars, readerVars, consumerVars, historyVars>>
    BY <1>3 DEF SendRef
  <2> QED
    BY <2>1, <2>2, <2>3, Frozen DEF TypeOK
<1>4. ASSUME NEW f \in Feed, Activate(f) PROVE TypeOK'
  <2>1. PumpsOK'
    BY <1>4 DEF Activate, TypeOK, PumpsOK, PumpState
  <2>2. UNCHANGED <<producerVars, connVars, readerVars, consumerVars, historyVars>>
    BY <1>4 DEF Activate
  <2> QED
    BY <2>1, <2>2, Frozen DEF TypeOK
<1>5. ASSUME NEW f \in Feed, Register(f) PROVE TypeOK'
  <2>1. PumpsOK'
    BY <1>5 DEF Register, TypeOK, PumpsOK
  <2>2. UNCHANGED <<producerVars, connVars, readerVars, consumerVars, historyVars>>
    BY <1>5 DEF Register
  <2> QED
    BY <2>1, <2>2, Frozen DEF TypeOK
<1>6. ASSUME NEW f \in Feed, AbandonSend(f) PROVE TypeOK'
  <2>1. PumpsOK'
    BY <1>6 DEF AbandonSend, TypeOK, PumpsOK, PumpState
  <2>2. UNCHANGED <<producerVars, connVars, readerVars, consumerVars, historyVars>>
    BY <1>6 DEF AbandonSend
  <2> QED
    BY <2>1, <2>2, Frozen DEF TypeOK
<1>7. ASSUME NEW f \in Feed, PumpTake(f) PROVE TypeOK'
  <2>1. ProducersOK'
    BY <1>7 DEF PumpTake, TypeOK, ProducersOK, ChannelOver
  <2>2. PumpsOK'
    BY <1>7 DEF PumpTake, TypeOK, PumpsOK, PumpState
  <2>3. UNCHANGED <<connVars, readerVars, consumerVars, historyVars>>
    BY <1>7 DEF PumpTake
  <2> QED
    BY <2>1, <2>2, <2>3, Frozen DEF TypeOK
<1>8. ASSUME NEW f \in Feed, PumpSend(f) PROVE TypeOK'
  <2>1. PumpsOK'
    BY <1>8 DEF PumpSend, TypeOK, PumpsOK, PumpState
  <2>2. ConnectionOK'
    <3>1. InHand(f) \in 0..MaxItems
      BY DEF TypeOK, ProducersOK, InHand
    <3> QED
      BY <1>8, <3>1, QueueTypes, FrameTypes, Sides DEF PumpSend, TypeOK
  <2>3. UNCHANGED <<producerVars, readerVars, consumerVars, historyVars>>
    BY <1>8 DEF PumpSend
  <2> QED
    BY <2>1, <2>2, <2>3, Frozen DEF TypeOK
<1>9. ASSUME NEW f \in Feed, PumpFail(f) PROVE TypeOK'
  <2>1. PumpsOK'
    BY <1>9 DEF PumpFail, TypeOK, PumpsOK, PumpState
  <2>2. UNCHANGED <<producerVars, connVars, readerVars, consumerVars, historyVars>>
    BY <1>9 DEF PumpFail
  <2> QED
    BY <2>1, <2>2, Frozen DEF TypeOK
<1>10. ASSUME NEW f \in Feed, NextItem(f) PROVE TypeOK'
  <2>1. ConsumersOK'
    <3>1. /\ inbox[f] \in Seq(Frame) /\ inbox[f] # <<>>
          /\ Len(inbox[f]) \in Nat /\ Len(inbox[f]) <= FeedCap
      BY <1>10, LenProperties DEF NextItem, TypeOK, ConsumersOK
    <3>2. inbox' \in [Feed -> Seq(Frame)] /\ \A g \in Feed : Len(inbox'[g]) <= FeedCap
      BY <1>10, <3>1, HeadTypes DEF NextItem, TypeOK, ConsumersOK
    <3>3. delivered' \in [Feed -> Seq(Nat)] /\ closed' \in [Feed -> BOOLEAN]
      <4>1. Head(inbox[f]).item \in Nat /\ delivered[f] \in Seq(Nat)
        BY <3>1, HeadTypes DEF TypeOK, ConsumersOK
      <4>2. Append(delivered[f], Head(inbox[f]).item) \in Seq(Nat)
        BY <4>1, AppendProperties
      <4> QED
        BY <1>10, <4>2 DEF NextItem, TypeOK, ConsumersOK
    <3> QED
      BY <1>10, <3>2, <3>3 DEF NextItem, TypeOK, ConsumersOK
  <2>2. UNCHANGED <<producerVars, pump, registry, connVars, readerVars, historyVars>>
    BY <1>10 DEF NextItem
  <2> QED
    BY <2>1, <2>2, Frozen DEF TypeOK
<1>11. ASSUME NEW f \in Feed, DropFeed(f) PROVE TypeOK'
  <2>1. ConnectionOK'
    <3>1. CASE CanQueue(Receiver(f))
      BY <1>11, <3>1, QueueTypes, FrameTypes, Sides DEF DropFeed, TypeOK
    <3>2. CASE ~CanQueue(Receiver(f))
      BY <1>11, <3>2, Frozen DEF DropFeed, connVars
    <3> QED
      BY <3>1, <3>2
  <2>2. ConsumersOK'
    BY <1>11 DEF DropFeed, TypeOK, ConsumersOK
  <2>3. UNCHANGED <<producerVars, pump, registry, readerVars, historyVars>>
    BY <1>11 DEF DropFeed
  <2> QED
    BY <2>1, <2>2, <2>3, Frozen DEF TypeOK
<1>12. ASSUME NEW s \in Side, WriteFrame(s) PROVE TypeOK'
  <2>1. PumpsOK'
    BY <1>12 DEF WriteFrame, TypeOK, PumpsOK, ConnectionOK, Resumed, Frame, PumpState
  <2>2. ConnectionOK'
    BY <1>12 DEF WriteFrame, TypeOK, ConnectionOK, Bounded
  <2>3. HistoryOK'
    BY <1>12, HeadTypes, NotedTypes DEF WriteFrame, TypeOK, HistoryOK, ConnectionOK
  <2>4. UNCHANGED <<producerVars, readerVars, consumerVars>>
    BY <1>12 DEF WriteFrame
  <2> QED
    BY <2>1, <2>2, <2>3, <2>4, Frozen DEF TypeOK
<1>13. ASSUME NEW s \in Side, WriterStops(s) PROVE TypeOK'
  <2>1. ConnectionOK'
    BY <1>13 DEF WriterStops, TypeOK, ConnectionOK, Bounded
  <2>2. UNCHANGED <<producerVars, pump, registry, readerVars, consumerVars, historyVars>>
    BY <1>13 DEF WriterStops
  <2> QED
    BY <2>1, <2>2, Frozen DEF TypeOK
<1>14. CASE Disconnect
  <2>1. ConnectionOK'
    <3> DEFINE cut(s, k) == SubSeq(wire[s], 1, IF k < Len(wire[s]) THEN k ELSE Len(wire[s]))
    <3>1. PICK keep \in [Side -> 0..WireCap] : wire' = [s \in Side |-> cut(s, keep[s])]
      BY <1>14 DEF Disconnect
    <3>2. ASSUME NEW s \in Side
          PROVE  cut(s, keep[s]) \in Seq(Frame) /\ Len(cut(s, keep[s])) <= WireCap
      <4>1. /\ wire[s] \in Seq(Frame) /\ keep[s] \in Nat
            /\ Len(wire[s]) \in Nat /\ Len(wire[s]) <= WireCap
        BY DEF TypeOK, ConnectionOK, Bounded
      <4>2. /\ cut(s, keep[s]) \in Seq(Frame)
            /\ Len(cut(s, keep[s])) <= Len(wire[s])
        BY <4>1, CutWire
      <4>3. Len(cut(s, keep[s])) \in Nat
        BY <4>2, LenProperties
      <4> HIDE DEF cut
      <4> QED
        BY <4>1, <4>2, <4>3
    <3> QED
      BY <1>14, <3>1, <3>2 DEF Disconnect, TypeOK, ConnectionOK, Bounded
  <2>2. UNCHANGED <<producerVars, pump, registry, readerVars, consumerVars, historyVars>>
    BY <1>14 DEF Disconnect
  <2> QED
    BY <2>1, <2>2, Frozen DEF TypeOK
<1>15. ASSUME NEW s \in Side, RouteCancel(s) PROVE TypeOK'
  <2>1. PumpsOK'
    BY <1>15 DEF RouteCancel, TypeOK, PumpsOK, Cancelled, PumpState
  <2>2. ConnectionOK'
    BY <1>15 DEF RouteCancel, TypeOK, ConnectionOK, Bounded, CanRead, TakeOff, Arrived, Peer, Side
  <2>3. UNCHANGED <<producerVars, readerVars, consumerVars, historyVars>>
    BY <1>15 DEF RouteCancel
  <2> QED
    BY <2>1, <2>2, <2>3, Frozen DEF TypeOK
<1>16. ASSUME NEW s \in Side, RouteUnknown(s) PROVE TypeOK'
  <2>1. ConnectionOK'
    BY <1>16 DEF RouteUnknown, TypeOK, ConnectionOK, Bounded, CanRead, TakeOff, Arrived, Peer, Side
  <2>2. HistoryOK'
    BY <1>16, HeadTypes, NotedTypes, Sides DEF RouteUnknown, TypeOK, HistoryOK, ConnectionOK, CanRead,
       Arrived
  <2>3. UNCHANGED <<producerVars, pump, registry, readerVars, consumerVars>>
    BY <1>16 DEF RouteUnknown
  <2> QED
    BY <2>1, <2>2, <2>3, Frozen DEF TypeOK
<1>17. ASSUME NEW s \in Side, RouteKnown(s) PROVE TypeOK'
  <2>1. ConnectionOK'
    BY <1>17 DEF RouteKnown, TypeOK, ConnectionOK, Bounded, CanRead, TakeOff, Arrived, Peer, Side
  <2>2. ReadersOK'
    BY <1>17 DEF RouteKnown, TypeOK, ReadersOK, ConnectionOK, Bounded, CanRead, TakeOff, Arrived, Peer, Side
  <2>3. HistoryOK'
    BY <1>17, HeadTypes, NotedTypes, Sides DEF RouteKnown, TypeOK, HistoryOK, ConnectionOK, CanRead,
       Arrived
  <2>4. UNCHANGED <<producerVars, pump, registry, consumerVars>>
    BY <1>17 DEF RouteKnown
  <2> QED
    BY <2>1, <2>2, <2>3, <2>4, Frozen DEF TypeOK
<1>18. ASSUME NEW s \in Side, HandMessage(s) PROVE TypeOK'
  <2>1. ReadersOK'
    BY <1>18 DEF HandMessage, TypeOK, ReadersOK, Bounded
  <2>2. UNCHANGED <<producerVars, pump, registry, connVars, consumerVars, historyVars>>
    BY <1>18 DEF HandMessage
  <2> QED
    BY <2>1, <2>2, Frozen DEF TypeOK
<1>19. ASSUME NEW s \in Side, HandFeedFrame(s) PROVE TypeOK'
  <2>1. ReadersOK'
    BY <1>19 DEF HandFeedFrame, HasRoom, TypeOK, ReadersOK, Bounded
  <2>2. ConsumersOK'
    <3> DEFINE frame == Head(held[s])
               f == frame.feed
    <3>1. frame \in Frame /\ f \in Feed
      BY <1>19, HeadTypes DEF HandFeedFrame, HasRoom, TypeOK, ReadersOK
    <3>2. CASE UNCHANGED inbox /\ inbound' = inbound \ {f}
      BY <1>19, <3>2 DEF HandFeedFrame, HasRoom, TypeOK, ConsumersOK
    <3>3. CASE /\ Len(inbox[f]) < FeedCap
               /\ inbox' = [inbox EXCEPT ![f] = Append(@, frame)]
               /\ inbound' \in {inbound, inbound \ {f}}
      <4> HIDE DEF frame, f
      <4>1. /\ inbox[f] \in Seq(Frame)
            /\ Len(inbox[f]) \in Nat
            /\ Append(inbox[f], frame) \in Seq(Frame)
            /\ Len(Append(inbox[f], frame)) = Len(inbox[f]) + 1
        BY <3>1, AppendProperties, LenProperties DEF TypeOK, ConsumersOK
      <4>2. inbox' \in [Feed -> Seq(Frame)] /\ \A g \in Feed : Len(inbox'[g]) <= FeedCap
        BY <3>1, <3>3, <4>1 DEF TypeOK, ConsumersOK
      <4> QED
        BY <1>19, <3>3, <4>2 DEF HandFeedFrame, HasRoom, TypeOK, ConsumersOK
    <3> QED
      BY <1>19, <3>2, <3>3 DEF HandFeedFrame, HasRoom
  <2>3. UNCHANGED <<producerVars, pump, registry, connVars, historyVars>>
    BY <1>19 DEF HandFeedFrame, HasRoom
  <2> QED
    BY <2>1, <2>2, <2>3, Frozen DEF TypeOK
<1>20. ASSUME NEW s \in Side, ReaderExits(s) PROVE TypeOK'
  <2>1. ReadersOK'
    BY <1>20 DEF ReaderExits, TypeOK, ReadersOK
  <2>2. UNCHANGED <<producerVars, pump, registry, connVars, consumerVars, historyVars>>
    BY <1>20 DEF ReaderExits
  <2> QED
    BY <2>1, <2>2, Frozen DEF TypeOK
<1>21. ASSUME NEW s \in Side, Receive(s) PROVE TypeOK'
  <2>1. ReadersOK'
    BY <1>21 DEF Receive, TypeOK, ReadersOK, Bounded
  <2>2. ConsumersOK'
    BY <1>21, HeadTypes DEF Receive, TypeOK, ConsumersOK, ReadersOK
  <2>3. UNCHANGED <<producerVars, pump, registry, connVars, historyVars>>
    BY <1>21 DEF Receive
  <2> QED
    BY <2>1, <2>2, <2>3, Frozen DEF TypeOK
<1>22. CASE UNCHANGED vars
  BY <1>22, Frozen DEF TypeOK, vars
<1> QED
  BY <1>1, <1>2, <1>3, <1>4, <1>5, <1>6, <1>7, <1>8, <1>9, <1>10, <1>11, <1>12,
     <1>13, <1>14, <1>15, <1>16, <1>17, <1>18, <1>19, <1>20, <1>21, <1>22
  DEF Next, ProducerStep, WriterStep, ConsumerStep, SideStep

\* Every channel stays within its capacity and every count within its bound.
THEOREM TypeCorrect == Spec => []TypeOK
<1> QED
  BY TypeInit, TypeStep, PTL DEF Spec
-----------------------------------------------------------------------------
(***************************************************************************)
(* AbortIsScoped.  A pump is aborted when the cancel of its feed arrives,  *)
(* and only a dropped Feed sends one; a feed is dropped once and for all,  *)
(* because the message that carries it is decoded at most once.  So the    *)
(* invariant follows the one reference of each feed along its way, and     *)
(* says of every cancel on its way that its feed is dropped.               *)
(***************************************************************************)
Holds(q, kind, f) == \E i \in 1..Len(q) : q[i].kind = kind /\ q[i].feed = f

OnceEach(q) ==
  \A i, j \in 1..Len(q) :
    q[i].kind = "ref" /\ q[j].kind = "ref" /\ q[i].feed = q[j].feed => i = j

OnlyRefs(q) == \A i \in 1..Len(q) : q[i].kind = "ref"

RefsOnce ==
  \A s \in Side : /\ OnceEach(queue[s]) /\ OnceEach(wire[s]) /\ OnceEach(messages[s])
                  /\ OnlyRefs(messages[s])

\* The places a reference visits are visited one at a time.
Sent(f) == Holds(queue[Origin[f]], "ref", f) \/ Holds(wire[Origin[f]], "ref", f)
Astray(f) ==
  \/ Holds(queue[Receiver(f)], "ref", f) \/ Holds(wire[Receiver(f)], "ref", f)
  \/ Holds(held[Origin[f]], "ref", f) \/ Holds(messages[Origin[f]], "ref", f)
OnePlace(f) ==
  /\ ~Astray(f)
  /\ ~(Holds(queue[Origin[f]], "ref", f) /\ Holds(wire[Origin[f]], "ref", f))
  /\ Sent(f) => ~Holds(held[Receiver(f)], "ref", f)
  /\ Sent(f) \/ Holds(held[Receiver(f)], "ref", f) =>
       ~Holds(messages[Receiver(f)], "ref", f)
  /\ \/ Sent(f) \/ Holds(held[Receiver(f)], "ref", f)
     \/ Holds(messages[Receiver(f)], "ref", f)
     => rx[f] = "none" /\ pump[f] # "unsent"
  /\ pump[f] = "unsent" => rx[f] = "none"
RefPlaces == \A f \in Feed : OnePlace(f)

CancelsOfDropped ==
  \A s \in Side, f \in Feed :
    Holds(queue[s], "cancel", f) \/ Holds(wire[s], "cancel", f) => rx[f] = "dropped"

ScopeInv == RefsOnce /\ RefPlaces /\ CancelsOfDropped /\ AbortIsScoped

\* What a channel holds once a frame has been put behind it.
LEMMA HoldsAppend ==
  ASSUME NEW q \in Seq(Frame), NEW x \in Frame, NEW kind, NEW f
  PROVE  Holds(Append(q, x), kind, f) <=>
           Holds(q, kind, f) \/ (x.kind = kind /\ x.feed = f)
<1>1. /\ Len(q) \in Nat /\ Len(Append(q, x)) = Len(q) + 1
      /\ Append(q, x)[Len(q) + 1] = x
      /\ \A i \in 1..Len(q) : Append(q, x)[i] = q[i]
  BY AppendProperties, LenProperties
<1>2. \A i : i \in 1..(Len(q) + 1) <=> i \in 1..Len(q) \/ i = Len(q) + 1
  BY <1>1
<1> QED
  BY <1>1, <1>2 DEF Holds

\* What a channel held before its head was taken.
LEMMA HoldsHead ==
  ASSUME NEW q \in Seq(Frame), q # <<>>, NEW kind, NEW f
  PROVE  Holds(q, kind, f) <=>
           (Head(q).kind = kind /\ Head(q).feed = f) \/ Holds(Tail(q), kind, f)
<1>1. /\ Len(q) \in Nat \ {0} /\ Len(Tail(q)) = Len(q) - 1
      /\ Head(q) = q[1]
      /\ \A i \in 1..Len(Tail(q)) : Tail(q)[i] = q[i + 1]
  BY HeadTailProperties, LenProperties, EmptySeq
<1>2. \A i \in 1..Len(q) : i = 1 \/ (i - 1 \in 1..Len(Tail(q)) /\ Tail(q)[i - 1] = q[i])
  BY <1>1
<1>3. \A i \in 1..Len(Tail(q)) : i + 1 \in 1..Len(q)
  BY <1>1
<1>4. 1 \in 1..Len(q)
  BY <1>1
<1>5. ASSUME Holds(q, kind, f)
      PROVE  (Head(q).kind = kind /\ Head(q).feed = f) \/ Holds(Tail(q), kind, f)
  <2>1. PICK i \in 1..Len(q) : q[i].kind = kind /\ q[i].feed = f
    BY <1>5 DEF Holds
  <2>2. CASE i = 1
    BY <1>1, <2>1, <2>2
  <2>3. CASE i # 1
    <3>1. i - 1 \in 1..Len(Tail(q)) /\ Tail(q)[i - 1] = q[i]
      BY <1>2, <2>3
    <3> QED
      BY <2>1, <3>1 DEF Holds
  <2> QED
    BY <2>2, <2>3
<1>6. ASSUME Holds(Tail(q), kind, f)
      PROVE  Holds(q, kind, f)
  <2>1. PICK i \in 1..Len(Tail(q)) : Tail(q)[i].kind = kind /\ Tail(q)[i].feed = f
    BY <1>6 DEF Holds
  <2>2. i + 1 \in 1..Len(q) /\ q[i + 1] = Tail(q)[i]
    BY <1>1, <1>3
  <2> QED
    BY <2>1, <2>2 DEF Holds
<1>7. Head(q).kind = kind /\ Head(q).feed = f => Holds(q, kind, f)
  BY <1>1, <1>4 DEF Holds
<1> QED
  BY <1>5, <1>6, <1>7

\* A cut channel holds nothing new and repeats no reference.
LEMMA HoldsCut ==
  ASSUME NEW q \in Seq(Frame), NEW m \in 0..Len(q)
  PROVE  /\ \A kind, f : Holds(SubSeq(q, 1, m), kind, f) => Holds(q, kind, f)
         /\ OnceEach(q) => OnceEach(SubSeq(q, 1, m))
<1>1. /\ Len(q) \in Nat /\ Len(SubSeq(q, 1, m)) = m
      /\ \A i \in 1..m : SubSeq(q, 1, m)[i] = q[i]
  BY SubSeqProperties, LenProperties
<1>2. \A i \in 1..m : i \in 1..Len(q)
  BY <1>1
<1> QED
  BY <1>1, <1>2 DEF Holds, OnceEach

\* An empty channel holds nothing.
LEMMA HoldsNothing ==
  /\ \A kind, f : ~Holds(<<>>, kind, f)
  /\ OnceEach(<<>>) /\ OnlyRefs(<<>>)
BY DEF Holds, OnceEach, OnlyRefs

\* A channel of references, with one more or one fewer, still is one.
LEMMA OnlyRefsChange ==
  ASSUME NEW q \in Seq(Frame), OnlyRefs(q)
  PROVE  /\ \A x \in Frame : x.kind = "ref" => OnlyRefs(Append(q, x))
         /\ q # <<>> => Head(q).kind = "ref" /\ OnlyRefs(Tail(q))
<1>1. ASSUME NEW x \in Frame, x.kind = "ref" PROVE OnlyRefs(Append(q, x))
  <2>1. /\ Len(q) \in Nat /\ Len(Append(q, x)) = Len(q) + 1
        /\ Append(q, x)[Len(q) + 1] = x
        /\ \A i \in 1..Len(q) : Append(q, x)[i] = q[i]
    BY AppendProperties, LenProperties
  <2>2. \A i : i \in 1..(Len(q) + 1) <=> i \in 1..Len(q) \/ i = Len(q) + 1
    BY <2>1
  <2> QED
    BY <1>1, <2>1, <2>2 DEF OnlyRefs
<1>2. ASSUME q # <<>> PROVE Head(q).kind = "ref" /\ OnlyRefs(Tail(q))
  <2>1. /\ Len(q) \in Nat \ {0} /\ Len(Tail(q)) = Len(q) - 1
        /\ Head(q) = q[1]
        /\ \A i \in 1..Len(Tail(q)) : Tail(q)[i] = q[i + 1]
    BY <1>2, HeadTailProperties, LenProperties, EmptySeq
  <2>2. \A i \in 1..Len(Tail(q)) : i + 1 \in 1..Len(q)
    BY <2>1
  <2>3. 1 \in 1..Len(q)
    BY <2>1
  <2> QED
    BY <2>1, <2>2, <2>3 DEF OnlyRefs
<1> QED
  BY <1>1, <1>2

\* A frame behind a channel repeats no reference that was not there.
LEMMA OnceAppend ==
  ASSUME NEW q \in Seq(Frame), OnceEach(q), NEW x \in Frame,
         x.kind = "ref" => ~Holds(q, "ref", x.feed)
  PROVE  OnceEach(Append(q, x))
<1>1. /\ Len(q) \in Nat /\ Len(Append(q, x)) = Len(q) + 1
      /\ Append(q, x)[Len(q) + 1] = x
      /\ \A i \in 1..Len(q) : Append(q, x)[i] = q[i]
  BY AppendProperties, LenProperties
<1>2. \A i : i \in 1..(Len(q) + 1) <=> i \in 1..Len(q) \/ i = Len(q) + 1
  BY <1>1
<1> QED
  BY <1>1, <1>2 DEF Holds, OnceEach

\* Taking the head repeats no reference, and a reference is gone with it.
LEMMA OnceTail ==
  ASSUME NEW q \in Seq(Frame), q # <<>>, OnceEach(q)
  PROVE  /\ OnceEach(Tail(q))
         /\ Head(q).kind = "ref" => ~Holds(Tail(q), "ref", Head(q).feed)
<1>1. /\ Len(q) \in Nat \ {0} /\ Len(Tail(q)) = Len(q) - 1
      /\ Head(q) = q[1]
      /\ \A i \in 1..Len(Tail(q)) : Tail(q)[i] = q[i + 1]
  BY HeadTailProperties, LenProperties, EmptySeq
<1>2. \A i \in 1..Len(Tail(q)) : i + 1 \in 1..Len(q) /\ i \in Nat /\ i # 0
  BY <1>1
<1>3. 1 \in 1..Len(q)
  BY <1>1
<1> QED
  BY <1>1, <1>2, <1>3 DEF Holds, OnceEach

\* A step that puts no reference anywhere keeps the places apart.
LEMMA RefsStay ==
  ASSUME RefPlaces,
         \A s \in Side, f \in Feed :
           /\ Holds(queue'[s], "ref", f) => Holds(queue[s], "ref", f)
           /\ Holds(wire'[s], "ref", f) => Holds(wire[s], "ref", f)
           /\ Holds(held'[s], "ref", f) => Holds(held[s], "ref", f)
           /\ Holds(messages'[s], "ref", f) => Holds(messages[s], "ref", f),
         \A f \in Feed : rx'[f] = "none" <=> rx[f] = "none",
         \A f \in Feed : pump'[f] = "unsent" => pump[f] = "unsent"
  PROVE  RefPlaces'
BY Sides DEF RefPlaces, OnePlace, Sent, Astray

\* A step that sends no cancel and lets no feed go back from dropped.
LEMMA CancelsStay ==
  ASSUME CancelsOfDropped,
         \A s \in Side, f \in Feed :
           /\ Holds(queue'[s], "cancel", f) => Holds(queue[s], "cancel", f)
           /\ Holds(wire'[s], "cancel", f) =>
                Holds(wire[s], "cancel", f) \/ Holds(queue[s], "cancel", f),
         \A f \in Feed : rx[f] = "dropped" => rx'[f] = "dropped"
  PROVE  CancelsOfDropped'
BY DEF CancelsOfDropped

\* Only the pump and local variables move.
LEMMA ScopeLocal ==
  ASSUME TypeOK, ScopeInv, UNCHANGED <<queue, wire, held, messages, rx>>,
         \A f \in Feed : /\ pump'[f] = "unsent" => pump[f] = "unsent"
                         /\ pump'[f] = "aborted" => pump[f] = "aborted"
  PROVE  ScopeInv'
<1>1. RefsOnce'
  BY DEF ScopeInv, RefsOnce
<1>2. RefPlaces'
  BY RefsStay DEF ScopeInv
<1>3. CancelsOfDropped'
  BY CancelsStay DEF ScopeInv
<1> QED
  BY <1>1, <1>2, <1>3 DEF ScopeInv, AbortIsScoped

\* A frame other than a reference enters a queue; a cancel has its feed dropped.
LEMMA ScopeEnqueue ==
  ASSUME TypeOK, ScopeInv, NEW s \in Side, NEW x \in Frame,
         Enqueue(s, x), x.kind # "ref",
         x.kind = "cancel" => rx'[x.feed] = "dropped",
         UNCHANGED <<wire, held, messages>>,
         \A f \in Feed : rx[f] = "dropped" => rx'[f] = "dropped",
         \A f \in Feed : rx'[f] = "none" <=> rx[f] = "none",
         \A f \in Feed : /\ pump'[f] = "unsent" => pump[f] = "unsent"
                         /\ pump'[f] = "aborted" => pump[f] = "aborted"
  PROVE  ScopeInv'
<1>1. \A t \in Side : queue[t] \in Seq(Frame) /\ queue \in [Side -> Seq(Frame)]
  BY DEF TypeOK, ConnectionOK
<1>2. \A t \in Side : \A kind, f :
        Holds(queue'[t], kind, f) <=>
          Holds(queue[t], kind, f) \/ (t = s /\ x.kind = kind /\ x.feed = f)
  BY <1>1, HoldsAppend DEF Enqueue
<1>3. RefsOnce'
  <2>1. OnceEach(queue'[s])
    BY <1>1, OnceAppend DEF Enqueue, ScopeInv, RefsOnce
  <2>2. \A t \in Side : t # s => queue'[t] = queue[t]
    BY <1>1 DEF Enqueue
  <2> QED
    BY <2>1, <2>2 DEF ScopeInv, RefsOnce
<1>4. RefPlaces'
  BY <1>2, RefsStay DEF ScopeInv
<1>5. CancelsOfDropped'
  BY <1>2 DEF ScopeInv, CancelsOfDropped
<1> QED
  BY <1>3, <1>4, <1>5 DEF ScopeInv, AbortIsScoped

\* A frame that is no reference leaves the pipe it is read from.
LEMMA ScopeTakeOff ==
  ASSUME TypeOK, ScopeInv, NEW s \in Side, CanRead(s), TakeOff(s),
         UNCHANGED <<queue, messages, rx>>,
         \A t \in Side, f \in Feed : Holds(held'[t], "ref", f) => Holds(held[t], "ref", f),
         \A f \in Feed : /\ pump'[f] = "unsent" => pump[f] = "unsent"
                         /\ pump'[f] = "aborted" => rx[f] = "dropped"
  PROVE  ScopeInv'
<1>1. /\ Peer(s) \in Side /\ wire[Peer(s)] \in Seq(Frame) /\ wire[Peer(s)] # <<>>
      /\ wire \in [Side -> Seq(Frame)]
  BY Sides DEF TypeOK, ConnectionOK, CanRead
<1>2. \A t \in Side : \A kind, f : Holds(wire'[t], kind, f) => Holds(wire[t], kind, f)
  BY <1>1, HoldsHead DEF TakeOff
<1>3. RefsOnce'
  <2>1. OnceEach(wire'[Peer(s)])
    BY <1>1, OnceTail DEF TakeOff, ScopeInv, RefsOnce
  <2>2. \A t \in Side : t # Peer(s) => wire'[t] = wire[t]
    BY <1>1 DEF TakeOff
  <2> QED
    BY <2>1, <2>2 DEF ScopeInv, RefsOnce
<1>4. RefPlaces'
  BY <1>2, RefsStay DEF ScopeInv
<1>5. CancelsOfDropped'
  BY <1>2, CancelsStay DEF ScopeInv
<1> QED
  BY <1>3, <1>4, <1>5 DEF ScopeInv, AbortIsScoped

\* No reference, cancel or aborted pump to begin with.
LEMMA ScopeInit == Init => ScopeInv
<1> SUFFICES ASSUME Init PROVE ScopeInv
  OBVIOUS
<1>1. \A s \in Side : queue[s] = <<>> /\ wire[s] = <<>> /\ held[s] = <<>> /\ messages[s] = <<>>
  BY DEF Init
<1>2. RefsOnce /\ CancelsOfDropped
  BY <1>1, HoldsNothing DEF RefsOnce, CancelsOfDropped
<1>3. RefPlaces
  BY <1>1, HoldsNothing, Sides DEF RefPlaces, OnePlace, Sent, Astray, Init
<1> QED
  BY <1>2, <1>3 DEF ScopeInv, AbortIsScoped, Init

\* Every action keeps the references single and the cancels honest.
LEMMA ScopeStep == TypeOK /\ TypeOK' /\ ScopeInv /\ [Next]_vars => ScopeInv'
<1> SUFFICES ASSUME TypeOK, TypeOK', ScopeInv, [Next]_vars PROVE ScopeInv'
  OBVIOUS
<1> USE DEF connVars, readerVars, consumerVars
<1>1. ASSUME NEW f \in Feed,
             \/ Produce(f) \/ CloseSender(f) \/ Register(f) \/ NextItem(f)
      PROVE  ScopeInv'
  BY <1>1, ScopeLocal DEF Produce, CloseSender, Register, NextItem
<1>16. ASSUME NEW s \in Side, ReaderExits(s) PROVE ScopeInv'
  BY <1>16, ScopeLocal DEF ReaderExits
<1>2. ASSUME NEW f \in Feed,
             \/ Activate(f) \/ AbandonSend(f) \/ PumpTake(f) \/ PumpFail(f)
      PROVE  ScopeInv'
  BY <1>2, ScopeLocal DEF Activate, AbandonSend, PumpTake, PumpFail, TypeOK, PumpsOK
<1>3. ASSUME NEW f \in Feed, SendRef(f) PROVE ScopeInv'
  <2> DEFINE s == Origin[f]
  <2>1. /\ s \in Side /\ RefFrame(f) \in Frame
        /\ \A t \in Side : queue[t] \in Seq(Frame)
        /\ queue \in [Side -> Seq(Frame)] /\ pump \in [Feed -> PumpState]
    BY Sides, FrameTypes DEF TypeOK, ConnectionOK, PumpsOK
  <2>2. \A t \in Side : \A kind, g :
          Holds(queue'[t], kind, g) <=>
            Holds(queue[t], kind, g) \/ (t = s /\ kind = "ref" /\ g = f)
    BY <1>3, <2>1, HoldsAppend DEF SendRef, Enqueue, RefFrame
  <2>3. pump[f] = "unsent" /\ pump' = [pump EXCEPT ![f] = "refQueued"]
    BY <1>3 DEF SendRef
  <2>4. UNCHANGED <<wire, held, messages, rx>>
    BY <1>3 DEF SendRef
  <2>5. RefsOnce'
    <3>1. ~Holds(queue[s], "ref", f)
      BY <2>3 DEF ScopeInv, RefPlaces, OnePlace, Sent
    <3>2. OnceEach(queue'[s])
      BY <1>3, <2>1, <3>1, OnceAppend DEF SendRef, Enqueue, ScopeInv, RefsOnce, RefFrame
    <3>3. \A t \in Side : t # s => queue'[t] = queue[t]
      BY <1>3, <2>1 DEF SendRef, Enqueue
    <3> QED
      BY <2>4, <3>2, <3>3 DEF ScopeInv, RefsOnce
  <2>6. RefPlaces'
    <3> SUFFICES ASSUME NEW g \in Feed PROVE OnePlace(g)'
      BY DEF RefPlaces
    <3>1. Receiver(f) # s
      BY <2>1 DEF Receiver, Peer, Side
    <3>2. OnePlace(g) /\ Origin[g] \in Side /\ Receiver(g) \in Side
      BY Sides DEF ScopeInv, RefPlaces
    <3> QED
      BY <2>1, <2>2, <2>3, <2>4, <3>1, <3>2 DEF OnePlace, Sent, Astray
  <2>7. CancelsOfDropped'
    BY <2>2, <2>4, CancelsStay DEF ScopeInv
  <2>8. AbortIsScoped'
    BY <2>1, <2>3, <2>4 DEF ScopeInv, AbortIsScoped
  <2> QED
    BY <2>5, <2>6, <2>7, <2>8 DEF ScopeInv
<1>4. ASSUME NEW f \in Feed, PumpSend(f) PROVE ScopeInv'
  <2> DEFINE x == IF pump[f] = "hand" THEN ItemFrame(f, InHand(f)) ELSE EndFrame(f)
  <2>1. x \in Frame /\ x.kind \in {"item", "end"}
    <3>1. InHand(f) \in 0..MaxItems
      BY FeedAssumption DEF FeedAssumption, TypeOK, ProducersOK, InHand
    <3> QED
      BY <3>1, FrameTypes DEF ItemFrame, EndFrame
  <2>2. Enqueue(Origin[f], x) /\ UNCHANGED <<wire, held, messages, rx>>
    BY <1>4 DEF PumpSend
  <2>3. \A g \in Feed : /\ pump'[g] = "unsent" => pump[g] = "unsent"
                        /\ pump'[g] = "aborted" => pump[g] = "aborted"
    BY <1>4 DEF PumpSend, TypeOK, PumpsOK
  <2> HIDE DEF x
  <2> QED
    BY <2>1, <2>2, <2>3, Sides, ScopeEnqueue
<1>5. ASSUME NEW f \in Feed, DropFeed(f) PROVE ScopeInv'
  <2>1. /\ UNCHANGED <<wire, held, messages, pump>>
        /\ rx[f] = "open" /\ rx' = [rx EXCEPT ![f] = "dropped"]
        /\ rx \in [Feed -> {"none", "open", "dropped"}]
    BY <1>5 DEF DropFeed, TypeOK, ConsumersOK
  <2>2. CASE CanQueue(Receiver(f))
    <3>1. CancelFrame(f) \in Frame /\ CancelFrame(f).kind = "cancel"
          /\ CancelFrame(f).feed = f
      BY FrameTypes DEF CancelFrame
    <3>2. Enqueue(Receiver(f), CancelFrame(f))
      BY <1>5, <2>2 DEF DropFeed
    <3> QED
      BY <2>1, <3>1, <3>2, Sides, ScopeEnqueue
  <2>3. CASE ~CanQueue(Receiver(f))
    <3>1. UNCHANGED queue
      BY <1>5, <2>3 DEF DropFeed
    <3>2. RefsOnce'
      BY <2>1, <3>1 DEF ScopeInv, RefsOnce
    <3>3. RefPlaces'
      BY <2>1, <3>1, RefsStay DEF ScopeInv
    <3>4. CancelsOfDropped'
      BY <2>1, <3>1, CancelsStay DEF ScopeInv
    <3> QED
      BY <2>1, <3>2, <3>3, <3>4 DEF ScopeInv, AbortIsScoped
  <2> QED
    BY <2>2, <2>3
<1>6. ASSUME NEW s \in Side, RouteCancel(s) PROVE ScopeInv'
  <2> DEFINE f == Arrived(s).feed
  <2>1. CanRead(s) /\ TakeOff(s) /\ UNCHANGED <<queue, held, messages, rx>>
    BY <1>6 DEF RouteCancel
  <2>2. wire[Peer(s)] \in Seq(Frame) /\ wire[Peer(s)] # <<>> /\ Peer(s) \in Side
    BY <2>1, Sides DEF CanRead, TypeOK, ConnectionOK
  <2>3. f \in Feed /\ rx[f] = "dropped"
    BY <1>6, <2>2, HeadTypes, HoldsHead
    DEF RouteCancel, Arrived, ScopeInv, CancelsOfDropped
  <2>4. \A g \in Feed : /\ pump'[g] = "unsent" => pump[g] = "unsent"
                        /\ pump'[g] = "aborted" => rx[g] = "dropped"
    BY <1>6, <2>3 DEF RouteCancel, Cancelled, ScopeInv, AbortIsScoped, TypeOK, PumpsOK, Pumping
  <2> QED
    BY <2>1, <2>4, ScopeTakeOff
<1>7. ASSUME NEW s \in Side, RouteUnknown(s) PROVE ScopeInv'
  BY <1>7, ScopeTakeOff DEF RouteUnknown, ScopeInv, AbortIsScoped
<1>8. ASSUME NEW s \in Side, WriterStops(s) PROVE ScopeInv'
  <2>1. /\ UNCHANGED <<wire, held, messages, rx, pump>>
        /\ queue \in [Side -> Seq(Frame)] /\ queue' = [queue EXCEPT ![s] = <<>>]
    BY <1>8 DEF WriterStops, TypeOK, ConnectionOK
  <2>2. \A t \in Side : \A kind, g : Holds(queue'[t], kind, g) => Holds(queue[t], kind, g)
    BY <2>1, HoldsNothing
  <2>3. RefsOnce'
    BY <2>1, HoldsNothing DEF ScopeInv, RefsOnce
  <2>4. RefPlaces'
    BY <2>1, <2>2, RefsStay DEF ScopeInv
  <2>5. CancelsOfDropped'
    BY <2>1, <2>2, CancelsStay DEF ScopeInv
  <2> QED
    BY <2>1, <2>3, <2>4, <2>5 DEF ScopeInv, AbortIsScoped
<1>9. CASE Disconnect
  <2> DEFINE m(s, k) == IF k < Len(wire[s]) THEN k ELSE Len(wire[s])
  <2>1. PICK keep \in [Side -> 0..WireCap] :
          wire' = [s \in Side |-> SubSeq(wire[s], 1, m(s, keep[s]))]
    BY <1>9 DEF Disconnect
  <2>2. \A s \in Side : wire[s] \in Seq(Frame) /\ m(s, keep[s]) \in 0..Len(wire[s])
    BY LenProperties, FeedAssumption DEF FeedAssumption, TypeOK, ConnectionOK
  <2>3. UNCHANGED <<queue, held, messages, rx, pump>>
    BY <1>9 DEF Disconnect
  <2> HIDE DEF m
  <2>4. \A s \in Side : /\ \A kind, f : Holds(wire'[s], kind, f) => Holds(wire[s], kind, f)
                        /\ OnceEach(wire[s]) => OnceEach(wire'[s])
    BY <2>1, <2>2, HoldsCut
  <2>5. RefsOnce'
    BY <2>3, <2>4 DEF ScopeInv, RefsOnce
  <2>6. RefPlaces'
    BY <2>3, <2>4, RefsStay DEF ScopeInv
  <2>7. CancelsOfDropped'
    BY <2>3, <2>4, CancelsStay DEF ScopeInv
  <2> QED
    BY <2>3, <2>5, <2>6, <2>7 DEF ScopeInv, AbortIsScoped
<1>10. ASSUME NEW s \in Side, HandFeedFrame(s) PROVE ScopeInv'
  <2>1. /\ UNCHANGED <<queue, wire, messages, rx, pump>>
        /\ held \in [Side -> Seq(Frame)] /\ held' = [held EXCEPT ![s] = <<>>]
    BY <1>10 DEF HandFeedFrame, TypeOK, ReadersOK
  <2>2. \A t \in Side : \A kind, g : Holds(held'[t], kind, g) => Holds(held[t], kind, g)
    BY <2>1, HoldsNothing
  <2>3. RefsOnce'
    BY <2>1 DEF ScopeInv, RefsOnce
  <2>4. RefPlaces'
    BY <2>1, <2>2, RefsStay DEF ScopeInv
  <2>5. CancelsOfDropped'
    BY <2>1, CancelsStay DEF ScopeInv
  <2> QED
    BY <2>1, <2>3, <2>4, <2>5 DEF ScopeInv, AbortIsScoped
<1>11. ASSUME NEW s \in Side, WriteFrame(s) PROVE ScopeInv'
  <2> DEFINE x == Head(queue[s])
  <2>1. /\ queue[s] \in Seq(Frame) /\ queue[s] # <<>> /\ wire[s] \in Seq(Frame)
        /\ x \in Frame /\ x.feed \in Feed
        /\ queue' = [queue EXCEPT ![s] = Tail(@)]
        /\ wire' = [wire EXCEPT ![s] = Append(@, x)]
        /\ queue \in [Side -> Seq(Frame)] /\ wire \in [Side -> Seq(Frame)]
        /\ UNCHANGED <<held, messages, rx>>
    BY <1>11, HeadTypes DEF WriteFrame, TypeOK, ConnectionOK
  <2>2. \A t \in Side, g \in Feed : \A kind :
          /\ Holds(queue[t], kind, g) <=>
               Holds(queue'[t], kind, g) \/ (t = s /\ x.kind = kind /\ x.feed = g)
          /\ Holds(wire'[t], kind, g) <=>
               Holds(wire[t], kind, g) \/ (t = s /\ x.kind = kind /\ x.feed = g)
    BY <2>1, HoldsHead, HoldsAppend
  <2>3. \A g \in Feed : /\ pump'[g] = "unsent" => pump[g] = "unsent"
                        /\ pump'[g] = "aborted" => pump[g] = "aborted"
    BY <1>11 DEF WriteFrame, Resumed, TypeOK, PumpsOK
  <2> HIDE DEF x
  <2>4. /\ OnceEach(queue'[s])
        /\ x.kind = "ref" => ~Holds(queue'[s], "ref", x.feed)
    BY <2>1, OnceTail DEF x, ScopeInv, RefsOnce
  <2>5. x.kind = "ref" => /\ s = Origin[x.feed] /\ Holds(queue[s], "ref", x.feed)
                          /\ ~Holds(wire[s], "ref", x.feed)
    <3>1. OnePlace(x.feed) /\ Origin[x.feed] \in Side
      BY <2>1, Sides DEF ScopeInv, RefPlaces
    <3>2. x.kind = "ref" => Holds(queue[s], "ref", x.feed)
      BY <2>1, <2>2
    <3> QED
      BY <3>1, <3>2 DEF OnePlace, Sent, Astray, Receiver, Peer, Side
  <2>6. RefsOnce'
    <3>1. OnceEach(wire'[s])
      BY <2>1, <2>5, OnceAppend DEF ScopeInv, RefsOnce
    <3> QED
      BY <2>1, <2>4, <3>1 DEF ScopeInv, RefsOnce
  <2>7. RefPlaces'
    <3> SUFFICES ASSUME NEW g \in Feed PROVE OnePlace(g)'
      BY DEF RefPlaces
    <3>1. OnePlace(g) /\ Origin[g] \in Side /\ Receiver(g) \in Side
      BY Sides DEF ScopeInv, RefPlaces
    <3>2. x.kind = "ref" /\ x.feed = g => Receiver(g) # s
      BY <2>5 DEF Receiver, Peer, Side
    <3> QED
      BY <2>1, <2>2, <2>3, <2>4, <2>5, <3>1, <3>2 DEF OnePlace, Sent, Astray
  <2>8. CancelsOfDropped'
    BY <2>1, <2>2, CancelsStay DEF ScopeInv
  <2> QED
    BY <2>1, <2>3, <2>6, <2>7, <2>8 DEF ScopeInv, AbortIsScoped
<1>12. ASSUME NEW s \in Side, RouteKnown(s) PROVE ScopeInv'
  <2> DEFINE x == Arrived(s)
             p == Peer(s)
  <2>1. /\ p \in Side /\ wire[p] \in Seq(Frame) /\ wire[p] # <<>>
        /\ x = Head(wire[p]) /\ x \in Frame /\ x.feed \in Feed
        /\ held[s] = <<>> /\ <<x>> = Append(<<>>, x)
        /\ wire' = [wire EXCEPT ![p] = Tail(@)]
        /\ held' = [held EXCEPT ![s] = <<x>>]
        /\ held \in [Side -> Seq(Frame)] /\ wire \in [Side -> Seq(Frame)]
        /\ UNCHANGED <<queue, messages, rx, pump>>
    BY <1>12, HeadTypes, Sides
    DEF RouteKnown, CanRead, TakeOff, Arrived, TypeOK, ConnectionOK, ReadersOK
  <2> HIDE DEF x, p
  <2>2. \A t \in Side, g \in Feed : \A kind :
          /\ Holds(wire[t], kind, g) <=>
               Holds(wire'[t], kind, g) \/ (t = p /\ x.kind = kind /\ x.feed = g)
          /\ Holds(held'[t], kind, g) <=>
               IF t = s THEN x.kind = kind /\ x.feed = g ELSE Holds(held[t], kind, g)
    <3>1. \A kind, g : Holds(<<x>>, kind, g) <=> x.kind = kind /\ x.feed = g
      <4>1. <<>> \in Seq(Frame)
        OBVIOUS
      <4>2. \A kind, g : Holds(Append(<<>>, x), kind, g) <=> x.kind = kind /\ x.feed = g
        <5> SUFFICES ASSUME NEW kind, NEW g
                     PROVE  Holds(Append(<<>>, x), kind, g) <=> x.kind = kind /\ x.feed = g
          OBVIOUS
        <5>1. x \in Frame
          BY <2>1
        <5>2. ~Holds(<<>>, kind, g)
          BY HoldsNothing
        <5>3. Holds(Append(<<>>, x), kind, g) <=> Holds(<<>>, kind, g) \/ (x.kind = kind /\ x.feed = g)
          BY <4>1, <5>1, HoldsAppend
        <5> QED
          BY <5>2, <5>3
      <4> QED
        BY <2>1, <4>2
    <3> QED
      BY <2>1, <3>1, HoldsHead
  <2>3. /\ OnceEach(wire'[p])
        /\ x.kind = "ref" => ~Holds(wire'[p], "ref", x.feed)
    BY <2>1, OnceTail DEF ScopeInv, RefsOnce
  <2>4. x.kind = "ref" => /\ p = Origin[x.feed] /\ s = Receiver(x.feed)
                          /\ Holds(wire[p], "ref", x.feed)
    <3>1. OnePlace(x.feed) /\ Origin[x.feed] \in Side
      BY <2>1, Sides DEF ScopeInv, RefPlaces
    <3>2. x.kind = "ref" => Holds(wire[p], "ref", x.feed)
      BY <2>1, <2>2
    <3> QED
      BY <2>1, <3>1, <3>2 DEF OnePlace, Sent, Astray, Receiver, Peer, Side, p
  <2>5. RefsOnce'
    BY <2>1, <2>3 DEF ScopeInv, RefsOnce
  <2>6. RefPlaces'
    <3> SUFFICES ASSUME NEW g \in Feed PROVE OnePlace(g)'
      BY DEF RefPlaces
    <3>1. OnePlace(g) /\ Origin[g] \in Side /\ Receiver(g) \in Side
      BY Sides DEF ScopeInv, RefPlaces
    <3>2. Receiver(g) # Origin[g] /\ p # s
      BY <3>1 DEF Receiver, Peer, Side, p
    <3>3. CASE x.kind = "ref" /\ x.feed = g
      <4>1. p = Origin[g] /\ s = Receiver(g)
        BY <2>4, <3>3
      <4>2. /\ ~Holds(wire'[p], "ref", g) /\ ~Holds(queue'[p], "ref", g)
            /\ ~Holds(messages'[s], "ref", g)
            /\ rx'[g] = "none" /\ pump'[g] # "unsent"
        BY <2>1, <2>3, <2>4, <3>1, <3>3, <4>1 DEF OnePlace, Sent
      <4>3. ~Astray(g)'
        BY <2>1, <2>2, <3>1, <3>2, <4>1 DEF OnePlace, Astray
      <4> QED
        BY <4>1, <4>2, <4>3 DEF OnePlace, Sent
    <3>4. CASE ~(x.kind = "ref" /\ x.feed = g)
      <4>1. \A t \in Side : /\ Holds(wire'[t], "ref", g) <=> Holds(wire[t], "ref", g)
                            /\ Holds(held'[t], "ref", g) => Holds(held[t], "ref", g)
        BY <2>2, <3>4
      <4> QED
        BY <2>1, <3>1, <4>1 DEF OnePlace, Sent, Astray
    <3> QED
      BY <3>3, <3>4
  <2>7. CancelsOfDropped'
    BY <2>1, <2>2, CancelsStay DEF ScopeInv
  <2> QED
    BY <2>1, <2>5, <2>6, <2>7 DEF ScopeInv, AbortIsScoped
<1>13. ASSUME NEW s \in Side, HandMessage(s) PROVE ScopeInv'
  <2> DEFINE x == Head(held[s])
  <2>1. /\ held[s] \in Seq(Frame) /\ held[s] # <<>> /\ messages[s] \in Seq(Frame)
        /\ x \in Frame /\ x.feed \in Feed /\ x.kind = "ref"
        /\ held' = [held EXCEPT ![s] = <<>>]
        /\ messages' = [messages EXCEPT ![s] = Append(@, x)]
        /\ held \in [Side -> Seq(Frame)] /\ messages \in [Side -> Seq(Frame)]
        /\ UNCHANGED <<queue, wire, rx, pump>>
    BY <1>13, HeadTypes DEF HandMessage, TypeOK, ReadersOK
  <2>2. \A t \in Side, g \in Feed : \A kind :
          /\ Holds(held'[t], kind, g) <=> t # s /\ Holds(held[t], kind, g)
          /\ Holds(messages'[t], kind, g) <=>
               Holds(messages[t], kind, g) \/ (t = s /\ x.kind = kind /\ x.feed = g)
    BY <2>1, HoldsAppend, HoldsNothing
  <2>3. Holds(held[s], "ref", x.feed)
    BY <2>1, HoldsHead
  <2> HIDE DEF x
  <2>4. s = Receiver(x.feed) /\ s # Origin[x.feed] /\ ~Holds(messages[s], "ref", x.feed)
    <3>1. OnePlace(x.feed) /\ Origin[x.feed] \in Side
      BY <2>1, Sides DEF ScopeInv, RefPlaces
    <3> QED
      BY <2>3, <3>1 DEF OnePlace, Sent, Astray, Receiver, Peer, Side
  <2>5. RefsOnce'
    <3>1. OnceEach(messages'[s])
      BY <2>1, <2>4, OnceAppend DEF ScopeInv, RefsOnce
    <3>2. OnlyRefs(messages'[s])
      BY <2>1, OnlyRefsChange DEF ScopeInv, RefsOnce
    <3> QED
      BY <2>1, <3>1, <3>2 DEF ScopeInv, RefsOnce
  <2>6. RefPlaces'
    <3> SUFFICES ASSUME NEW g \in Feed PROVE OnePlace(g)'
      BY DEF RefPlaces
    <3>1. OnePlace(g) /\ Origin[g] \in Side /\ Receiver(g) \in Side
      BY Sides DEF ScopeInv, RefPlaces
    <3> QED
      BY <2>1, <2>2, <2>3, <2>4, <3>1 DEF OnePlace, Sent, Astray
  <2>7. CancelsOfDropped'
    BY <2>1, CancelsStay DEF ScopeInv
  <2> QED
    BY <2>1, <2>5, <2>6, <2>7 DEF ScopeInv, AbortIsScoped
<1>14. ASSUME NEW s \in Side, Receive(s) PROVE ScopeInv'
  <2> DEFINE x == Head(messages[s])
  <2>1. /\ messages[s] \in Seq(Frame) /\ messages[s] # <<>>
        /\ x \in Frame /\ x.feed \in Feed
        /\ messages' = [messages EXCEPT ![s] = Tail(@)]
        /\ messages \in [Side -> Seq(Frame)]
        /\ rx' = [rx EXCEPT ![x.feed] = "open"]
        /\ rx \in [Feed -> {"none", "open", "dropped"}]
        /\ UNCHANGED <<queue, wire, held, pump>>
    BY <1>14, HeadTypes DEF Receive, TypeOK, ReadersOK, ConsumersOK
  <2>2. /\ x.kind = "ref" /\ OnlyRefs(messages'[s])
        /\ OnceEach(messages'[s]) /\ ~Holds(messages'[s], "ref", x.feed)
    BY <2>1, OnlyRefsChange, OnceTail DEF ScopeInv, RefsOnce
  <2>3. \A t \in Side, g \in Feed : \A kind :
          Holds(messages[t], kind, g) <=>
            Holds(messages'[t], kind, g) \/ (t = s /\ x.kind = kind /\ x.feed = g)
    BY <2>1, HoldsHead
  <2> HIDE DEF x
  <2>4. /\ s = Receiver(x.feed) /\ s # Origin[x.feed]
        /\ rx[x.feed] = "none" /\ pump[x.feed] # "unsent"
    <3>1. OnePlace(x.feed) /\ Origin[x.feed] \in Side
      BY <2>1, Sides DEF ScopeInv, RefPlaces
    <3>2. Holds(messages[s], "ref", x.feed)
      BY <2>1, <2>2, <2>3
    <3> QED
      BY <3>1, <3>2 DEF OnePlace, Sent, Astray, Receiver, Peer, Side
  <2>5. RefsOnce'
    BY <2>1, <2>2 DEF ScopeInv, RefsOnce
  <2>6. RefPlaces'
    <3> SUFFICES ASSUME NEW g \in Feed PROVE OnePlace(g)'
      BY DEF RefPlaces
    <3>1. OnePlace(g) /\ Origin[g] \in Side /\ Receiver(g) \in Side
      BY Sides DEF ScopeInv, RefPlaces
    <3> QED
      BY <2>1, <2>2, <2>3, <2>4, <3>1 DEF OnePlace, Sent, Astray
  <2>7. CancelsOfDropped'
    BY <2>1, <2>4, CancelsStay DEF ScopeInv
  <2> QED
    BY <2>1, <2>4, <2>5, <2>6, <2>7 DEF ScopeInv, AbortIsScoped
<1>15. CASE UNCHANGED vars
  BY <1>15, ScopeLocal DEF vars
<1> QED
  BY <1>1, <1>2, <1>3, <1>4, <1>5, <1>6, <1>7, <1>8, <1>9, <1>10, <1>11, <1>12,
     <1>13, <1>14, <1>15, <1>16
  DEF Next, ProducerStep, WriterStep, ConsumerStep, SideStep

\* Cancellation is scoped to one feed: a pump is aborted only when the peer has
\* dropped the Feed it serves.
THEOREM AbortsAreScoped == Spec => []AbortIsScoped
<1>1. ScopeInv => AbortIsScoped
  BY DEF ScopeInv
<1> QED
  BY <1>1, ScopeInit, ScopeStep, TypeCorrect, PTL DEF Spec

-----------------------------------------------------------------------------
(***************************************************************************)
(* KeepsPromise: FeedTransport implements OrderedFeed, feed by feed.       *)
(*                                                                         *)
(* Only a step of the consumer needs an argument: the frame at the head of *)
(* the inbox must be the one behind the last value it has returned.  So    *)
(* the invariant numbers the data frames of a feed, the end as the one     *)
(* behind the last value, and says of each place on their way which        *)
(* numbers it holds: the queue the next to be written, the wire an         *)
(* unbroken run behind the last one routed, the reader the last one        *)
(* routed, the inbox an unbroken run up to the last one handed over.       *)
(***************************************************************************)

Data(x, f) == x.feed = f /\ x.kind \in {"item", "end"}
Num(x, total) == IF x.kind = "end" THEN total + 1 ELSE x.item
NoData(q, f) == ~Holds(q, "item", f) /\ ~Holds(q, "end", f)

Has(q, x) == \E i \in 1..Len(q) : q[i] = x

\* The data of f in q is an unbroken run behind `last`.
Run(q, f, last, total) ==
  /\ \A i \in 1..Len(q) : Data(q[i], f) => Num(q[i], total) > last
  /\ \A i, j \in 1..Len(q) :
       i < j /\ Data(q[i], f) /\ Data(q[j], f) => Num(q[i], total) < Num(q[j], total)
  /\ \A i \in 1..Len(q) :
       Data(q[i], f) /\ Num(q[i], total) > last + 1 =>
         \E j \in 1..Len(q) : j < i /\ Data(q[j], f) /\ Num(q[j], total) = Num(q[i], total) - 1

\* What the pump has put on the wire, and what it has in hand.
PumpCounts(f) ==
  /\ routed[f] <= written[f] /\ written[f] <= produced[f]
  /\ pump[f] \in {"unsent", "refQueued", "written"} => InHand(f) = 0 /\ written[f] = 0
  /\ pump[f] \in {"recv", "ending", "endQueued"} => InHand(f) = written[f]
  /\ pump[f] \in {"hand", "itemQueued"} => InHand(f) = written[f] + 1
  /\ pump[f] \in {"ending", "endQueued"} => ChannelOver(f)

\* Data travels from its origin to its receiver.
OneWay(f) ==
  /\ NoData(queue[Receiver(f)], f) /\ NoData(wire[Receiver(f)], f) /\ NoData(held[Origin[f]], f)
  /\ \A s \in Side : ~Holds(held[s], "cancel", f)

\* The queue holds the next number at most.
QueueData(f) ==
  LET q == queue[Origin[f]] IN
  /\ Run(q, f, written[f], produced[f])
  /\ \A x \in Frame : Has(q, x) /\ Data(x, f) => Num(x, produced[f]) = written[f] + 1
  /\ Holds(q, "item", f) => pump[f] \in {"itemQueued", "done", "aborted"} /\ written[f] < produced[f]
  /\ Holds(q, "end", f) => /\ pump[f] \in {"endQueued", "done", "aborted"}
                           /\ written[f] = produced[f] /\ ~senderOpen[f]

\* Nothing of the feed is left to be written.
AllSent(f) ==
  /\ ~senderOpen[f] /\ written[f] = produced[f] /\ pump[f] \in {"done", "aborted"}
  /\ NoData(queue[Origin[f]], f)

WireData(f) ==
  LET w == wire[Origin[f]] IN
  /\ Run(w, f, routed[f], produced[f])
  /\ \A x \in Frame : Has(w, x) /\ Data(x, f) /\ x.kind = "item" => x.item <= written[f]
  /\ Holds(w, "end", f) => AllSent(f)
  /\ up /\ routed[f] < written[f] =>
       \E x \in Frame : Has(w, x) /\ Data(x, f) /\ x.kind = "item" /\ x.item = written[f]

\* The end has left the wire, the end is in the inbox or beyond it.
Ended(f) == closed[f] \/ Holds(inbox[f], "end", f)
EndRead(f) == Ended(f) \/ Holds(held[Receiver(f)], "end", f)

HeldData(f) ==
  LET h == held[Receiver(f)] IN
  /\ \A x \in Frame : Has(h, x) /\ Data(x, f) /\ x.kind = "item" => x.item = routed[f]
  /\ EndRead(f) => AllSent(f) /\ routed[f] = produced[f] /\ NoData(wire[Origin[f]], f)
  /\ Ended(f) => NoData(h, f)

\* The number of the last frame handed to the inbox.
Handed(f) ==
  IF Ended(f) THEN produced[f] + 1
  ELSE routed[f] - (IF Holds(held[Receiver(f)], "item", f) THEN 1 ELSE 0)

InboxData(f) ==
  LET q == inbox[f] IN
  /\ rx[f] = "none" => q = <<>> /\ delivered[f] = <<>> /\ ~closed[f] /\ f \notin inbound
                        /\ NoData(held[Receiver(f)], f)
  /\ rx[f] = "open" /\ f \notin inbound => Ended(f)
  /\ closed[f] => q = <<>>
  /\ rx[f] = "open" =>
       /\ Len(q) <= Handed(f)
       /\ \A i \in 1..Len(q) :
            Data(q[i], f) /\ Num(q[i], produced[f]) = (Handed(f) - Len(q)) + i
       /\ delivered[f] # <<>> /\ ~closed[f] =>
            delivered[f][Len(delivered[f])] = Handed(f) - Len(q)

Tape(f) == PumpCounts(f) /\ OneWay(f) /\ QueueData(f) /\ WireData(f) /\ HeldData(f) /\ InboxData(f)
PromiseInv == \A f \in Feed : Tape(f)
-----------------------------------------------------------------------------
(* What happens to the data of one feed in a channel. *)

\* The places of a channel with one frame more.
LEMMA AppendPlaces ==
  ASSUME NEW q \in Seq(Frame), NEW x \in Frame
  PROVE  /\ Len(q) \in Nat /\ Len(Append(q, x)) = Len(q) + 1
         /\ Append(q, x)[Len(q) + 1] = x
         /\ \A i \in 1..Len(q) : Append(q, x)[i] = q[i] /\ q[i] \in Frame
         /\ \A i : i \in 1..(Len(q) + 1) <=> i \in 1..Len(q) \/ i = Len(q) + 1
<1>1. /\ Len(q) \in Nat /\ Len(Append(q, x)) = Len(q) + 1
      /\ Append(q, x)[Len(q) + 1] = x
      /\ \A i \in 1..Len(q) : Append(q, x)[i] = q[i] /\ q[i] \in Frame
  BY AppendProperties, LenProperties, ElementOfSeq
<1>2. \A i : i \in 1..(Len(q) + 1) <=> i \in 1..Len(q) \/ i = Len(q) + 1
  BY <1>1
<1> QED
  BY <1>1, <1>2

\* The places of a channel whose head has been taken.
LEMMA TailPlaces ==
  ASSUME NEW q \in Seq(Frame), q # <<>>
  PROVE  /\ Len(q) \in Nat \ {0} /\ Len(Tail(q)) = Len(q) - 1 /\ Tail(q) \in Seq(Frame)
         /\ Head(q) = q[1] /\ Head(q) \in Frame /\ 1 \in 1..Len(q)
         /\ \A i \in 1..Len(Tail(q)) : Tail(q)[i] = q[i + 1] /\ i + 1 \in 1..Len(q)
         /\ \A i \in 1..Len(q) : q[i] \in Frame
         /\ \A i \in 1..Len(q) : i = 1 \/ (i - 1 \in 1..Len(Tail(q)) /\ Tail(q)[i - 1] = q[i])
<1>1. /\ Len(q) \in Nat \ {0} /\ Len(Tail(q)) = Len(q) - 1 /\ Tail(q) \in Seq(Frame)
      /\ Head(q) = q[1] /\ Head(q) \in Frame
      /\ \A i \in 1..Len(Tail(q)) : Tail(q)[i] = q[i + 1]
      /\ \A i \in 1..Len(q) : q[i] \in Frame
  BY HeadTailProperties, EmptySeq, ElementOfSeq
<1>2. \A i \in 1..Len(Tail(q)) : i + 1 \in 1..Len(q)
  BY <1>1
<1>3. \A i \in 1..Len(q) : i = 1 \/ i - 1 \in 1..Len(Tail(q))
  BY <1>1
<1>4. \A i \in 1..Len(q) : i = 1 \/ Tail(q)[i - 1] = q[i]
  BY <1>1, <1>3
<1>5. 1 \in 1..Len(q)
  BY <1>1
<1> QED
  BY <1>1, <1>2, <1>3, <1>4, <1>5

\* Numbers are natural numbers.
LEMMA NumNat ==
  ASSUME NEW x \in Frame, NEW total \in Nat
  PROVE  Num(x, total) \in Nat /\ x.item \in 0..MaxItems
BY FeedAssumption DEF FeedAssumption, Num, Frame

\* A frame is in a channel if it is put there, or if it is not the head that is taken.
LEMMA HasAppend ==
  ASSUME NEW q \in Seq(Frame), NEW x \in Frame
  PROVE  \A y : Has(Append(q, x), y) <=> Has(q, y) \/ y = x
BY AppendPlaces DEF Has

\* A frame is in a channel as its head or behind it.
LEMMA HasHead ==
  ASSUME NEW q \in Seq(Frame), q # <<>>
  PROVE  \A y : Has(q, y) <=> y = Head(q) \/ Has(Tail(q), y)
BY TailPlaces DEF Has

\* Data is held where it is.
LEMMA HasHolds ==
  ASSUME NEW q \in Seq(Frame), NEW f
  PROVE  /\ \A x : Has(q, x) => x \in Frame
         /\ \A x : Has(q, x) /\ x.feed = f => Holds(q, x.kind, f)
         /\ \A x : Has(q, x) /\ Data(x, f) => ~NoData(q, f)
BY ElementOfSeq DEF Has, Holds, Data, NoData

\* A channel without data is a run of any sort.
LEMMA RunNothing ==
  ASSUME NEW q \in Seq(Frame), NEW f, NoData(q, f), NEW last, NEW total
  PROVE  Run(q, f, last, total)
BY DEF Run, NoData, Holds, Data

\* The next number continues a run.
LEMMA RunAppend ==
  ASSUME NEW q \in Seq(Frame), NEW x \in Frame, NEW f, NEW last \in Nat, NEW total \in Nat,
         Run(q, f, last, total),
         Data(x, f) =>
           /\ Num(x, total) > last
           /\ \A y \in Frame : Has(q, y) /\ Data(y, f) => Num(y, total) < Num(x, total)
           /\ \/ Num(x, total) = last + 1
              \/ \E y \in Frame : Has(q, y) /\ Data(y, f) /\ Num(y, total) = Num(x, total) - 1
  PROVE  Run(Append(q, x), f, last, total)
<1> DEFINE r == Append(q, x)
<1>1. /\ Len(q) \in Nat /\ Len(r) = Len(q) + 1 /\ r[Len(q) + 1] = x
      /\ \A i \in 1..Len(q) : r[i] = q[i] /\ q[i] \in Frame
      /\ \A i \in 1..Len(r) : i \in 1..Len(q) \/ i = Len(q) + 1
      /\ \A i \in 1..Len(q) : i \in 1..Len(r) /\ i < Len(q) + 1
  BY AppendPlaces
<1> HIDE DEF r
<1>2. \A i \in 1..Len(r) : Data(r[i], f) => Num(r[i], total) > last
  BY <1>1 DEF Run
<1>3. ASSUME NEW i \in 1..Len(r), NEW j \in 1..Len(r), i < j, Data(r[i], f), Data(r[j], f)
      PROVE  Num(r[i], total) < Num(r[j], total)
  <2>1. i \in 1..Len(q) /\ r[i] = q[i]
    BY <1>1, <1>3
  <2>2. CASE j \in 1..Len(q)
    BY <1>1, <1>3, <2>1, <2>2 DEF Run
  <2>3. CASE j = Len(q) + 1
    BY <1>1, <1>3, <2>1, <2>3 DEF Has
  <2> QED
    BY <1>1, <2>2, <2>3
<1>4. ASSUME NEW i \in 1..Len(r), Data(r[i], f), Num(r[i], total) > last + 1
      PROVE  \E j \in 1..Len(r) :
               j < i /\ Data(r[j], f) /\ Num(r[j], total) = Num(r[i], total) - 1
  <2>1. CASE i \in 1..Len(q)
    <3>1. PICK j \in 1..Len(q) :
            j < i /\ Data(q[j], f) /\ Num(q[j], total) = Num(q[i], total) - 1
      BY <1>1, <1>4, <2>1 DEF Run
    <3> QED
      BY <1>1, <2>1, <3>1
  <2>2. CASE i = Len(q) + 1
    <3>1. PICK y \in Frame : Has(q, y) /\ Data(y, f) /\ Num(y, total) = Num(x, total) - 1
      BY <1>1, <1>4, <2>2, NumNat
    <3>2. PICK j \in 1..Len(q) : q[j] = y
      BY <3>1 DEF Has
    <3> QED
      BY <1>1, <2>2, <3>1, <3>2
  <2> QED
    BY <1>1, <2>1, <2>2
<1> QED
  BY <1>2, <1>3, <1>4 DEF Run, r

\* The head of a run is the next number, and what is behind it a run behind it.
LEMMA RunTail ==
  ASSUME NEW q \in Seq(Frame), q # <<>>, NEW f, NEW last \in Nat, NEW total \in Nat,
         Run(q, f, last, total)
  PROVE  /\ Data(Head(q), f) => Num(Head(q), total) = last + 1
         /\ Run(Tail(q), f, IF Data(Head(q), f) THEN last + 1 ELSE last, total)
<1> DEFINE r == Tail(q)
           next == IF Data(Head(q), f) THEN last + 1 ELSE last
<1>1. /\ Len(q) \in Nat \ {0} /\ Len(r) = Len(q) - 1 /\ Head(q) = q[1] /\ 1 \in 1..Len(q)
      /\ \A i \in 1..Len(r) : r[i] = q[i + 1] /\ i + 1 \in 1..Len(q)
      /\ \A i \in 1..Len(q) : q[i] \in Frame
      /\ \A i \in 1..Len(q) : i = 1 \/ (i - 1 \in 1..Len(r) /\ r[i - 1] = q[i])
  BY TailPlaces
<1> HIDE DEF r
<1>2. Data(Head(q), f) => Num(Head(q), total) = last + 1
  <2> SUFFICES ASSUME Data(q[1], f) PROVE Num(q[1], total) = last + 1
    BY <1>1
  <2>1. Num(q[1], total) > last /\ Num(q[1], total) \in Nat
    BY <1>1, NumNat DEF Run
  <2>2. ASSUME Num(q[1], total) > last + 1 PROVE FALSE
    <3>1. PICK j \in 1..Len(q) : j < 1
      BY <1>1, <2>2 DEF Run
    <3> QED
      BY <3>1, <1>1
  <2> QED
    BY <2>1, <2>2
<1>3. \A i \in 1..Len(r) : Data(r[i], f) => Num(r[i], total) > next
  <2> SUFFICES ASSUME NEW i \in 1..Len(r), Data(r[i], f) PROVE Num(r[i], total) > next
    OBVIOUS
  <2>1. i + 1 \in 1..Len(q) /\ 1 < i + 1 /\ r[i] = q[i + 1] /\ Num(r[i], total) \in Nat
    BY <1>1, NumNat
  <2>2. CASE Data(Head(q), f)
    BY <1>1, <1>2, <2>1, <2>2 DEF Run
  <2>3. CASE ~Data(Head(q), f)
    BY <2>1, <2>3 DEF Run
  <2> QED
    BY <2>2, <2>3
<1>4. ASSUME NEW i \in 1..Len(r), NEW j \in 1..Len(r), i < j, Data(r[i], f), Data(r[j], f)
      PROVE  Num(r[i], total) < Num(r[j], total)
  <2>1. i + 1 < j + 1
    BY <1>1, <1>4
  <2> QED
    BY <1>1, <1>4, <2>1 DEF Run
<1>5. ASSUME NEW i \in 1..Len(r), Data(r[i], f), Num(r[i], total) > next + 1
      PROVE  \E j \in 1..Len(r) :
               j < i /\ Data(r[j], f) /\ Num(r[j], total) = Num(r[i], total) - 1
  <2>1. i + 1 \in 1..Len(q) /\ r[i] = q[i + 1] /\ q[i + 1] \in Frame /\ Num(r[i], total) \in Nat
    BY <1>1, NumNat
  <2>2. PICK k \in 1..Len(q) :
          k < i + 1 /\ Data(q[k], f) /\ Num(q[k], total) = Num(q[i + 1], total) - 1
    BY <1>5, <2>1 DEF Run
  <2>3. k # 1
    <3> SUFFICES ASSUME k = 1 PROVE FALSE
      OBVIOUS
    <3>1. Data(Head(q), f) /\ Num(Head(q), total) = last + 1
      BY <1>1, <1>2, <2>2
    <3> QED
      BY <1>1, <1>5, <2>1, <2>2, <3>1
  <2>4. k - 1 \in 1..Len(r) /\ r[k - 1] = q[k] /\ k - 1 < i
    BY <1>1, <2>2, <2>3
  <2> QED
    BY <2>1, <2>2, <2>4
<1> QED
  BY <1>2, <1>3, <1>4, <1>5 DEF Run, r

\* The front part of a run is one.
LEMMA RunCut ==
  ASSUME NEW q \in Seq(Frame), NEW m \in 0..Len(q), NEW f, NEW last, NEW total,
         Run(q, f, last, total)
  PROVE  /\ Run(SubSeq(q, 1, m), f, last, total)
         /\ \A x : Has(SubSeq(q, 1, m), x) => Has(q, x)
<1> DEFINE r == SubSeq(q, 1, m)
<1>1. /\ Len(q) \in Nat /\ Len(r) = m
      /\ \A i \in 1..m : r[i] = q[i]
  BY SubSeqProperties, LenProperties
<1>2. /\ \A i \in 1..m : i \in 1..Len(q)
      /\ \A i \in 1..m : \A j \in 1..Len(q) : j < i => j \in 1..m
  BY <1>1
<1> HIDE DEF r
<1> QED
  BY <1>1, <1>2 DEF Run, Has, r

\* As long as the end is not in it, a run does not depend on the total.
LEMMA RunTotal ==
  ASSUME NEW q \in Seq(Frame), NEW f, NEW last, NEW total, NEW other,
         ~Holds(q, "end", f), Run(q, f, last, total)
  PROVE  Run(q, f, last, other)
<1>1. \A i \in 1..Len(q) : Data(q[i], f) => Num(q[i], other) = Num(q[i], total)
  BY DEF Data, Num, Holds
<1> QED
  BY <1>1 DEF Run

\* Two channels with the same data of a feed.
SameData(q, r, f) ==
  /\ \A last, total \in Nat : Run(q, f, last, total) => Run(r, f, last, total)
  /\ \A x : Data(x, f) => (Has(q, x) <=> Has(r, x))
  /\ Holds(q, "item", f) <=> Holds(r, "item", f)
  /\ Holds(q, "end", f) <=> Holds(r, "end", f)

\* A frame that is no data of the feed changes nothing of it, put there or taken off.
LEMMA SameAppend ==
  ASSUME NEW q \in Seq(Frame), NEW x \in Frame, NEW f, ~Data(x, f)
  PROVE  SameData(q, Append(q, x), f)
BY RunAppend, HasAppend, HoldsAppend DEF SameData, Data

\* Likewise for the head of a channel.
LEMMA SameTail ==
  ASSUME NEW q \in Seq(Frame), q # <<>>, NEW f, ~Data(Head(q), f)
  PROVE  SameData(q, Tail(q), f)
BY RunTail, HasHead, HoldsHead DEF SameData, Data

\* A channel left alone keeps the data it has.
LEMMA SameSame ==
  ASSUME NEW q, NEW f PROVE SameData(q, q, f)
BY DEF SameData
-----------------------------------------------------------------------------
(* Steps that are not about the data of a feed. *)

\* What a step on another feed, or on a reference or a cancel, may do: the receiving half
\* starts, or is dropped after that; no data moves.
PumpMoves(f) ==
  \/ UNCHANGED pump[f]
  \/ pump[f] \in {"unsent", "refQueued", "written"} /\ pump'[f] \in {"refQueued", "written", "recv", "abandoned"}
  \/ pump'[f] \in {"done", "aborted"}

\* Such a step leaves the counts and the data on their way as they are.
LEMMA SendingStays ==
  ASSUME TypeOK, NEW f \in Feed, Tape(f),
         UNCHANGED <<produced[f], buffered[f], senderOpen[f], written[f], routed[f]>>,
         up' => up, PumpMoves(f),
         \A s \in Side : SameData(queue[s], queue'[s], f) /\ SameData(wire[s], wire'[s], f)
  PROVE  /\ PumpCounts(f)' /\ QueueData(f)' /\ WireData(f)'
         /\ AllSent(f) => AllSent(f)'
<1>1. /\ Origin[f] \in Side
      /\ produced[f] \in Nat /\ written[f] \in Nat /\ routed[f] \in Nat
  BY Sides, FeedAssumption DEF FeedAssumption, TypeOK, ProducersOK, HistoryOK
<1>2. PumpCounts(f)'
  BY DEF Tape, PumpCounts, PumpMoves, InHand, ChannelOver
<1>3. QueueData(f)'
  BY <1>1 DEF Tape, QueueData, SameData, PumpMoves
<1>4. AllSent(f) => AllSent(f)'
  BY <1>1 DEF AllSent, PumpMoves, SameData, NoData
<1>5. WireData(f)'
  BY <1>1, <1>4 DEF Tape, WireData, SameData
<1> QED
  BY <1>2, <1>3, <1>4, <1>5

\* Such a step keeps the whole invariant of the feed, if it leaves the consumer alone.
LEMMA Untouched ==
  ASSUME TypeOK, NEW f \in Feed, Tape(f),
         UNCHANGED <<produced[f], buffered[f], senderOpen[f], written[f], routed[f]>>,
         UNCHANGED <<rx[f], inbox[f], delivered[f], closed[f]>>,
         f \in inbound' <=> f \in inbound,
         up' => up, PumpMoves(f),
         \A s \in Side : /\ SameData(queue[s], queue'[s], f)
                         /\ SameData(wire[s], wire'[s], f)
                         /\ SameData(held[s], held'[s], f)
                         /\ Holds(held'[s], "cancel", f) => Holds(held[s], "cancel", f)
  PROVE  Tape(f)'
<1>1. Origin[f] \in Side /\ Receiver(f) \in Side /\ Receiver(f)' = Receiver(f)
  BY Sides DEF Receiver, Peer
<1>2. PumpCounts(f)' /\ QueueData(f)' /\ WireData(f)' /\ (AllSent(f) => AllSent(f)')
  BY SendingStays
<1>3. OneWay(f)'
  BY <1>1 DEF Tape, OneWay, SameData, NoData
<1>4. HeldData(f)'
  BY <1>1, <1>2 DEF Tape, HeldData, SameData, EndRead, Ended, NoData
<1>5. InboxData(f)'
  BY <1>1 DEF Tape, InboxData, Handed, SameData, Ended, NoData
<1> QED
  BY <1>2, <1>3, <1>4, <1>5 DEF Tape

\* Two channels without data of the feed are the same to it.
LEMMA SameNoData ==
  ASSUME NEW q \in Seq(Frame), NEW r \in Seq(Frame), NEW f, NoData(q, f), NoData(r, f)
  PROVE  SameData(q, r, f)
BY RunNothing, HasHolds DEF SameData, NoData

\* What every step below starts from.
LEMMA Places ==
  ASSUME TypeOK, NEW f \in Feed
  PROVE  /\ Origin[f] \in Side /\ Receiver(f) \in Side /\ Receiver(f) # Origin[f]
         /\ Peer(Receiver(f)) = Origin[f]
         /\ produced[f] \in 0..MaxItems /\ buffered[f] \in 0..produced[f] /\ MaxItems \in Nat
         /\ written[f] \in 0..MaxItems /\ routed[f] \in 0..MaxItems
         /\ \A s \in Side : /\ queue[s] \in Seq(Frame) /\ wire[s] \in Seq(Frame)
                            /\ held[s] \in Seq(Frame) /\ messages[s] \in Seq(Frame)
         /\ inbox[f] \in Seq(Frame)
<1>1. /\ Origin[f] \in Side /\ Receiver(f) \in Side /\ Receiver(f) # Origin[f]
      /\ Peer(Receiver(f)) = Origin[f]
  BY Sides DEF Receiver, Peer, Side
<1>2. /\ produced[f] \in 0..MaxItems /\ buffered[f] \in 0..produced[f] /\ MaxItems \in Nat
      /\ written[f] \in 0..MaxItems /\ routed[f] \in 0..MaxItems
  BY FeedAssumption DEF FeedAssumption, TypeOK, ProducersOK, HistoryOK
<1> QED
  BY <1>1, <1>2 DEF TypeOK, ConnectionOK, ReadersOK, ConsumersOK

\* A value more in the local channel: the counts still tell it from those taken.
LEMMA ProduceKeeps ==
  ASSUME TypeOK, NEW f \in Feed, Tape(f), Produce(f)
  PROVE  Tape(f)'
<1>1. /\ UNCHANGED <<senderOpen, pump, queue, up, wire, held, inbound, rx, inbox, delivered, closed, written, routed>>
      /\ produced'[f] = produced[f] + 1 /\ buffered'[f] = buffered[f] + 1 /\ senderOpen[f]
  BY DEF Produce, connVars, readerVars, consumerVars, historyVars, TypeOK, ProducersOK
<1>2. /\ Receiver(f)' = Receiver(f) /\ ~AllSent(f) /\ ~EndRead(f) /\ ~Ended(f)
      /\ ~Holds(queue[Origin[f]], "end", f) /\ ~Holds(wire[Origin[f]], "end", f)
  BY <1>1 DEF Tape, QueueData, WireData, HeldData, AllSent, EndRead, Receiver, Peer
<1>3. ~AllSent(f)' /\ ~EndRead(f)' /\ ~Ended(f)'
  BY <1>1, <1>2 DEF AllSent, EndRead, Ended
<1>4. \A q, x : Has(q, x) /\ Data(x, f) /\ ~Holds(q, "end", f) =>
                Num(x, produced'[f]) = Num(x, produced[f])
  BY DEF Has, Holds, Data, Num
<1>5. PumpCounts(f)'
  BY <1>1, Places DEF Tape, PumpCounts, InHand, ChannelOver
<1>6. OneWay(f)'
  BY <1>1, <1>2 DEF Tape, OneWay
<1>7. QueueData(f)'
  BY <1>1, <1>2, <1>4, Places, RunTotal DEF Tape, QueueData
<1>8. WireData(f)'
  BY <1>1, <1>2, Places, RunTotal DEF Tape, WireData
<1>9. HeldData(f)'
  BY <1>1, <1>2, <1>3 DEF Tape, HeldData
<1>10. InboxData(f)'
  <2>1. Handed(f)' = Handed(f)
    BY <1>1, <1>2, <1>3 DEF Handed
  <2>2. \A i \in 1..Len(inbox[f]) : Data(inbox[f][i], f) =>
          Num(inbox[f][i], produced'[f]) = Num(inbox[f][i], produced[f])
    BY <1>2 DEF Ended, Holds, Data, Num
  <2> QED
    BY <1>1, <1>2, <1>3, <2>1, <2>2 DEF Tape, InboxData
<1> QED
  BY <1>5, <1>6, <1>7, <1>8, <1>9, <1>10 DEF Tape

\* Only the end of a feed depends on whether its senders live.
LEMMA CloseSenderKeeps ==
  ASSUME TypeOK, NEW f \in Feed, Tape(f), CloseSender(f)
  PROVE  Tape(f)'
<1>1. /\ UNCHANGED <<produced, buffered, pump, queue, up, wire, held, inbound, rx, inbox, delivered, closed, written, routed>>
      /\ ~senderOpen'[f] /\ Receiver(f)' = Receiver(f)
  BY DEF CloseSender, connVars, readerVars, consumerVars, historyVars, TypeOK, ProducersOK, Receiver, Peer
<1>2. AllSent(f) => AllSent(f)'
  BY <1>1 DEF AllSent
<1>3. PumpCounts(f)' /\ OneWay(f)' /\ QueueData(f)'
  BY <1>1 DEF Tape, PumpCounts, InHand, ChannelOver, OneWay, QueueData
<1>4. WireData(f)' /\ HeldData(f)'
  BY <1>1, <1>2 DEF Tape, WireData, HeldData, EndRead, Ended
<1>5. InboxData(f)'
  BY <1>1 DEF Tape, InboxData, Handed, Ended
<1> QED
  BY <1>3, <1>4, <1>5 DEF Tape

\* The pump takes the next value in hand, or finds the channel over.
LEMMA PumpTakeKeeps ==
  ASSUME TypeOK, NEW f \in Feed, Tape(f), PumpTake(f)
  PROVE  Tape(f)'
<1>1. /\ UNCHANGED <<produced, senderOpen, queue, up, wire, held, inbound, rx, inbox, delivered, closed, written, routed>>
      /\ pump[f] = "recv" /\ Receiver(f)' = Receiver(f)
      /\ \/ pump'[f] = "hand" /\ buffered'[f] = buffered[f] - 1
         \/ pump'[f] = "ending" /\ ChannelOver(f) /\ UNCHANGED buffered
  BY DEF PumpTake, connVars, readerVars, consumerVars, historyVars, TypeOK, ProducersOK, PumpsOK, Receiver, Peer
<1>2. ~AllSent(f) /\ ~EndRead(f) /\ ~Holds(wire[Origin[f]], "end", f) /\ NoData(queue[Origin[f]], f)
  BY <1>1 DEF Tape, QueueData, WireData, HeldData, AllSent, NoData
<1>3. PumpCounts(f)'
  BY <1>1, Places DEF Tape, PumpCounts, InHand, ChannelOver
<1>4. OneWay(f)' /\ QueueData(f)' /\ WireData(f)' /\ HeldData(f)'
  BY <1>1, <1>2 DEF Tape, OneWay, QueueData, WireData, HeldData, EndRead, Ended, NoData
<1>5. InboxData(f)'
  BY <1>1 DEF Tape, InboxData, Handed, Ended
<1> QED
  BY <1>3, <1>4, <1>5 DEF Tape

\* What the pump queues is the number behind the last one written.
LEMMA PumpSendKeeps ==
  ASSUME TypeOK, NEW f \in Feed, Tape(f), PumpSend(f)
  PROVE  Tape(f)'
<1> DEFINE O == Origin[f]
           x == IF pump[f] = "hand" THEN ItemFrame(f, InHand(f)) ELSE EndFrame(f)
<1>1. /\ UNCHANGED <<produced, buffered, senderOpen, up, wire, held, inbound, rx, inbox, delivered, closed, written, routed>>
      /\ Receiver(f)' = Receiver(f) /\ Receiver(f) # O
      /\ \/ pump[f] = "hand" /\ pump'[f] = "itemQueued"
         \/ pump[f] = "ending" /\ pump'[f] = "endQueued"
      /\ queue' = [queue EXCEPT ![O] = Append(@, x)]
      /\ queue'[O] = Append(queue[O], x) /\ queue'[Receiver(f)] = queue[Receiver(f)]
  BY Places DEF PumpSend, Enqueue, producerVars, readerVars, consumerVars, historyVars, TypeOK, PumpsOK, ConnectionOK, Receiver, Peer
<1>2. /\ x \in Frame /\ x.feed = f /\ Data(x, f)
      /\ x.kind = (IF pump[f] = "hand" THEN "item" ELSE "end")
      /\ pump[f] = "hand" => x.item = InHand(f)
  <2>1. InHand(f) \in 0..MaxItems
    BY Places DEF InHand
  <2> QED
    BY <1>1, <2>1, FrameTypes DEF ItemFrame, EndFrame, Data
<1> HIDE DEF x
<1>3. ~AllSent(f) /\ ~EndRead(f) /\ ~Holds(wire[O], "end", f) /\ NoData(queue[O], f)
  BY <1>1 DEF Tape, QueueData, WireData, HeldData, AllSent, NoData
<1>4. PumpCounts(f)'
  BY <1>1 DEF Tape, PumpCounts, InHand, ChannelOver
<1>5. /\ InHand(f) \in Nat /\ written[f] \in Nat /\ produced[f] \in Nat
      /\ pump[f] = "hand" => InHand(f) = written[f] + 1 /\ written[f] < produced[f]
      /\ pump[f] = "ending" => written[f] = produced[f] /\ ~senderOpen[f]
  BY <1>1, Places DEF Tape, PumpCounts, InHand, ChannelOver
<1>6. Num(x, produced[f]) = written[f] + 1
  BY <1>1, <1>2, <1>5 DEF Num
<1>7. QueueData(f)'
  <2>1. queue[O] \in Seq(Frame) /\ \A y : ~(Has(queue[O], y) /\ Data(y, f))
    BY <1>3, HasHolds, Places
  <2>2. Run(queue[O], f, written[f], produced[f])
    BY DEF Tape, QueueData
  <2>3. Run(queue'[O], f, written[f], produced[f])
    BY <1>1, <1>2, <1>5, <1>6, <2>1, <2>2, RunAppend
  <2>4. \A y : Has(queue'[O], y) /\ Data(y, f) => y = x
    BY <1>1, <1>2, <2>1, HasAppend
  <2>5. \A kind \in {"item", "end"} : Holds(queue'[O], kind, f) <=> x.kind = kind
    BY <1>1, <1>2, <1>3, <2>1, HoldsAppend DEF NoData
  <2> QED
    BY <1>1, <1>2, <1>5, <1>6, <2>3, <2>4, <2>5 DEF QueueData
<1>8. OneWay(f)' /\ WireData(f)' /\ HeldData(f)'
  BY <1>1, <1>3 DEF Tape, OneWay, WireData, HeldData, EndRead, Ended, NoData
<1>9. InboxData(f)'
  BY <1>1 DEF Tape, InboxData, Handed, Ended
<1> QED
  BY <1>4, <1>7, <1>8, <1>9 DEF Tape

\* The inbox stays an unbroken run up to the last one handed over.
LEMMA NextItemKeeps ==
  ASSUME TypeOK, NEW f \in Feed, Tape(f), NextItem(f)
  PROVE  Tape(f)'
<1> DEFINE q == inbox[f]
           x == Head(q)
           n == Len(q)
<1>1. /\ UNCHANGED <<produced, buffered, senderOpen, pump, queue, up, wire, held, inbound, rx, written, routed>>
      /\ rx[f] = "open" /\ q # <<>> /\ inbox'[f] = Tail(q) /\ Receiver(f)' = Receiver(f)
      /\ \/ x.kind = "end" /\ closed'[f] /\ UNCHANGED delivered
         \/ x.kind # "end" /\ UNCHANGED closed /\ delivered'[f] = Append(delivered[f], x.item)
  BY DEF NextItem, producerVars, connVars, readerVars, historyVars, TypeOK, ConsumersOK, Receiver, Peer
<1>2. /\ n \in Nat \ {0} /\ Len(Tail(q)) = n - 1 /\ Tail(q) \in Seq(Frame)
      /\ x = q[1] /\ x \in Frame /\ 1 \in 1..n
      /\ \A i \in 1..(n - 1) : Tail(q)[i] = q[i + 1] /\ i + 1 \in 1..n
      /\ q \in Seq(Frame)
  BY <1>1, TailPlaces, Places
<1>3. /\ ~closed[f] /\ n <= Handed(f)
      /\ Data(x, f) /\ Num(x, produced[f]) = (Handed(f) - n) + 1
  BY <1>1, <1>2 DEF Tape, InboxData
<1>4. PumpCounts(f)' /\ OneWay(f)' /\ QueueData(f)' /\ WireData(f)' /\ (AllSent(f) <=> AllSent(f)')
  BY <1>1 DEF Tape, PumpCounts, InHand, ChannelOver, OneWay, QueueData, WireData, AllSent
<1>5. Ended(f)' <=> Ended(f)
  <2>1. Holds(q, "end", f) <=> (x.kind = "end" /\ x.feed = f) \/ Holds(Tail(q), "end", f)
    BY <1>1, <1>2, HoldsHead
  <2> QED
    BY <1>1, <1>3, <2>1 DEF Ended, Data
<1>6. HeldData(f)'
  BY <1>1, <1>4, <1>5 DEF Tape, HeldData, EndRead
<1>7. Handed(f)' = Handed(f) /\ Handed(f) \in Int
  BY <1>1, <1>5, Places DEF Handed
<1> HIDE DEF x, n
<1>8. CASE x.kind = "end"
  <2>1. Ended(f) /\ Handed(f) = produced[f] + 1 /\ Num(x, produced[f]) = produced[f] + 1
    <3>1. Ended(f)
      BY <1>1, <1>5, <1>8 DEF Ended
    <3> QED
      BY <1>8, <3>1 DEF Handed, Num
  <2>2. n = 1 /\ Tail(q) = <<>>
    <3>1. n = 1
      BY <1>2, <1>3, <2>1, Places
    <3>2. Len(Tail(q)) = 0
      BY <1>2, <3>1
    <3>3. \A r \in Seq(Frame) : r # <<>> => Len(r) # 0
      BY EmptySeq
    <3> QED
      BY <1>2, <3>1, <3>2, <3>3
  <2>3. closed'[f] /\ inbox'[f] = <<>> /\ Ended(f)' /\ rx'[f] = "open"
    BY <1>1, <1>8, <2>1, <2>2, <1>5
  <2>4. Handed(f)' \in Nat
    BY <1>7, <2>1, Places
  <2> HIDE DEF q
  <2>5. InboxData(f)'
    BY <2>3, <2>4, EmptySeq DEF InboxData
  <2> QED
    BY <1>4, <1>6, <2>5 DEF Tape
<1>9. CASE x.kind # "end"
  <2>1. x.item = (Handed(f) - n) + 1 /\ ~closed'[f] /\ x.item \in Nat
    BY <1>1, <1>2, <1>3, <1>9, NumNat DEF Num
  <2>2. delivered'[f] = Append(delivered[f], x.item) /\ delivered[f] \in Seq(Nat)
    BY <1>1, <1>9 DEF TypeOK, ConsumersOK
  <2>3. Len(delivered'[f]) = Len(delivered[f]) + 1 /\ delivered'[f][Len(delivered[f]) + 1] = x.item
    BY <2>1, <2>2, AppendProperties
  <2>4. \A i \in 1..(n - 1) :
          /\ Data(Tail(q)[i], f)
          /\ Num(Tail(q)[i], produced[f]) = (Handed(f) - (n - 1)) + i
    <3> SUFFICES ASSUME NEW i \in 1..(n - 1)
                 PROVE  /\ Data(q[i + 1], f)
                        /\ Num(q[i + 1], produced[f]) = (Handed(f) - (n - 1)) + i
      BY <1>2
    <3>1. i + 1 \in 1..n
      BY <1>2
    <3>2. Data(q[i + 1], f) /\ Num(q[i + 1], produced[f]) = (Handed(f) - n) + (i + 1)
      BY <1>1, <3>1 DEF Tape, InboxData, n
    <3> QED
      BY <1>2, <1>7, <3>2
  <2>5. (Handed(f) - n) + 1 = Handed(f) - (n - 1) /\ n - 1 <= Handed(f)
    BY <1>2, <1>3, <1>7
  <2>6. rx'[f] = "open" /\ (f \in inbound' <=> f \in inbound) /\ produced' = produced
    BY <1>1
  <2>7. InboxData(f)'
    <3>1. rx'[f] = "open" /\ f \notin inbound' => Ended(f)'
      BY <1>1, <1>5 DEF Tape, InboxData
    <3> QED
      BY <1>1, <1>2, <1>7, <2>1, <2>3, <2>4, <2>5, <2>6, <3>1 DEF InboxData
  <2> QED
    BY <1>4, <1>6, <2>7 DEF Tape
<1> QED
  BY <1>8, <1>9

\* A dropped feed makes no more claims on its inbox, and queues a cancel.
LEMMA DropFeedKeeps ==
  ASSUME TypeOK, NEW f \in Feed, Tape(f), DropFeed(f)
  PROVE  Tape(f)'
<1>1. /\ UNCHANGED <<produced, buffered, senderOpen, pump, up, wire, held, delivered, closed, written, routed>>
      /\ rx'[f] = "dropped" /\ inbox'[f] = <<>> /\ Receiver(f)' = Receiver(f)
      /\ Origin[f] \in Side /\ Receiver(f) \in Side
  BY Places DEF DropFeed, producerVars, connVars, readerVars, historyVars, TypeOK, ConsumersOK, Receiver, Peer
<1>2. \A s \in Side : SameData(queue[s], queue'[s], f)
  <2>1. CASE CanQueue(Receiver(f))
    <3>1. CancelFrame(f) \in Frame /\ ~Data(CancelFrame(f), f)
      BY FrameTypes DEF CancelFrame, Data
    <3>2. Enqueue(Receiver(f), CancelFrame(f))
      BY <2>1 DEF DropFeed
    <3> QED
      BY <3>1, <3>2, <1>1, SameAppend, SameSame DEF Enqueue, TypeOK, ConnectionOK
  <2>2. CASE ~CanQueue(Receiver(f))
    BY <2>2, SameSame DEF DropFeed
  <2> QED
    BY <2>1, <2>2
<1>3. PumpCounts(f)' /\ QueueData(f)' /\ WireData(f)' /\ (AllSent(f) => AllSent(f)')
  BY <1>1, <1>2, SameSame, SendingStays DEF PumpMoves
<1>4. OneWay(f)'
  BY <1>1, <1>2 DEF Tape, OneWay, SameData, NoData
<1>5. Ended(f)' => Ended(f)
  BY <1>1, HoldsNothing DEF Ended
<1>6. HeldData(f)'
  BY <1>1, <1>3, <1>5 DEF Tape, HeldData, EndRead
<1>7. InboxData(f)'
  BY <1>1 DEF InboxData
<1> QED
  BY <1>3, <1>4, <1>6, <1>7 DEF Tape

\* The queue is emptied, the wire is not.
LEMMA WriterStopsKeeps ==
  ASSUME TypeOK, NEW f \in Feed, Tape(f), NEW s \in Side, WriterStops(s)
  PROVE  Tape(f)'
<1>1. /\ UNCHANGED <<produced, buffered, senderOpen, pump, up, wire, held, inbound, rx, inbox, delivered, closed, written, routed>>
      /\ Receiver(f)' = Receiver(f) /\ Origin[f] \in Side /\ Receiver(f) \in Side
      /\ \A t \in Side : queue'[t] = queue[t] \/ queue'[t] = <<>>
  BY Places DEF WriterStops, producerVars, readerVars, consumerVars, historyVars, TypeOK, ConnectionOK, Receiver, Peer
<1>2. /\ NoData(<<>>, f) /\ \A x : ~Has(<<>>, x)
      /\ Run(<<>>, f, written[f], produced[f])
  BY HoldsNothing DEF NoData, Has, Run
<1>3. PumpCounts(f)' /\ OneWay(f)'
  BY <1>1, <1>2 DEF Tape, PumpCounts, InHand, ChannelOver, OneWay
<1>4. QueueData(f)' /\ (AllSent(f) => AllSent(f)')
  BY <1>1, <1>2 DEF Tape, QueueData, AllSent, NoData
<1>5. WireData(f)' /\ HeldData(f)' /\ InboxData(f)'
  BY <1>1, <1>4 DEF Tape, WireData, HeldData, EndRead, Ended, InboxData, Handed
<1> QED
  BY <1>3, <1>4, <1>5 DEF Tape

\* A run of numbers that is cut anywhere is still a run.
LEMMA DisconnectKeeps ==
  ASSUME TypeOK, NEW f \in Feed, Tape(f), Disconnect
  PROVE  Tape(f)'
<1> DEFINE m(s, k) == IF k < Len(wire[s]) THEN k ELSE Len(wire[s])
<1>1. PICK keep \in [Side -> 0..WireCap] :
        wire' = [s \in Side |-> SubSeq(wire[s], 1, m(s, keep[s]))]
  BY DEF Disconnect
<1>2. \A s \in Side : wire[s] \in Seq(Frame) /\ m(s, keep[s]) \in 0..Len(wire[s])
  BY LenProperties, FeedAssumption DEF FeedAssumption, TypeOK, ConnectionOK
<1> HIDE DEF m
<1>3. \A s \in Side :
        /\ \A last, total : Run(wire[s], f, last, total) => Run(wire'[s], f, last, total)
        /\ \A kind : Holds(wire'[s], kind, f) => Holds(wire[s], kind, f)
        /\ \A x : Has(wire'[s], x) /\ Run(wire[s], f, routed[f], produced[f]) => Has(wire[s], x)
  BY <1>1, <1>2, RunCut, HoldsCut
<1>4. /\ UNCHANGED <<produced, buffered, senderOpen, pump, queue, held, inbound, rx, inbox, delivered, closed, written, routed>>
      /\ ~up' /\ Receiver(f)' = Receiver(f) /\ Origin[f] \in Side /\ Receiver(f) \in Side
  BY Places DEF Disconnect, producerVars, readerVars, consumerVars, historyVars, Receiver, Peer
<1>5. PumpCounts(f)' /\ OneWay(f)' /\ QueueData(f)' /\ (AllSent(f) => AllSent(f)')
  BY <1>3, <1>4 DEF Tape, PumpCounts, InHand, ChannelOver, OneWay, QueueData, AllSent, NoData
<1>6. WireData(f)' /\ HeldData(f)' /\ InboxData(f)'
  BY <1>3, <1>4, <1>5 DEF Tape, WireData, HeldData, EndRead, Ended, InboxData, Handed, NoData
<1> QED
  BY <1>5, <1>6 DEF Tape

\* The number that goes on the wire continues the run that is there.
LEMMA WriteFrameKeeps ==
  ASSUME TypeOK, NEW f \in Feed, Tape(f), NEW s \in Side, WriteFrame(s)
  PROVE  Tape(f)'
<1> DEFINE x == Head(queue[s])
           O == Origin[f]
<1>1. /\ UNCHANGED <<produced, buffered, senderOpen, up, held, inbound, rx, inbox, delivered, closed, routed>>
      /\ Receiver(f)' = Receiver(f) /\ O \in Side /\ Receiver(f) \in Side /\ up
      /\ queue[s] # <<>> /\ queue' = [queue EXCEPT ![s] = Tail(@)]
      /\ wire' = [wire EXCEPT ![s] = Append(@, x)]
      /\ pump' = [pump EXCEPT ![x.feed] = Resumed(x)] /\ written' = Noted(written, x)
      /\ \A t \in Side : queue[t] \in Seq(Frame) /\ wire[t] \in Seq(Frame)
      /\ queue \in [Side -> Seq(Frame)] /\ wire \in [Side -> Seq(Frame)]
      /\ pump \in [Feed -> PumpState] /\ written \in [Feed -> 0..MaxItems]
  BY Places DEF WriteFrame, producerVars, readerVars, consumerVars, TypeOK, ConnectionOK, PumpsOK, HistoryOK, Receiver, Peer
<1>2. x \in Frame /\ x.feed \in Feed
  BY <1>1, HeadTypes
<1> HIDE DEF x
<1>3. CASE ~Data(x, f)
  <2>1. UNCHANGED written[f]
    BY <1>1, <1>2, <1>3 DEF Noted, Data
  <2>2. PumpMoves(f)
    BY <1>1, <1>2, <1>3 DEF PumpMoves, Resumed, Data, Frame
  <2>3. \A t \in Side : SameData(queue[t], queue'[t], f) /\ SameData(wire[t], wire'[t], f)
    BY <1>1, <1>2, <1>3, SameTail, SameAppend, SameSame DEF x
  <2> QED
    BY <1>1, <2>1, <2>2, <2>3, SameSame, Untouched
<1>4. CASE Data(x, f)
  <2>1. /\ s = O /\ queue'[O] = Tail(queue[O]) /\ wire'[O] = Append(wire[O], x)
        /\ queue'[Receiver(f)] = queue[Receiver(f)] /\ wire'[Receiver(f)] = wire[Receiver(f)]
        /\ Has(queue[O], x) /\ Tail(queue[O]) \in Seq(Frame)
    <3>1. Has(queue[s], x)
      BY <1>1, HasHead DEF x
    <3>2. s = O
      <4>1. ~NoData(queue[s], f)
        BY <1>1, <1>4, <3>1, HasHolds
      <4> QED
        BY <1>1, <4>1, Places DEF Tape, OneWay, Receiver, Peer, Side
    <3> QED
      BY <1>1, <3>1, <3>2, TailPlaces, Places
  <2>2. /\ Holds(queue[O], x.kind, f) /\ x.kind \in {"item", "end"} /\ x.feed = f
        /\ Num(x, produced[f]) = written[f] + 1
        /\ produced[f] \in Nat /\ written[f] \in Nat /\ routed[f] \in Nat
        /\ routed[f] <= written[f] /\ written[f] <= produced[f]
    <3>1. x.kind \in {"item", "end"} /\ x.feed = f
      BY <1>4 DEF Data
    <3>2. Holds(queue[O], x.kind, f)
      BY <1>1, <2>1, <3>1, HasHolds
    <3>3. Num(x, produced[f]) = written[f] + 1
      BY <1>2, <1>4, <2>1 DEF Tape, QueueData
    <3>4. produced[f] \in Nat /\ written[f] \in Nat /\ routed[f] \in Nat
      BY Places
    <3> QED
      BY <3>1, <3>2, <3>3, <3>4 DEF Tape, PumpCounts
  <2>3. ~AllSent(f) /\ ~EndRead(f) /\ ~Holds(wire[O], "end", f)
    BY <2>2 DEF AllSent, NoData, Tape, HeldData, WireData
  <2>4. NoData(queue'[O], f)
    <3>1. Run(Tail(queue[O]), f, written[f] + 1, produced[f])
      <4>1. Run(queue[O], f, written[f], produced[f]) /\ Data(Head(queue[O]), f)
        BY <1>4, <2>1 DEF Tape, QueueData, x
      <4>2. queue[O] \in Seq(Frame) /\ queue[O] # <<>>
        BY <1>1, <2>1
      <4> QED
        BY <2>2, <4>1, <4>2, RunTail
    <3>2. ASSUME NEW y \in Frame, Has(Tail(queue[O]), y), Data(y, f) PROVE FALSE
      <4>1. Num(y, produced[f]) > written[f] + 1
        BY <3>1, <3>2 DEF Run, Has
      <4>2. Has(queue[O], y)
        BY <1>1, <2>1, <3>2, HasHead
      <4>3. Num(y, produced[f]) = written[f] + 1
        BY <3>2, <4>2 DEF Tape, QueueData
      <4> QED
        BY <2>2, <4>1, <4>3
    <3>3. \A i \in 1..Len(Tail(queue[O])) : Tail(queue[O])[i] \in Frame /\ Has(Tail(queue[O]), Tail(queue[O])[i])
      BY <2>1, ElementOfSeq DEF Has
    <3> QED
      BY <2>1, <3>2, <3>3 DEF NoData, Holds, Data
  <2>5. Run(wire'[O], f, routed[f], produced[f])
    <3>1. \A y \in Frame : Has(wire[O], y) /\ Data(y, f) => Num(y, produced[f]) < Num(x, produced[f])
      <4> SUFFICES ASSUME NEW y \in Frame, Has(wire[O], y), Data(y, f)
                   PROVE  Num(y, produced[f]) < written[f] + 1
        BY <2>2
      <4>1. y.kind = "item"
        BY <1>1, <2>3, HasHolds DEF Data
      <4>2. y.item <= written[f] /\ y.item \in Nat
        BY <4>1, NumNat, <2>2 DEF Tape, WireData
      <4> QED
        BY <2>2, <4>1, <4>2 DEF Num
    <3>2. \/ Num(x, produced[f]) = routed[f] + 1
          \/ \E y \in Frame : /\ Has(wire[O], y) /\ Data(y, f)
                              /\ Num(y, produced[f]) = Num(x, produced[f]) - 1
      <4>1. CASE routed[f] = written[f]
        BY <2>2, <4>1
      <4>2. CASE routed[f] < written[f]
        <5>1. PICK y \in Frame : Has(wire[O], y) /\ Data(y, f) /\ y.kind = "item" /\ y.item = written[f]
          BY <1>1, <4>2 DEF Tape, WireData
        <5> QED
          BY <2>2, <5>1 DEF Num
      <4> QED
        BY <2>2, <4>1, <4>2
    <3>3. Run(wire[O], f, routed[f], produced[f])
      BY DEF Tape, WireData
    <3> QED
      <4>1. wire[O] \in Seq(Frame) /\ wire'[O] = Append(wire[O], x) /\ Num(x, produced[f]) > routed[f]
        BY <1>1, <2>1, <2>2
      <4> QED
        BY <1>2, <2>2, <3>1, <3>2, <3>3, <4>1, RunAppend
  <2>6. \A y : Has(wire'[O], y) <=> Has(wire[O], y) \/ y = x
    BY <1>1, <1>2, <2>1, HasAppend
  <2>7. \A kind : Holds(wire'[O], kind, f) <=> Holds(wire[O], kind, f) \/ x.kind = kind
    BY <1>1, <1>2, <2>1, <2>2, HoldsAppend
  <2>8. ~EndRead(f)' /\ ~Ended(f)' /\ ~Ended(f)
    BY <1>1, <2>3 DEF EndRead, Ended
  <2>9. OneWay(f)' /\ HeldData(f)' /\ InboxData(f)'
    BY <1>1, <2>1, <2>3, <2>8 DEF Tape, OneWay, HeldData, InboxData, Handed
  <2>10. CASE x.kind = "item"
    <3>1. written'[f] = written[f] + 1 /\ x.item = written[f] + 1
      BY <1>1, <1>2, <2>2, <2>10 DEF Noted, Num
    <3>2. \/ pump[f] = "itemQueued" /\ pump'[f] = "recv"
          \/ pump[f] \in {"done", "aborted"} /\ pump'[f] = pump[f]
      BY <1>1, <2>2, <2>10 DEF Resumed, Tape, QueueData
    <3>3. written[f] < produced[f]
      BY <2>2, <2>10 DEF Tape, QueueData
    <3>4. PumpCounts(f)'
      <4>1. /\ produced'[f] = produced[f] /\ buffered'[f] = buffered[f]
            /\ senderOpen'[f] = senderOpen[f] /\ routed'[f] = routed[f]
        BY <1>1
      <4>2. PumpCounts(f)
        BY DEF Tape
      <4>3. pump[f] = "itemQueued" => InHand(f) = written[f] + 1
        BY <4>2 DEF PumpCounts
      <4>4. InHand(f)' = InHand(f)
        BY <4>1 DEF InHand
      <4>5. routed[f] <= written'[f] /\ written'[f] <= produced[f]
        BY <2>2, <3>1, <3>3
      <4>6. pump'[f] = "recv" => InHand(f)' = written'[f]
        BY <3>1, <3>2, <4>3, <4>4
      <4> QED
        BY <3>2, <4>1, <4>5, <4>6 DEF PumpCounts
    <3>5. QueueData(f)'
      <4>1. queue'[O] \in Seq(Frame) /\ ~Holds(queue'[O], "item", f) /\ ~Holds(queue'[O], "end", f)
        BY <2>1, <2>4 DEF NoData
      <4>2. \A y : ~(Has(queue'[O], y) /\ Data(y, f))
        BY <2>4, <4>1, HasHolds
      <4>3. Run(queue'[O], f, written'[f], produced'[f])
        BY <2>4, <4>1, RunNothing
      <4> QED
        BY <4>1, <4>2, <4>3 DEF QueueData
    <3>6. WireData(f)'
      <4>1. ~Holds(wire'[O], "end", f)
        BY <2>3, <2>7, <2>10
      <4>2. \A y \in Frame : Has(wire'[O], y) /\ Data(y, f) /\ y.kind = "item" => y.item <= written'[f]
        <5> SUFFICES ASSUME NEW y \in Frame, Has(wire'[O], y), Data(y, f), y.kind = "item"
                     PROVE  y.item <= written[f] + 1
          BY <3>1
        <5>1. CASE y = x
          BY <5>1, <3>1, <2>2
        <5>2. CASE Has(wire[O], y)
          <6>1. y.item <= written[f] /\ y.item \in Nat
            BY <5>2, NumNat, <2>2 DEF Tape, WireData
          <6> QED
            BY <6>1, <2>2
        <5> QED
          BY <2>6, <5>1, <5>2
      <4>3. \E y \in Frame : Has(wire'[O], y) /\ Data(y, f) /\ y.kind = "item" /\ y.item = written'[f]
        BY <1>2, <1>4, <2>6, <2>10, <3>1
      <4> QED
        BY <1>1, <2>5, <4>1, <4>2, <4>3 DEF WireData
    <3> QED
      BY <2>9, <3>4, <3>5, <3>6 DEF Tape
  <2>11. CASE x.kind = "end"
    <3>1. written'[f] = written[f] /\ written[f] = produced[f] /\ ~senderOpen[f]
      BY <1>1, <2>2, <2>11 DEF Noted, Tape, QueueData
    <3>2. /\ pump[f] \in {"endQueued", "done", "aborted"} /\ pump'[f] \in {"done", "aborted"}
      BY <1>1, <2>2, <2>11 DEF Resumed, Tape, QueueData
    <3>3. PumpCounts(f)'
      BY <1>1, <2>2, <3>1, <3>2 DEF PumpCounts
    <3>4. QueueData(f)'
      <4>1. queue'[O] \in Seq(Frame) /\ ~Holds(queue'[O], "item", f) /\ ~Holds(queue'[O], "end", f)
        BY <2>1, <2>4 DEF NoData
      <4>2. \A y : ~(Has(queue'[O], y) /\ Data(y, f))
        BY <2>4, <4>1, HasHolds
      <4>3. Run(queue'[O], f, written'[f], produced'[f])
        BY <2>4, <4>1, RunNothing
      <4> QED
        BY <4>1, <4>2, <4>3 DEF QueueData
    <3>5. AllSent(f)'
      BY <1>1, <2>4, <3>1, <3>2 DEF AllSent
    <3>6. WireData(f)'
      <4>1. \A y \in Frame : Has(wire'[O], y) /\ Data(y, f) /\ y.kind = "item" => y.item <= written'[f]
        BY <2>6, <2>11, <3>1 DEF Tape, WireData
      <4>2. routed[f] < written[f] =>
              \E y \in Frame : Has(wire'[O], y) /\ Data(y, f) /\ y.kind = "item" /\ y.item = written'[f]
        BY <1>1, <2>6, <3>1 DEF Tape, WireData
      <4> QED
        BY <1>1, <2>5, <3>1, <3>5, <4>1, <4>2 DEF WireData
    <3> QED
      BY <2>9, <3>3, <3>4, <3>6 DEF Tape
  <2> QED
    BY <2>2, <2>10, <2>11
<1> QED
  BY <1>3, <1>4

\* The data that a reader takes off the wire is the next one of its feed.
LEMMA ReadNext ==
  ASSUME TypeOK, NEW f \in Feed, Tape(f), NEW s \in Side, CanRead(s), TakeOff(s), Data(Arrived(s), f),
         UNCHANGED <<produced, buffered, senderOpen, pump, queue, up, written>>,
         routed' = Noted(routed, Arrived(s))
  PROVE  /\ s = Receiver(f) /\ Arrived(s) \in Frame /\ Receiver(f)' = Receiver(f)
         /\ PumpCounts(f)' /\ QueueData(f)' /\ WireData(f)' /\ AllSent(f)' = AllSent(f)
         /\ NoData(wire'[Receiver(f)], f)
         /\ ~EndRead(f)
         /\ Arrived(s).kind = "item" => routed'[f] = Arrived(s).item /\ routed'[f] = routed[f] + 1
         /\ Arrived(s).kind = "end" =>
              routed'[f] = routed[f] /\ AllSent(f) /\ routed[f] = produced[f] /\ NoData(wire'[Origin[f]], f)
<1> DEFINE x == Arrived(s)
           O == Origin[f]
           p == Peer(s)
<1>1. /\ p \in Side /\ wire[p] # <<>> /\ x = Head(wire[p]) /\ wire' = [wire EXCEPT ![p] = Tail(@)]
      /\ O \in Side /\ Receiver(f) \in Side /\ Receiver(f)' = Receiver(f) /\ held[s] = <<>>
      /\ \A t \in Side : wire[t] \in Seq(Frame)
      /\ wire \in [Side -> Seq(Frame)] /\ routed \in [Feed -> 0..MaxItems]
      /\ x.feed = f /\ x.kind \in {"item", "end"}
  BY Places, Sides DEF CanRead, TakeOff, Arrived, TypeOK, ConnectionOK, HistoryOK, Receiver, Peer, Data
<1> HIDE DEF p, x
<1>2. Has(wire[p], x) /\ ~NoData(wire[p], f) /\ x \in Frame /\ Tail(wire[p]) \in Seq(Frame)
  BY <1>1, HasHead, HasHolds, HeadTypes DEF Data
<1>3. p = O /\ s = Receiver(f)
  BY <1>1, <1>2, Places DEF p, Tape, OneWay, Receiver, Peer, Side
<1>4. wire'[O] = Tail(wire[O]) /\ wire'[Receiver(f)] = wire[Receiver(f)] /\ NoData(wire'[Receiver(f)], f)
  BY <1>1, <1>3, Places DEF Tape, OneWay
<1>5. /\ Num(x, produced[f]) = routed[f] + 1
      /\ Run(Tail(wire[O]), f, routed[f] + 1, produced[f])
  <2>1. Run(wire[O], f, routed[f], produced[f]) /\ routed[f] \in Nat /\ produced[f] \in Nat
    BY Places DEF Tape, WireData
  <2>2. Data(Head(wire[O]), f) /\ x = Head(wire[O])
    BY <1>1, <1>3 DEF Data
  <2> QED
    BY <1>1, <1>3, <2>1, <2>2, RunTail
<1>6. ~EndRead(f)
  BY <1>2, <1>3 DEF Tape, HeldData
<1>7. \A y : Has(wire[O], y) <=> y = x \/ Has(wire'[O], y)
  BY <1>1, <1>3, <1>4, HasHead
<1>8. /\ routed[f] \in Nat /\ written[f] \in Nat /\ produced[f] \in Nat
      /\ routed[f] <= written[f] /\ written[f] <= produced[f]
  BY Places DEF Tape, PumpCounts
<1>9. x.kind = "item" => routed'[f] = x.item /\ x.item = routed[f] + 1 /\ x.item <= written[f]
  BY <1>1, <1>2, <1>3, <1>5, <1>8 DEF Noted, Num, x, Tape, WireData, Data
<1>10. QueueData(f)' /\ AllSent(f)' = AllSent(f)
  BY DEF Tape, QueueData, AllSent
<1>11. CASE x.kind = "item"
  <2>1. PumpCounts(f)'
    BY <1>8, <1>9, <1>11 DEF Tape, PumpCounts, InHand, ChannelOver
  <2>2. WireData(f)'
    <3>1. Run(wire'[O], f, routed'[f], produced'[f])
      BY <1>4, <1>5, <1>9, <1>11
    <3>2. \A y \in Frame : Has(wire'[O], y) /\ Data(y, f) /\ y.kind = "item" => y.item <= written'[f]
      BY <1>7 DEF Tape, WireData
    <3>3. Holds(wire'[O], "end", f) => AllSent(f)'
      BY <1>1, <1>3, <1>4, <1>10, HoldsHead DEF Tape, WireData
    <3>4. up' /\ routed'[f] < written'[f] =>
            \E y \in Frame : Has(wire'[O], y) /\ Data(y, f) /\ y.kind = "item" /\ y.item = written'[f]
      <4> SUFFICES ASSUME up, routed'[f] < written[f]
                   PROVE \E y \in Frame : Has(wire'[O], y) /\ Data(y, f) /\ y.kind = "item" /\ y.item = written[f]
        OBVIOUS
      <4>1. routed[f] < written[f]
        BY <1>8, <1>9, <1>11
      <4>2. PICK y \in Frame : Has(wire[O], y) /\ Data(y, f) /\ y.kind = "item" /\ y.item = written[f]
        BY <4>1 DEF Tape, WireData
      <4>3. y # x
        BY <1>8, <1>9, <1>11, <4>2
      <4> QED
        BY <1>7, <4>2, <4>3
    <3> QED
      BY <3>1, <3>2, <3>3, <3>4 DEF WireData
  <2> QED
    BY <1>1, <1>2, <1>3, <1>4, <1>6, <1>9, <1>10, <1>11, <2>1, <2>2 DEF x
<1>12. CASE x.kind = "end"
  <2>1. routed'[f] = routed[f] /\ routed[f] = produced[f] /\ written[f] = produced[f]
    BY <1>1, <1>5, <1>8, <1>12 DEF Noted, Num, x
  <2>2. AllSent(f)
    <3>1. Holds(wire[O], "end", f)
      BY <1>1, <1>2, <1>3, <1>12, HasHolds
    <3> QED
      BY <3>1 DEF Tape, WireData
  <2>3. NoData(wire'[O], f)
    <3>1. ASSUME NEW y \in Frame, Has(Tail(wire[O]), y), Data(y, f) PROVE FALSE
      <4>1. Num(y, produced[f]) > routed[f] + 1
        BY <1>5, <3>1 DEF Run, Has
      <4>2. Has(wire[O], y)
        BY <1>4, <1>7, <3>1
      <4>3. CASE y.kind = "item"
        <5>1. y.item <= written[f] /\ y.item \in Nat
          BY <3>1, <4>2, <4>3, NumNat, <1>8 DEF Tape, WireData
        <5> QED
          BY <1>8, <2>1, <4>1, <4>3, <5>1 DEF Num
      <4>4. CASE y.kind = "end"
        BY <1>8, <2>1, <4>1, <4>4 DEF Num
      <4> QED
        BY <3>1, <4>3, <4>4 DEF Data
    <3>2. \A i \in 1..Len(Tail(wire[O])) : Tail(wire[O])[i] \in Frame /\ Has(Tail(wire[O]), Tail(wire[O])[i])
      BY <1>2, <1>3, ElementOfSeq DEF Has
    <3> QED
      BY <1>4, <3>1, <3>2 DEF NoData, Holds, Data
  <2>4. PumpCounts(f)'
    BY <2>1 DEF Tape, PumpCounts, InHand, ChannelOver
  <2>5. WireData(f)'
    <3>1. wire'[O] \in Seq(Frame)
      BY <1>2, <1>3, <1>4
    <3>2. \A y : ~(Has(wire'[O], y) /\ Data(y, f))
      BY <2>3, <3>1, HasHolds
    <3>3. Run(wire'[O], f, routed'[f], produced'[f])
      BY <2>3, <3>1, RunNothing
    <3> QED
      BY <1>8, <1>10, <2>1, <2>2, <3>2, <3>3 DEF WireData
  <2> QED
    BY <1>1, <1>2, <1>3, <1>4, <1>6, <1>10, <1>12, <2>1, <2>2, <2>3, <2>4, <2>5 DEF x
<1> QED
  BY <1>1, <1>11, <1>12

\* A frame that finds no entry is lost; the feed has no open receiver then.
LEMMA RouteUnknownKeeps ==
  ASSUME TypeOK, NEW f \in Feed, Tape(f), NEW s \in Side, RouteUnknown(s)
  PROVE  Tape(f)'
<1> DEFINE x == Arrived(s)
           p == Peer(s)
<1>1. /\ UNCHANGED <<produced, buffered, senderOpen, pump, queue, up, held, inbound, rx, inbox, delivered, closed, written>>
      /\ p \in Side /\ wire[p] # <<>> /\ x = Head(wire[p]) /\ wire' = [wire EXCEPT ![p] = Tail(@)]
      /\ CanRead(s) /\ TakeOff(s) /\ held[s] = <<>> /\ x.feed \notin inbound
      /\ \A t \in Side : wire[t] \in Seq(Frame)
      /\ wire \in [Side -> Seq(Frame)] /\ routed \in [Feed -> 0..MaxItems]
      /\ routed' = Noted(routed, x) /\ x \in Frame
  BY Sides, HeadTypes DEF RouteUnknown, Unknown, CanRead, TakeOff, Arrived, producerVars, readerVars, consumerVars, TypeOK, ConnectionOK, HistoryOK
<1>2. CASE ~Data(x, f)
  <2>1. \A t \in Side : SameData(wire[t], wire'[t], f)
    BY <1>1, <1>2, SameTail, SameSame
  <2>2. UNCHANGED routed[f]
    BY <1>1, <1>2 DEF Noted, Data
  <2> QED
    BY <1>1, <2>1, <2>2, SameSame, Untouched DEF PumpMoves
<1>3. CASE Data(x, f)
  <2>1. /\ s = Receiver(f) /\ Receiver(f)' = Receiver(f)
        /\ PumpCounts(f)' /\ QueueData(f)' /\ WireData(f)'
        /\ NoData(wire'[Receiver(f)], f) /\ ~EndRead(f)
    BY <1>1, <1>3, ReadNext
  <2>2. OneWay(f)'
    BY <1>1, <2>1 DEF Tape, OneWay
  <2>3. HeldData(f)'
    BY <1>1, <2>1 DEF HeldData, EndRead, Ended, Has
  <2>4. rx[f] # "open"
    BY <1>1, <1>3, <2>1 DEF Tape, InboxData, EndRead, Data
  <2>5. InboxData(f)'
    BY <1>1, <2>1, <2>4 DEF Tape, InboxData
  <2> QED
    BY <2>1, <2>2, <2>3, <2>5 DEF Tape
<1> QED
  BY <1>2, <1>3

\* A channel of one frame.
LEMMA OneFrame ==
  ASSUME NEW x \in Frame
  PROVE  /\ <<>> \in Seq(Frame) /\ <<x>> \in Seq(Frame) /\ <<x>> = Append(<<>>, x)
         /\ \A y : Has(<<x>>, y) <=> y = x
         /\ \A kind, f : Holds(<<x>>, kind, f) <=> x.kind = kind /\ x.feed = f
         /\ \A f : NoData(<<>>, f)
<1>1. <<>> \in Seq(Frame) /\ <<x>> \in Seq(Frame) /\ <<x>> = Append(<<>>, x)
  OBVIOUS
<1>2. Len(<<x>>) = 1 /\ <<x>>[1] = x
  OBVIOUS
<1>3. \A y : Has(<<x>>, y) <=> y = x
  BY <1>2 DEF Has
<1>4. \A kind, f : Holds(<<x>>, kind, f) <=> x.kind = kind /\ x.feed = f
  BY <1>2 DEF Holds
<1>5. \A f : NoData(<<>>, f)
  BY HoldsNothing DEF NoData
<1> QED
  BY <1>1, <1>3, <1>4, <1>5

\* A frame kept for its channel was the next one, and is counted as not handed over.
LEMMA RouteKnownKeeps ==
  ASSUME TypeOK, NEW f \in Feed, Tape(f), NEW s \in Side, RouteKnown(s)
  PROVE  Tape(f)'
<1> DEFINE x == Arrived(s)
           p == Peer(s)
<1>1. /\ UNCHANGED <<produced, buffered, senderOpen, pump, queue, up, inbound, rx, inbox, delivered, closed, written>>
      /\ p \in Side /\ wire[p] # <<>> /\ x = Head(wire[p]) /\ wire' = [wire EXCEPT ![p] = Tail(@)]
      /\ CanRead(s) /\ TakeOff(s) /\ held[s] = <<>>
      /\ held' = [held EXCEPT ![s] = <<x>>] /\ held'[s] = <<x>>
      /\ \A t \in Side : t # s => held'[t] = held[t]
      /\ \A t \in Side : wire[t] \in Seq(Frame)
      /\ wire \in [Side -> Seq(Frame)] /\ routed \in [Feed -> 0..MaxItems]
      /\ routed' = Noted(routed, x) /\ x \in Frame
      /\ x.kind # "cancel" /\ (x.kind \in {"item", "end"} => x.feed \in inbound)
  BY Sides, HeadTypes DEF RouteKnown, Unknown, CanRead, TakeOff, Arrived, producerVars, consumerVars, TypeOK, ConnectionOK, ReadersOK, HistoryOK
<1> HIDE DEF x
<1>2. /\ <<x>> \in Seq(Frame) /\ \A y : Has(<<x>>, y) <=> y = x
      /\ \A kind, g : Holds(<<x>>, kind, g) <=> x.kind = kind /\ x.feed = g
  BY <1>1, OneFrame
<1>3. CASE ~Data(x, f)
  <2>1. \A t \in Side : SameData(wire[t], wire'[t], f)
    BY <1>1, <1>3, SameTail, SameSame DEF x
  <2>2. UNCHANGED routed[f]
    BY <1>1, <1>3 DEF Noted, Data
  <2>3. SameData(held[s], held'[s], f)
    <3>1. <<>> \in Seq(Frame) /\ Append(<<>>, x) = <<x>>
      BY <1>1, OneFrame
    <3>2. SameData(<<>>, Append(<<>>, x), f)
      BY <1>1, <1>3, <3>1, SameAppend
    <3> QED
      BY <1>1, <3>1, <3>2
  <2>4. \A t \in Side : Holds(held'[t], "cancel", f) => Holds(held[t], "cancel", f)
    BY <1>1, <1>2
  <2>5. \A t \in Side : SameData(held[t], held'[t], f)
    BY <1>1, <2>3, SameSame
  <2> QED
    BY <1>1, <2>1, <2>2, <2>4, <2>5, SameSame, Untouched DEF PumpMoves
<1>4. CASE Data(x, f)
  <2>1. /\ s = Receiver(f) /\ Receiver(f)' = Receiver(f)
        /\ PumpCounts(f)' /\ QueueData(f)' /\ WireData(f)' /\ AllSent(f)' = AllSent(f)
        /\ NoData(wire'[Receiver(f)], f) /\ ~EndRead(f)
        /\ x.kind = "item" => routed'[f] = x.item /\ routed'[f] = routed[f] + 1
        /\ x.kind = "end" =>
             routed'[f] = routed[f] /\ AllSent(f) /\ routed[f] = produced[f] /\ NoData(wire'[Origin[f]], f)
    BY <1>1, <1>4, ReadNext DEF x
  <2>2. Receiver(f) # Origin[f] /\ Origin[f] \in Side /\ Receiver(f) \in Side /\ routed[f] \in Nat
    BY Places
  <2>3. OneWay(f)'
    BY <1>1, <1>2, <2>1, <2>2 DEF Tape, OneWay
  <2>4. ~Ended(f) /\ ~Ended(f)'
    BY <1>1, <2>1 DEF EndRead, Ended
  <2>5. HeldData(f)'
    <3>1. EndRead(f)' => x.kind = "end"
      <4>1. EndRead(f)' => Holds(held'[Receiver(f)'], "end", f)
        BY <2>4 DEF EndRead
      <4>2. held'[Receiver(f)'] = <<x>>
        BY <1>1, <2>1
      <4> QED
        BY <1>2, <4>1, <4>2
    <3>2. held'[Receiver(f)] = <<x>>
      BY <1>1, <2>1
    <3>3. \A y \in Frame : Has(<<x>>, y) /\ Data(y, f) /\ y.kind = "item" => y.item = routed'[f]
      BY <1>2, <2>1
    <3>4. EndRead(f)' => AllSent(f)' /\ routed'[f] = produced'[f] /\ NoData(wire'[Origin[f]], f)
      BY <1>1, <2>1, <3>1
    <3> QED
      BY <2>4, <3>2, <3>3, <3>4 DEF HeldData
  <2>6. Handed(f)' = Handed(f)
    <3>1. ~Holds(held[Receiver(f)], "item", f)
      BY <1>1, <2>1, HoldsNothing
    <3>2. Holds(held'[Receiver(f)], "item", f) <=> x.kind = "item"
      <4>1. held'[Receiver(f)] = <<x>> /\ x.feed = f
        BY <1>1, <1>4, <2>1 DEF Data
      <4>2. Holds(<<x>>, "item", f) <=> x.kind = "item" /\ x.feed = f
        BY <1>2
      <4> QED
        BY <4>1, <4>2
    <3>3. CASE x.kind = "item"
      BY <2>1, <2>2, <2>4, <3>1, <3>2, <3>3 DEF Handed
    <3>4. CASE x.kind = "end"
      BY <2>1, <2>4, <3>1, <3>2, <3>4 DEF Handed
    <3> QED
      BY <1>4, <3>3, <3>4 DEF Data
  <2>7. rx[f] # "none"
    BY <1>1, <1>4 DEF Tape, InboxData, Data
  <2>8. InboxData(f)'
    BY <1>1, <2>4, <2>6, <2>7 DEF Tape, InboxData
  <2> QED
    BY <2>1, <2>3, <2>5, <2>8 DEF Tape
<1> QED
  BY <1>3, <1>4

\* A message is no data of any feed.
LEMMA HandMessageKeeps ==
  ASSUME TypeOK, NEW f \in Feed, Tape(f), NEW s \in Side, HandMessage(s)
  PROVE  Tape(f)'
<1>1. /\ UNCHANGED <<produced, buffered, senderOpen, pump, queue, up, wire, inbound, rx, inbox, delivered, closed, written, routed>>
      /\ held' = [held EXCEPT ![s] = <<>>] /\ held[s] # <<>> /\ Head(held[s]).kind = "ref"
      /\ held[s] \in Seq(Frame) /\ Len(held[s]) <= 1 /\ held \in [Side -> Seq(Frame)]
  BY DEF HandMessage, producerVars, connVars, consumerVars, historyVars, TypeOK, ReadersOK, Bounded
<1>2. SameData(held[s], <<>>, f)
  <2>1. Tail(held[s]) = <<>>
    BY <1>1, TailPlaces, EmptySeq
  <2> QED
    BY <1>1, <2>1, SameTail DEF Data
<1>3. \A t \in Side : /\ SameData(held[t], held'[t], f)
                      /\ Holds(held'[t], "cancel", f) => Holds(held[t], "cancel", f)
  BY <1>1, <1>2, SameSame, HoldsNothing
<1> QED
  BY <1>1, <1>3, SameSame, Untouched DEF PumpMoves

\* What the reader hands over continues the run in the inbox.
LEMMA HandFeedFrameKeeps ==
  ASSUME TypeOK, NEW f \in Feed, Tape(f), NEW s \in Side, HandFeedFrame(s), Tape(Head(held[s]).feed)
  PROVE  Tape(f)'
<1> DEFINE x == Head(held[s])
           g == x.feed
           R == Receiver(f)
           q == inbox[f]
<1>1. /\ UNCHANGED <<produced, buffered, senderOpen, pump, queue, up, wire, rx, delivered, closed, written, routed>>
      /\ held' = [held EXCEPT ![s] = <<>>] /\ held[s] # <<>> /\ x.kind # "ref"
      /\ held[s] \in Seq(Frame) /\ Len(held[s]) <= 1 /\ held \in [Side -> Seq(Frame)]
      /\ x \in Frame /\ g \in Feed /\ q \in Seq(Frame) /\ inbox \in [Feed -> Seq(Frame)]
      /\ R' = R /\ R \in Side /\ Origin[f] \in Side
      /\ \A t \in Side : held'[t] = IF t = s THEN <<>> ELSE held[t]
  BY HeadTypes, Places DEF HandFeedFrame, producerVars, connVars, historyVars, TypeOK, ReadersOK, ConsumersOK, Bounded, Receiver, Peer
<1>2. \/ ReceiverGone(g) /\ inbound' = inbound \ {g} /\ UNCHANGED inbox
      \/ /\ rx[g] = "open" /\ inbox' = [inbox EXCEPT ![g] = Append(@, x)]
         /\ inbound' = IF x.kind = "end" THEN inbound \ {g} ELSE inbound
  BY DEF HandFeedFrame
<1>3. Tail(held[s]) = <<>> /\ Has(held[s], x) /\ \A kind, h : Holds(held[s], kind, h) <=> x.kind = kind /\ x.feed = h
  <2>1. Tail(held[s]) = <<>>
    BY <1>1, TailPlaces, EmptySeq
  <2>2. Has(held[s], x)
    <3>1. Head(held[s]) = held[s][1] /\ 1 \in 1..Len(held[s])
      BY <1>1, TailPlaces
    <3> QED
      BY <3>1 DEF Has
  <2>3. \A kind, h : Holds(held[s], kind, h) <=> x.kind = kind /\ x.feed = h
    <3>1. ASSUME NEW kind, NEW h
          PROVE  Holds(held[s], kind, h) <=> x.kind = kind /\ x.feed = h
      <4>1. ~Holds(Tail(held[s]), kind, h)
        BY <2>1, HoldsNothing
      <4> QED
        BY <1>1, <4>1, HoldsHead
    <3> QED
      BY <3>1
  <2> QED
    BY <2>1, <2>2, <2>3
<1>4. Data(x, g)
  <2>1. x.kind # "cancel"
    BY <1>3 DEF Tape, OneWay
  <2> QED
    BY <1>1, <2>1 DEF Data, Frame, Kind
<1> HIDE DEF x
<1>5. CASE g # f
  <2>1. \A t \in Side : /\ SameData(held[t], held'[t], f)
                        /\ Holds(held'[t], "cancel", f) => Holds(held[t], "cancel", f)
    <3>1. SameData(held[s], <<>>, f)
      <4>1. ~Data(Head(held[s]), f)
        BY <1>5 DEF Data, x
      <4> QED
        BY <1>1, <1>3, <4>1, SameTail
    <3> QED
      BY <1>1, <3>1, SameSame, HoldsNothing
  <2>2. UNCHANGED inbox[f] /\ (f \in inbound' <=> f \in inbound)
    BY <1>1, <1>2, <1>5
  <2> QED
    BY <1>1, <2>1, <2>2, SameSame, Untouched DEF PumpMoves
<1>6. CASE g = f
  <2>1. s = R /\ x.feed = f /\ x.kind \in {"item", "end"}
    <3>1. ~NoData(held[s], f)
      BY <1>3, <1>4, <1>6 DEF NoData, Data
    <3> QED
      BY <1>4, <1>6, <3>1, Places DEF Data, Tape, OneWay, Receiver, Peer, Side
  <2>2. held'[R] = <<>> /\ NoData(held'[R], f) /\ \A y : ~Has(held'[R], y)
    BY <1>1, <2>1, HoldsNothing DEF NoData, Has
  <2>3. PumpCounts(f)' /\ QueueData(f)' /\ WireData(f)' /\ AllSent(f)' = AllSent(f)
    BY <1>1 DEF Tape, PumpCounts, InHand, ChannelOver, QueueData, WireData, AllSent
  <2>4. OneWay(f)'
    BY <1>1, HoldsNothing DEF Tape, OneWay, NoData
  <2>5. ~Ended(f) /\ (EndRead(f) <=> x.kind = "end")
    BY <1>3, <2>1 DEF Tape, HeldData, EndRead, NoData
  <2>6. CASE rx[f] = "open" /\ inbox' = [inbox EXCEPT ![f] = Append(@, x)]
             /\ inbound' = IF x.kind = "end" THEN inbound \ {f} ELSE inbound
    <3>1. inbox'[f] = Append(q, x) /\ (Holds(inbox'[f], "end", f) <=> x.kind = "end")
      BY <1>1, <2>1, <2>5, <2>6, HoldsAppend DEF Ended
    <3>2. /\ Ended(f)' <=> x.kind = "end"
          /\ EndRead(f)' <=> x.kind = "end"
      BY <1>1, <2>2, <2>5, <3>1 DEF Ended, EndRead, NoData
    <3>3. HeldData(f)'
      BY <1>1, <2>2, <2>3, <2>5, <3>2 DEF Tape, HeldData
    <3>4. routed[f] \in Nat /\ produced[f] \in Nat
      BY Places
    <3>5. Handed(f)' = Handed(f) + 1 /\ Num(x, produced[f]) = Handed(f) + 1 /\ Handed(f) \in Int
      <4>1. CASE x.kind = "item"
        <5>1. x.item = routed[f]
          BY <1>1, <1>3, <1>4, <1>6, <2>1, <4>1 DEF Tape, HeldData
        <5>2. Handed(f) = routed[f] - 1
          BY <1>3, <2>1, <2>5, <4>1 DEF Handed
        <5>3. Handed(f)' = routed[f]
          BY <1>1, <2>2, <3>2, <3>4, <4>1 DEF Handed, NoData
        <5> QED
          BY <3>4, <4>1, <5>1, <5>2, <5>3 DEF Num
      <4>2. CASE x.kind = "end"
        <5>1. routed[f] = produced[f]
          BY <2>5, <4>2 DEF Tape, HeldData
        <5>2. Handed(f) = routed[f]
          BY <1>3, <2>1, <2>5, <3>4, <4>2 DEF Handed
        <5>3. Handed(f)' = produced[f] + 1
          BY <1>1, <3>2, <4>2 DEF Handed
        <5> QED
          BY <3>4, <4>2, <5>1, <5>2, <5>3 DEF Num
      <4> QED
        BY <2>1, <4>1, <4>2
    <3>6. /\ Len(q) \in Nat /\ Len(inbox'[f]) = Len(q) + 1 /\ inbox'[f][Len(q) + 1] = x
          /\ \A i \in 1..Len(q) : inbox'[f][i] = q[i]
          /\ \A i \in 1..(Len(q) + 1) : i \in 1..Len(q) \/ i = Len(q) + 1
      BY <1>1, <3>1, AppendPlaces
    <3>7. /\ Len(q) <= Handed(f) /\ ~closed[f]
          /\ \A i \in 1..Len(q) : Data(q[i], f) /\ Num(q[i], produced[f]) = (Handed(f) - Len(q)) + i
          /\ delivered[f] # <<>> => delivered[f][Len(delivered[f])] = Handed(f) - Len(q)
      BY <2>5, <2>6 DEF Tape, InboxData, Ended
    <3>8. ASSUME NEW i \in 1..(Len(q) + 1)
          PROVE  /\ Data(inbox'[f][i], f)
                 /\ Num(inbox'[f][i], produced[f]) = ((Handed(f) + 1) - (Len(q) + 1)) + i
      <4>0. (Handed(f) + 1) - (Len(q) + 1) = Handed(f) - Len(q)
        <5>1. \A a, b \in Int : (a + 1) - (b + 1) = a - b
          OBVIOUS
        <5>2. Handed(f) \in Int
          BY <3>5
        <5>3. Len(q) \in Int
          BY <3>6
        <5> HIDE DEF q
        <5> QED
          BY <5>1, <5>2, <5>3
      <4>1. CASE i \in 1..Len(q)
        BY <3>6, <3>7, <4>0, <4>1
      <4>2. CASE i = Len(q) + 1
        <5>1. (Handed(f) - Len(q)) + i = Handed(f) + 1
          BY <3>5, <3>6, <4>2
        <5> QED
          BY <1>4, <1>6, <3>5, <3>6, <4>0, <4>2, <5>1
      <4> QED
        BY <3>6, <4>1, <4>2
    <3>9. rx[f] = "open" /\ f \notin inbound' => Ended(f)'
      BY <2>5, <2>6, <3>2 DEF Tape, InboxData
    <3>10. Len(q) + 1 <= Handed(f) + 1 /\ (Handed(f) + 1) - (Len(q) + 1) = Handed(f) - Len(q)
      BY <3>5, <3>6, <3>7
    <3> HIDE DEF q
    <3>11. InboxData(f)'
      BY <1>1, <2>6, <3>5, <3>6, <3>7, <3>8, <3>9, <3>10 DEF InboxData
    <3> QED
      BY <2>3, <2>4, <3>3, <3>11 DEF Tape
  <2>7. CASE rx[f] = "dropped" /\ UNCHANGED inbox
    <3>1. HeldData(f)'
      BY <1>1, <2>2, <2>3, <2>7, HoldsNothing DEF Tape, HeldData, EndRead, Ended
    <3>2. InboxData(f)'
      BY <1>1, <2>7 DEF Tape, InboxData
    <3> QED
      BY <2>3, <2>4, <3>1, <3>2 DEF Tape
  <2> QED
    BY <1>2, <1>6, <2>6, <2>7 DEF ReceiverGone
<1> QED
  BY <1>5, <1>6

\* A feed that is registered has seen nothing yet, whatever was lost before.
LEMMA ReceiveKeeps ==
  ASSUME TypeOK, ScopeInv, NEW f \in Feed, Tape(f), NEW s \in Side, Receive(s)
  PROVE  Tape(f)'
<1> DEFINE x == Head(messages[s])
           g == x.feed
<1>1. /\ UNCHANGED <<produced, buffered, senderOpen, pump, queue, up, wire, held, inbox, delivered, closed, written, routed>>
      /\ messages[s] \in Seq(Frame) /\ messages[s] # <<>> /\ x \in Frame /\ g \in Feed
      /\ rx' = [rx EXCEPT ![g] = "open"] /\ inbound' = inbound \union {g}
      /\ rx \in [Feed -> {"none", "open", "dropped"}]
      /\ Receiver(f)' = Receiver(f)
  BY HeadTypes DEF Receive, producerVars, connVars, historyVars, TypeOK, ReadersOK, ConsumersOK, Receiver, Peer
<1>2. x.kind = "ref" /\ rx[g] = "none"
  <2>1. x.kind = "ref" /\ Holds(messages[s], "ref", g)
    BY <1>1, OnlyRefsChange, HoldsHead DEF ScopeInv, RefsOnce
  <2>2. OnePlace(g) /\ Origin[g] \in Side
    BY <1>1, Sides DEF ScopeInv, RefPlaces
  <2> QED
    BY <2>1, <2>2 DEF OnePlace, Sent, Astray, Receiver, Peer, Side
<1> HIDE DEF x
<1>3. CASE g # f
  BY <1>1, <1>3, SameSame, Untouched DEF PumpMoves
<1>4. CASE g = f
  <2>1. /\ inbox[f] = <<>> /\ delivered[f] = <<>> /\ ~closed[f] /\ NoData(held[Receiver(f)], f)
        /\ rx'[f] = "open" /\ f \in inbound'
    BY <1>1, <1>2, <1>4 DEF Tape, InboxData
  <2>2. PumpCounts(f)' /\ OneWay(f)' /\ QueueData(f)' /\ WireData(f)' /\ HeldData(f)'
    BY <1>1 DEF Tape, PumpCounts, InHand, ChannelOver, OneWay, QueueData, WireData, HeldData,
       EndRead, Ended, AllSent
  <2>3. Handed(f)' = routed[f] /\ routed[f] \in Nat
    BY <1>1, <2>1, Places, HoldsNothing DEF Handed, Ended, NoData
  <2>4. InboxData(f)'
    BY <1>1, <2>1, <2>3 DEF InboxData
  <2> QED
    BY <2>2, <2>4 DEF Tape
<1> QED
  BY <1>3, <1>4

\* A step of another feed, or one that only concerns references, cancels and
\* the start and the end of a pump, moves no data of this one.
LEMMA OthersKeep ==
  ASSUME TypeOK, NEW f \in Feed, Tape(f), NEW g \in Feed,
         \/ g # f /\ \/ Produce(g) \/ CloseSender(g) \/ PumpTake(g) \/ PumpSend(g)
                     \/ NextItem(g) \/ DropFeed(g)
         \/ SendRef(g) \/ Activate(g) \/ Register(g) \/ AbandonSend(g) \/ PumpFail(g)
  PROVE  Tape(f)'
<1> USE DEF producerVars, connVars, readerVars, consumerVars, historyVars
<1>1. /\ produced \in [Feed -> 0..MaxItems] /\ senderOpen \in [Feed -> BOOLEAN]
      /\ buffered \in [Feed -> 0..FeedCap] /\ pump \in [Feed -> PumpState]
      /\ rx \in [Feed -> {"none", "open", "dropped"}] /\ inbox \in [Feed -> Seq(Frame)]
      /\ delivered \in [Feed -> Seq(Nat)] /\ closed \in [Feed -> BOOLEAN]
      /\ queue \in [Side -> Seq(Frame)]
  BY DEF TypeOK, ProducersOK, PumpsOK, ConsumersOK, ConnectionOK
<1>2. /\ Origin[g] \in Side /\ Receiver(g) \in Side /\ InHand(g) \in 0..MaxItems
      /\ RefFrame(g) \in Frame /\ EndFrame(g) \in Frame /\ CancelFrame(g) \in Frame
      /\ ItemFrame(g, InHand(g)) \in Frame
  BY Places, FrameTypes, FeedAssumption DEF InHand, ItemFrame, Frame, Kind
<1>3. ASSUME NEW t \in Side, NEW x \in Frame, ~Data(x, f), Enqueue(t, x)
      PROVE  \A s \in Side : SameData(queue[s], queue'[s], f)
  <2>1. \A s \in Side : queue[s] \in Seq(Frame) /\ queue'[s] = IF s = t THEN Append(queue[s], x) ELSE queue[s]
    BY <1>1, <1>3 DEF Enqueue
  <2> QED
    BY <1>3, <2>1, SameAppend, SameSame
<1>4. ~Data(RefFrame(g), f) /\ ~Data(CancelFrame(g), f)
      /\ (g # f => ~Data(EndFrame(g), f) /\ ~Data(ItemFrame(g, InHand(g)), f))
  BY DEF Data, RefFrame, CancelFrame, EndFrame, ItemFrame
<1>5. CASE Produce(g) /\ g # f
  BY <1>1, <1>5, SameSame, Untouched DEF Produce, PumpMoves
<1>6. CASE CloseSender(g) /\ g # f
  BY <1>1, <1>6, SameSame, Untouched DEF CloseSender, PumpMoves
<1>7. CASE PumpTake(g) /\ g # f
  BY <1>1, <1>7, SameSame, Untouched DEF PumpTake, PumpMoves
<1>8. CASE PumpSend(g) /\ g # f
  <2>1. \A s \in Side : SameData(queue[s], queue'[s], f)
    BY <1>2, <1>3, <1>4, <1>8 DEF PumpSend
  <2> QED
    BY <1>1, <1>8, <2>1, SameSame, Untouched DEF PumpSend, PumpMoves
<1>9. CASE NextItem(g) /\ g # f
  BY <1>1, <1>9, SameSame, Untouched DEF NextItem, PumpMoves
<1>10. CASE DropFeed(g) /\ g # f
  <2>1. \A s \in Side : SameData(queue[s], queue'[s], f)
    BY <1>2, <1>3, <1>4, <1>10, SameSame DEF DropFeed
  <2>2. f \in inbound' <=> f \in inbound
    BY <1>10 DEF DropFeed
  <2> QED
    BY <1>1, <1>10, <2>1, <2>2, SameSame, Untouched DEF DropFeed, PumpMoves
<1>11. CASE SendRef(g)
  <2>1. \A s \in Side : SameData(queue[s], queue'[s], f)
    BY <1>2, <1>3, <1>4, <1>11 DEF SendRef
  <2> QED
    BY <1>1, <1>11, <2>1, SameSame, Untouched DEF SendRef, PumpMoves
<1>12. CASE Activate(g)
  BY <1>1, <1>12, SameSame, Untouched DEF Activate, PumpMoves
<1>13. CASE Register(g)
  BY <1>1, <1>13, SameSame, Untouched DEF Register, PumpMoves
<1>14. CASE AbandonSend(g)
  BY <1>1, <1>14, SameSame, Untouched DEF AbandonSend, PumpMoves
<1>15. CASE PumpFail(g)
  BY <1>1, <1>15, SameSame, Untouched DEF PumpFail, PumpMoves
<1> QED
  BY <1>5, <1>6, <1>7, <1>8, <1>9, <1>10, <1>11, <1>12, <1>13, <1>14, <1>15

\* A cancel takes no data off the wire.
LEMMA RouteCancelKeeps ==
  ASSUME TypeOK, NEW f \in Feed, Tape(f), NEW s \in Side, RouteCancel(s)
  PROVE  Tape(f)'
<1> DEFINE p == Peer(s)
<1>1. /\ UNCHANGED <<produced, buffered, senderOpen, queue, up, held, inbound, rx, inbox, delivered, closed, written, routed>>
      /\ p \in Side /\ wire[p] # <<>> /\ Head(wire[p]).kind = "cancel"
      /\ wire' = [wire EXCEPT ![p] = Tail(@)] /\ wire \in [Side -> Seq(Frame)]
      /\ pump'[f] \in {pump[f], "aborted"}
  BY Sides DEF RouteCancel, CanRead, TakeOff, Arrived, producerVars, readerVars, consumerVars,
     historyVars, TypeOK, ConnectionOK
<1>2. \A t \in Side : SameData(wire[t], wire'[t], f)
  <2>1. wire[p] \in Seq(Frame) /\ ~Data(Head(wire[p]), f)
    BY <1>1 DEF Data
  <2>2. \A t \in Side : wire'[t] = IF t = p THEN Tail(wire[p]) ELSE wire[t]
    BY <1>1
  <2> QED
    BY <1>1, <2>1, <2>2, SameTail, SameSame
<1> QED
  BY <1>1, <1>2, SameSame, Untouched DEF PumpMoves

\* Neither does a reader that leaves, or no step at all.
LEMMA RestKeeps ==
  ASSUME TypeOK, NEW f \in Feed, Tape(f), UNCHANGED vars \/ \E s \in Side : ReaderExits(s)
  PROVE  Tape(f)'
<1>1. UNCHANGED <<produced, buffered, senderOpen, pump, queue, up, wire, held, inbound, rx, inbox,
                  delivered, closed, written, routed>>
  BY DEF vars, ReaderExits, producerVars, connVars, readerVars, consumerVars, historyVars
<1> QED
  BY <1>1, SameSame, Untouched DEF PumpMoves

\* The invariant holds before anything is sent.
LEMMA PromiseInit == Init => PromiseInv
<1> SUFFICES ASSUME Init, NEW f \in Feed PROVE Tape(f)
  BY DEF PromiseInv
<1>1. /\ Origin[f] \in Side /\ Receiver(f) \in Side
      /\ \A s \in Side : queue[s] = <<>> /\ wire[s] = <<>> /\ held[s] = <<>>
  BY Sides DEF Init, Receiver, Peer
<1>2. \A x : ~Has(<<>>, x)
  BY DEF Has
<1>3. NoData(<<>>, f) /\ \A last, total : Run(<<>>, f, last, total)
  BY HoldsNothing DEF NoData, Run
<1>4. /\ produced[f] = 0 /\ buffered[f] = 0 /\ written[f] = 0 /\ routed[f] = 0
      /\ pump[f] = "unsent" /\ senderOpen[f] /\ rx[f] = "none" /\ inbox[f] = <<>>
      /\ delivered[f] = <<>> /\ ~closed[f] /\ inbound = {}
  BY DEF Init
<1>5. PumpCounts(f)
  BY <1>4 DEF PumpCounts, InHand
<1>6. OneWay(f)
  BY <1>1, <1>3, HoldsNothing DEF OneWay
<1>7. QueueData(f) /\ WireData(f)
  <2>1. /\ \A x : ~Has(queue[Origin[f]], x) /\ ~Has(wire[Origin[f]], x)
        /\ \A kind : ~Holds(queue[Origin[f]], kind, f) /\ ~Holds(wire[Origin[f]], kind, f)
    BY <1>1, <1>2, HoldsNothing
  <2>2. Run(queue[Origin[f]], f, 0, 0) /\ Run(wire[Origin[f]], f, 0, 0)
    BY <1>1, <1>3
  <2>3. QueueData(f)
    BY <1>4, <2>1, <2>2 DEF QueueData
  <2> QED
    BY <1>4, <2>1, <2>2, <2>3 DEF WireData
<1>8. HeldData(f) /\ InboxData(f)
  BY <1>1, <1>2, <1>3, <1>4, HoldsNothing DEF HeldData, InboxData, EndRead, Ended
<1> QED
  BY <1>5, <1>6, <1>7, <1>8 DEF Tape

\* Every step of the system keeps it.
LEMMA PromiseStep == TypeOK /\ ScopeInv /\ PromiseInv /\ [Next]_vars => PromiseInv'
<1> SUFFICES ASSUME TypeOK, ScopeInv, PromiseInv, [Next]_vars, NEW f \in Feed PROVE Tape(f)'
  BY DEF PromiseInv
<1>1. \A g \in Feed : Tape(g)
  BY DEF PromiseInv
<1>2. ASSUME NEW g \in Feed, ProducerStep(g) \/ WriterStep(g) \/ ConsumerStep(g)
      PROVE  Tape(f)'
  <2>1. CASE g = f
    BY <1>1, <1>2, <2>1, ProduceKeeps, CloseSenderKeeps, PumpTakeKeeps, PumpSendKeeps,
       NextItemKeeps, DropFeedKeeps, OthersKeep
    DEF ProducerStep, WriterStep, ConsumerStep
  <2>2. CASE g # f
    BY <1>1, <1>2, <2>2, OthersKeep DEF ProducerStep, WriterStep, ConsumerStep
  <2> QED
    BY <2>1, <2>2
<1>3. ASSUME NEW s \in Side, SideStep(s) PROVE Tape(f)'
  <2>1. CASE HandFeedFrame(s)
    <3>1. Head(held[s]).feed \in Feed
      BY <2>1, HeadTypes DEF HandFeedFrame, TypeOK, ReadersOK
    <3> QED
      BY <1>1, <2>1, <3>1, HandFeedFrameKeeps
  <2> QED
    BY <1>1, <1>3, <2>1, WriteFrameKeeps, WriterStopsKeeps, RouteCancelKeeps, RouteUnknownKeeps,
       RouteKnownKeeps, HandMessageKeeps, ReceiveKeeps, RestKeeps DEF SideStep
<1> QED
  BY <1>1, <1>2, <1>3, DisconnectKeeps, RestKeeps DEF Next

-----------------------------------------------------------------------------
(* The steps the promise allows. *)

\* What the consumer is given is the value behind the last one, or the end behind them all.
LEMMA NextIsNext ==
  ASSUME TypeOK, NEW f \in Feed, Tape(f), NextItem(f)
  PROVE  Promise(f)!Deliver \/ Promise(f)!SeeClosed
<1> DEFINE x == Head(inbox[f])
<1>1. /\ inbox[f] # <<>> /\ rx[f] = "open" /\ x = inbox[f][1] /\ 1 \in 1..Len(inbox[f])
      /\ Len(inbox[f]) \in Nat /\ x \in Frame /\ produced[f] \in Nat /\ routed[f] \in Nat
      /\ delivered \in [Feed -> Seq(Nat)] /\ closed \in [Feed -> BOOLEAN]
      /\ UNCHANGED <<produced, senderOpen>>
  <2>1. inbox[f] \in Seq(Frame) /\ inbox[f] # <<>>
    BY Places DEF NextItem
  <2> QED
    BY <2>1, Places, TailPlaces DEF NextItem, producerVars, TypeOK, ConsumersOK
<1>2. /\ ~closed[f] /\ Data(x, f)
      /\ Num(x, produced[f]) = (Handed(f) - Len(inbox[f])) + 1
      /\ Len(inbox[f]) <= Handed(f)
      /\ delivered[f] # <<>> => delivered[f][Len(delivered[f])] = Handed(f) - Len(inbox[f])
  BY <1>1 DEF Tape, InboxData
<1> DEFINE n == Len(inbox[f])
<1>3. CASE x.kind = "end"
  <2>1. delivered'[f] = delivered[f] /\ closed'[f] = TRUE
    BY <1>1, <1>3 DEF NextItem
  <2>2. Ended(f)
    <3>1. inbox[f][1].kind = "end" /\ inbox[f][1].feed = f
      BY <1>1, <1>2, <1>3 DEF Data
    <3> QED
      BY <1>1, <3>1 DEF Ended, Holds
  <2>3. Handed(f) = produced[f] + 1 /\ ~senderOpen[f]
    BY <2>2 DEF Tape, HeldData, EndRead, AllSent, Handed
  <2>4. n = 1
    <3>1. n \in Nat /\ produced[f] + 1 = ((produced[f] + 1) - n) + 1
      BY <1>1, <1>2, <1>3, <2>3 DEF Num
    <3> HIDE DEF n
    <3> QED
      BY <1>1, <3>1
  <2>5. delivered[f] # <<>> => delivered[f][Len(delivered[f])] = produced[f]
    BY <1>1, <1>2, <2>3, <2>4
  <2>6. Promise(f)!SeeClosed
    BY <1>1, <1>2, <2>1, <2>3, <2>5 DEF Promise!SeeClosed, Promise!Latest
  <2> QED
    BY <2>6
<1>4. CASE x.kind # "end"
  <2>1. delivered'[f] = Append(delivered[f], x.item) /\ closed'[f] = closed[f]
    BY <1>1, <1>4 DEF NextItem
  <2>2. x.item = (Handed(f) - n) + 1 /\ Handed(f) \in Nat
    <3>1. Handed(f) \in Int
      BY <1>1 DEF Handed
    <3> QED
      BY <1>1, <1>2, <1>4, <3>1 DEF Num
  <2>3. x.item <= produced[f]
    <3>1. CASE Ended(f)
      <4>1. PICK i \in 1..n : inbox[f][i].kind = "end"
        BY <1>2, <3>1 DEF Ended, Holds
      <4>2. i # 1 /\ n \in Nat /\ n >= 2
        <5>1. i # 1 /\ n \in Nat /\ i \in 1..n
          BY <1>1, <1>4, <4>1
        <5> HIDE DEF n
        <5> QED
          BY <5>1
      <4>3. Handed(f) = produced[f] + 1
        BY <3>1 DEF Handed
      <4> HIDE DEF n
      <4> QED
        BY <1>1, <2>2, <4>2, <4>3
    <3>2. CASE ~Ended(f)
      <4>1. Handed(f) <= routed[f]
        BY <1>1, <3>2 DEF Handed
      <4>2. routed[f] <= produced[f]
        BY Places DEF Tape, PumpCounts
      <4>3. n \in Nat /\ n >= 1
        BY <1>1
      <4> HIDE DEF n
      <4> QED
        BY <1>1, <2>2, <4>1, <4>2, <4>3
    <3> QED
      BY <3>1, <3>2
  <2>4. x.item \in 1..produced[f]
    <3>1. n \in Nat /\ n >= 1 /\ n <= Handed(f)
      BY <1>1, <1>2
    <3> HIDE DEF n
    <3>2. x.item >= 1 /\ x.item \in Int
      BY <2>2, <3>1
    <3> QED
      BY <1>1, <2>3, <3>2
  <2>5. delivered[f] # <<>> => x.item = delivered[f][Len(delivered[f])] + 1
    BY <1>2, <2>2
  <2>6. Promise(f)!Deliver
    BY <1>1, <1>2, <2>1, <2>4, <2>5 DEF Promise!Deliver, Promise!Latest
  <2> QED
    BY <2>6
<1> QED
  BY <1>3, <1>4

\* Every step is one of the promise's steps, or none, for each feed.
LEMMA StepKeepsPromise ==
  TypeOK /\ PromiseInv /\ [Next]_vars =>
    \A f \in Feed : [Promise(f)!Next]_(Promise(f)!feedVars)
<1> SUFFICES ASSUME TypeOK, PromiseInv, [Next]_vars, NEW f \in Feed
             PROVE  [Promise(f)!Next]_(Promise(f)!feedVars)
  OBVIOUS
<1>1. /\ produced \in [Feed -> 0..MaxItems] /\ senderOpen \in [Feed -> BOOLEAN]
      /\ delivered \in [Feed -> Seq(Nat)] /\ closed \in [Feed -> BOOLEAN]
  BY DEF TypeOK, ProducersOK, ConsumersOK
<1>2. UNCHANGED <<produced[f], senderOpen[f], delivered[f], closed[f]>>
        => [Promise(f)!Next]_(Promise(f)!feedVars)
  BY DEF Promise!feedVars
<1>3. CASE Produce(f)
  <2>1. Promise(f)!Produce
    BY <1>1, <1>3 DEF Produce, consumerVars, Promise!Produce
  <2> QED
    BY <2>1 DEF Promise!Next
<1>4. CASE CloseSender(f)
  <2>1. Promise(f)!CloseSender
    BY <1>1, <1>4 DEF CloseSender, consumerVars, Promise!CloseSender
  <2> QED
    BY <2>1 DEF Promise!Next
<1>5. CASE NextItem(f)
  BY <1>5, NextIsNext DEF PromiseInv, Promise!Next
<1>6. ASSUME NEW g \in Feed, g # f, ProducerStep(g) \/ ConsumerStep(g)
      PROVE  UNCHANGED <<produced[f], senderOpen[f], delivered[f], closed[f]>>
  BY <1>1, <1>6
  DEF ProducerStep, ConsumerStep, Produce, CloseSender, NextItem, DropFeed, producerVars, consumerVars
<1>7. ASSUME NEW g \in Feed, WriterStep(g) \/ DropFeed(g)
      PROVE  UNCHANGED <<produced[f], senderOpen[f], delivered[f], closed[f]>>
  BY <1>1, <1>7
  DEF WriterStep, SendRef, Activate, Register, AbandonSend, PumpTake, PumpSend, PumpFail, DropFeed,
      producerVars, consumerVars
<1>8. ASSUME NEW s \in Side, SideStep(s)
      PROVE  UNCHANGED <<produced[f], senderOpen[f], delivered[f], closed[f]>>
  BY <1>8
  DEF SideStep, WriteFrame, WriterStops, RouteCancel, RouteUnknown, RouteKnown, HandMessage,
      HandFeedFrame, ReaderExits, Receive, producerVars, consumerVars
<1>9. CASE Disconnect \/ UNCHANGED vars
  BY <1>2, <1>9 DEF Disconnect, vars, producerVars, consumerVars
<1>10. ASSUME NEW g \in Feed, ProducerStep(g) \/ WriterStep(g) \/ ConsumerStep(g)
       PROVE  [Promise(f)!Next]_(Promise(f)!feedVars)
  <2>1. CASE g = f
    BY <1>2, <1>3, <1>4, <1>5, <1>7, <1>10, <2>1 DEF ProducerStep, ConsumerStep
  <2>2. CASE g # f
    BY <1>2, <1>6, <1>7, <1>10, <2>2 DEF ConsumerStep
  <2> QED
    BY <2>1, <2>2
<1> QED
  BY <1>2, <1>8, <1>9, <1>10 DEF Next

\* FeedTransport implements OrderedFeed, feed by feed, for every number of
\* feeds, every capacity and every place a disconnection may cut the pipe.
THEOREM PromiseIsKept == Spec => KeepsPromise
<1>1. Init => \A f \in Feed : Promise(f)!Init
  BY DEF Init, Promise!Init
<1>2. TypeOK /\ PromiseInv /\ [Next]_vars
        => [\A f \in Feed : [Promise(f)!Next]_(Promise(f)!feedVars)]_vars
  BY StepKeepsPromise
<1> QED
  BY <1>1, <1>2, PromiseInit, PromiseStep, ScopeInit, ScopeStep, TypeCorrect, PTL DEF Spec, KeepsPromise
=============================================================================
