---------------------------- MODULE OrderedFeed ----------------------------
(***************************************************************************)
(* What one protocol feed promises its two ends, with the connection left  *)
(* out: "the receiving half of a bounded, ordered protocol feed"           *)
(* (frances-worker-protocol/src/feed.rs).  The producer numbers the values *)
(* it sends 1, 2, 3, ...; the consumer sees an unbroken run of them in     *)
(* that order, and sees the feed closed only behind the last one.          *)
(*                                                                         *)
(* The run may start late: the code loses the values that reach the peer   *)
(* before the peer has decoded the message that carries the feed.  The     *)
(* specification admits that, and admits no other loss.                    *)
(***************************************************************************)
EXTENDS Naturals, Sequences

CONSTANT MaxItems  \* bound: values one producer sends, a natural number

VARIABLES
  produced,     \* values accepted by FeedSender::send so far
  senderOpen,   \* some FeedSender clone is alive
  delivered,    \* values returned by Feed::next, oldest first
  closed        \* Feed::next has returned Closed

feedVars == <<produced, senderOpen, delivered, closed>>

Latest == delivered[Len(delivered)]

Init == /\ produced = 0
        /\ senderOpen = TRUE
        /\ delivered = <<>>
        /\ closed = FALSE

Produce == /\ senderOpen
           /\ produced < MaxItems
           /\ produced' = produced + 1
           /\ UNCHANGED <<senderOpen, delivered, closed>>

CloseSender == /\ senderOpen
               /\ senderOpen' = FALSE
               /\ UNCHANGED <<produced, delivered, closed>>

\* The first value seen may be any one sent; every later one is the successor.
Deliver == /\ ~closed
           /\ \E item \in 1..produced :
                /\ delivered # <<>> => item = Latest + 1
                /\ delivered' = Append(delivered, item)
           /\ UNCHANGED <<produced, senderOpen, closed>>

SeeClosed == /\ ~closed
             /\ ~senderOpen
             /\ delivered # <<>> => Latest = produced
             /\ closed' = TRUE
             /\ UNCHANGED <<produced, senderOpen, delivered>>

Next == Produce \/ CloseSender \/ Deliver \/ SeeClosed

Spec == Init /\ [][Next]_feedVars
=============================================================================
