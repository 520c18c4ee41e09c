-------------------------- MODULE MCFeedTransport --------------------------
(* FeedTransport on a small connection, in two scenarios.  In "stream" the *)
(* second feed is given up before it is sent, and the first has drops,     *)
(* aborts and a connection that is cut anywhere.  In "sharing" two feeds   *)
(* of one value each share a connection that lasts.                        *)
EXTENDS FeedTransport, TLC

CONSTANTS f1, f2

BothFromWorker == f1 :> "worker" @@ f2 :> "worker"

VARIABLE scenario

mcVars == <<vars, scenario>>

MCInit == Init /\ scenario \in {"stream", "sharing"}

\* Neither scenario keeps a step from being taken that fairness asks for.
Stream == pump'[f2] = "abandoned" /\ senderOpen'[f2]
Sharing == up' /\ \A f \in Feed : ~AbandonSend(f) /\ produced'[f] <= 1

MCNext ==
  /\ Next
  /\ UNCHANGED scenario
  /\ IF scenario = "stream" THEN Stream ELSE Sharing

MCSpec == MCInit /\ [][MCNext]_mcVars /\ Fairness
=============================================================================
