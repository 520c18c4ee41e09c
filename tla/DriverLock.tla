----------------------------- MODULE DriverLock -----------------------------
(***************************************************************************)
(* The driver's task and the one lock of the session's database.           *)
(* Database::connect (frances-storage) takes a tokio mutex, which is       *)
(* fair: who releases it hands it to the first that waits, whether that    *)
(* future is polled or not.  The driver (frances-session:                  *)
(* runtime/driver.rs) is one task with two selects inside each other: run  *)
(* polls the turn and publishes what tools put out, model_call polls the   *)
(* request and stores its events.  While the body of a select branch       *)
(* awaits the lock, the future beside it is not polled.                    *)
(*                                                                         *)
(* The turn is one round of SessionDriver, seen as uses of the database.   *)
(* A use of the driver's own takes no time once it has the lock: that a    *)
(* statement suspends is not needed for what is shown here.  Without other *)
(* tasks the driver never waits for itself.                                *)
(***************************************************************************)
EXTENDS Naturals, Sequences, FiniteSets, SequencesExt

CONSTANTS
  Tasks,      \* other tasks with a use for the database: commands of the frontend
  MaxUses,    \* bound: uses of each
  MaxDeltas   \* bound: events of a request

\* turn: the turn's future, the request in it included; publish, event: the bodies
\* of the branches for an output and for an event of the request.
Futures == {"turn", "publish", "event"}

VARIABLES
  holder, waiters,  \* the mutex
  at,       \* where the turn stands, see Stage
  outer,    \* run's select: "select", or "publish" in the body
  inner,    \* model_call's select: "select", or "event" in the body
  outputs,  \* outputs not published
  deltas,   \* events not stored
  emitted,  \* history: events of the request
  inbox,    \* interrupts in the driver's channel
  cancelled,
  uses      \* history: uses each other task has begun

lockVars == <<holder, waiters>>
turnVars == <<at, emitted, cancelled>>
vars == <<lockVars, turnVars, outer, inner, outputs, deltas, inbox, uses>>

\* A turn's uses: of the prompt, of the history, of the answer, of the settled
\* message, of the results.
Uses  == {"record", "load", "save", "settle", "results"}
Stage == Uses \union {"idle", "stream", "tools", "over"}
Behind == [record |-> "load", load |-> "stream", save |-> "settle", settle |-> "tools",
           results |-> "over"]

Init ==
  /\ holder = "nobody" /\ waiters = <<>>
  /\ at = "idle" /\ emitted = 0 /\ cancelled = FALSE
  /\ outer = "select" /\ inner = "select"
  /\ outputs = 0 /\ deltas = 0 /\ inbox = 0
  /\ uses = [t \in Tasks |-> 0]
-----------------------------------------------------------------------------
(* The mutex. *)

Free == holder = "nobody"
Queued(f) == f = holder \/ f \in ToSet(waiters)
Enqueue(f) == waiters' = Append(waiters, f) /\ UNCHANGED holder
Release == IF waiters = <<>>
           THEN holder' = "nobody" /\ UNCHANGED waiters
           ELSE holder' = Head(waiters) /\ waiters' = Tail(waiters)

\* A driver's future comes to `connect`: it passes, or it waits its turn.
Connect(f, passed) ==
  /\ ~Queued(f)
  /\ \/ Free /\ passed /\ UNCHANGED lockVars
     \/ ~Free /\ ~passed /\ Enqueue(f)

Begin(t) ==
  /\ ~Queued(t) /\ uses[t] < MaxUses
  /\ uses' = [uses EXCEPT ![t] = @ + 1]
  /\ IF Free THEN holder' = t /\ UNCHANGED waiters ELSE Enqueue(t)
  /\ UNCHANGED <<turnVars, outer, inner, outputs, deltas, inbox>>

End(t) ==
  /\ holder = t /\ Release
  /\ UNCHANGED <<turnVars, outer, inner, outputs, deltas, inbox, uses>>
-----------------------------------------------------------------------------
(* The loop of run.  Its select is biased: inputs, outputs, the turn. *)

Interrupt ==
  /\ at \notin {"idle", "over"} /\ inbox = 0 /\ ~cancelled
  /\ inbox' = 1
  /\ UNCHANGED <<lockVars, turnVars, outer, inner, outputs, deltas, uses>>

Receive ==
  /\ outer = "select" /\ inbox = 1
  /\ inbox' = 0 /\ cancelled' = TRUE
  /\ UNCHANGED <<lockVars, at, emitted, outer, inner, outputs, deltas, uses>>

Publish ==
  /\ outer = "select" /\ inbox = 0 /\ outputs > 0
  /\ outputs' = outputs - 1
  /\ \E passed \in BOOLEAN :
       Connect("publish", passed) /\ outer' = IF passed THEN "select" ELSE "publish"
  /\ UNCHANGED <<turnVars, inner, deltas, inbox, uses>>

Published ==
  /\ outer = "publish" /\ holder = "publish" /\ Release
  /\ outer' = "select"
  /\ UNCHANGED <<turnVars, inner, outputs, deltas, inbox, uses>>

TurnPolled == outer = "select" /\ inbox = 0 /\ outputs = 0
-----------------------------------------------------------------------------
(* model_call's loop: events before the request. *)

InRequest == at \in {"load", "stream", "save"}

StoreEvent ==
  /\ TurnPolled /\ inner = "select" /\ InRequest /\ deltas > 0
  /\ deltas' = deltas - 1
  /\ \E passed \in BOOLEAN :
       Connect("event", passed) /\ inner' = IF passed THEN "select" ELSE "event"
  /\ UNCHANGED <<turnVars, outer, outputs, inbox, uses>>

EventStored ==
  /\ TurnPolled /\ inner = "event" /\ holder = "event" /\ Release
  /\ inner' = "select"
  /\ UNCHANGED <<turnVars, outer, outputs, deltas, inbox, uses>>

Polled == TurnPolled /\ inner = "select" /\ (InRequest => deltas = 0)

\* The turn comes to a use of the database in the poll it is in.
Use(stage) ==
  \E passed \in BOOLEAN :
    Connect("turn", passed) /\ at' = IF passed THEN Behind[stage] ELSE stage

\* turn: the prompt is put out, and then recorded.
StartTurn ==
  /\ at = "idle"
  /\ outputs' = outputs + 1
  /\ Use("record")
  /\ UNCHANGED <<emitted, cancelled, outer, inner, deltas, inbox, uses>>

GoOn ==
  /\ Polled /\ at \in Uses \ {"results"} /\ ~Queued("turn")
  /\ Use(at)
  /\ UNCHANGED <<emitted, cancelled, outer, inner, outputs, deltas, inbox, uses>>

\* The lock has been handed over.
Resume ==
  /\ Polled /\ at \in Uses /\ holder = "turn" /\ Release
  /\ at' = Behind[at]
  /\ UNCHANGED <<emitted, cancelled, outer, inner, outputs, deltas, inbox, uses>>

Delta ==
  /\ Polled /\ at = "stream" /\ emitted < MaxDeltas
  /\ emitted' = emitted + 1 /\ deltas' = deltas + 1
  /\ UNCHANGED <<lockVars, at, cancelled, outer, inner, outputs, inbox, uses>>

\* The last events and the flush of the history are one poll; a cancelled
\* request ends without it.
StreamEnds ==
  /\ Polled /\ at = "stream"
  /\ \/ cancelled /\ at' = "settle" /\ UNCHANGED <<lockVars, deltas>>
     \/ ~cancelled /\ deltas' = deltas + 1 /\ Use("save")
  /\ UNCHANGED <<emitted, cancelled, outer, inner, outputs, inbox, uses>>

\* A tool puts something out, and its result is recorded.
RunTools ==
  /\ Polled /\ at = "tools"
  /\ outputs' = outputs + 1
  /\ Use("results")
  /\ UNCHANGED <<emitted, cancelled, outer, inner, deltas, inbox, uses>>
-----------------------------------------------------------------------------
Driver == \/ Receive \/ Publish \/ Published \/ StoreEvent \/ EventStored
          \/ StartTurn \/ GoOn \/ Resume \/ Delta \/ StreamEnds \/ RunTools
Next == Driver \/ Interrupt \/ \E t \in Tasks : Begin(t) \/ End(t)

Spec == Init /\ [][Next]_vars

\* The driver's task is scheduled, and who has the lock gives it back.
FairSpec == Spec /\ WF_vars(Driver) /\ \A t \in Tasks : WF_vars(End(t))
-----------------------------------------------------------------------------
\* session-runtime.md: "Input received during a turn is queued.  Interrupt cancels
\* the model or pending permission".  An interrupt sent is received.
InterruptIsSeen == inbox = 1 ~> inbox = 0
=============================================================================
