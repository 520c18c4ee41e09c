------------------------- MODULE WorkerShellProofs -------------------------
(***************************************************************************)
(* WorkerShell proved for every bound: a run that the host reports as done *)
(* did exit, and the host has read all of its output (DoneIsReal).         *)
(*                                                                         *)
(* The invariant follows the output on its way.  While the host watches a  *)
(* run, the pieces it wrote are, in order and each once: seen, in the      *)
(* host's inbox, on the line between other frames, in the feed's local     *)
(* channel, in the hand of send_output, among the events, and unread in    *)
(* the pipe; the exit marker, when it is under way, is behind the last     *)
(* (PipeInv).  Where no run is watched nothing is under way at all, and a  *)
(* command that was called for and has not begun finds it so (Rest): the   *)
(* call of the last run is in one place on its way to the actor, and the   *)
(* actor has nothing in flight (BeginInv, CallInv, FlightInv).             *)
(***************************************************************************)
EXTENDS WorkerShell, SequenceTheorems, FiniteSetTheorems, WellFoundedInduction, TLAPS
-----------------------------------------------------------------------------
(* Sets of numbers and sequences.                                          *)

\* A set of numbers that is not empty has a least one.
LEMMA LeastOf ==
  ASSUME NEW S, S \subseteq Nat, S # {}
  PROVE  \E k \in S : \A j \in S : k <= j
<1> DEFINE Less == {ss \in Nat \X Nat : ss[1] < ss[2]}
<1>0. IsWellFoundedOn(Less, Nat)
  BY NatLessThanWellFounded DEF OpToRel
<1> HIDE DEF Less
<1>1. PICK x \in S : \A y \in S : ~(<<y, x>> \in Less)
  BY <1>0, WFMin, Zenon
<1>2. ASSUME NEW j \in S PROVE x <= j
  <2>1. x \in Nat /\ j \in Nat
    OBVIOUS
  <2>2. ~(j < x)
    BY <1>1, <2>1 DEF Less
  <2> QED
    BY <2>1, <2>2
<1> QED
  BY <1>1, <1>2

\* The element that is appended is the last, the others keep their places.
LEMMA Appended ==
  ASSUME NEW S, NEW q \in Seq(S), NEW e \in S
  PROVE  /\ Append(q, e) \in Seq(S) /\ DOMAIN Append(q, e) = DOMAIN q \union {Len(q) + 1}
         /\ Len(Append(q, e)) = Len(q) + 1
         /\ Len(q) + 1 \notin DOMAIN q /\ Len(q) \in Nat /\ DOMAIN q = 1..Len(q)
         /\ \A i \in DOMAIN q : Append(q, e)[i] = q[i]
         /\ Append(q, e)[Len(q) + 1] = e
<1>1. /\ Append(q, e) \in Seq(S) /\ Len(Append(q, e)) = Len(q) + 1
      /\ \A i \in 1..Len(q) : Append(q, e)[i] = q[i]
      /\ Append(q, e)[Len(q) + 1] = e
  BY AppendProperties
<1>2. DOMAIN q = 1..Len(q) /\ Len(q) \in Nat /\ DOMAIN Append(q, e) = 1..(Len(q) + 1)
  BY <1>1, LenProperties
<1>3. 1..(Len(q) + 1) = 1..Len(q) \union {Len(q) + 1}
  BY <1>2
<1> QED
  BY <1>1, <1>2, <1>3

\* The elements of a tail were one place further back.
LEMMA Tailed ==
  ASSUME NEW S, NEW q \in Seq(S), q # <<>>
  PROVE  /\ Tail(q) \in Seq(S) /\ Head(q) = q[1] /\ q[1] \in S /\ 1 \in DOMAIN q
         /\ Len(Tail(q)) = Len(q) - 1
         /\ \A i \in DOMAIN Tail(q) : i \in Nat /\ i + 1 \in DOMAIN q /\ i + 1 # 1 /\ Tail(q)[i] = q[i + 1]
<1>1. /\ Tail(q) \in Seq(S) /\ Head(q) \in S /\ Len(Tail(q)) = Len(q) - 1
      /\ \A i \in 1..Len(Tail(q)) : Tail(q)[i] = q[i + 1]
  BY HeadTailProperties
<1>2. DOMAIN q = 1..Len(q) /\ Len(q) \in Nat /\ DOMAIN Tail(q) = 1..Len(Tail(q))
  BY <1>1, LenProperties
<1>3. Len(q) # 0 /\ Head(q) = q[1]
  BY EmptySeq
<1> QED
  BY <1>1, <1>2, <1>3

\* The places of a concatenation.
LEMMA Joined ==
  ASSUME NEW S, NEW q \in Seq(S), NEW r \in Seq(S)
  PROVE  /\ q \o r \in Seq(S) /\ Len(q \o r) = Len(q) + Len(r)
         /\ Len(q) \in Nat /\ Len(r) \in Nat /\ DOMAIN q = 1..Len(q) /\ DOMAIN r = 1..Len(r)
         /\ DOMAIN (q \o r) = 1..(Len(q) + Len(r))
         /\ \A i \in DOMAIN q : i \in DOMAIN (q \o r) /\ (q \o r)[i] = q[i]
         /\ \A i \in DOMAIN r : Len(q) + i \in DOMAIN (q \o r) /\ (q \o r)[Len(q) + i] = r[i]
         /\ \A i \in DOMAIN (q \o r) : i \in DOMAIN q \/ (i - Len(q) \in DOMAIN r /\ i > Len(q)
                                                         /\ (q \o r)[i] = r[i - Len(q)])
<1>1. /\ q \o r \in Seq(S) /\ Len(q \o r) = Len(q) + Len(r)
      /\ \A i \in 1..(Len(q) + Len(r)) : (q \o r)[i] = IF i <= Len(q) THEN q[i] ELSE r[i - Len(q)]
  BY ConcatProperties
<1>2. /\ Len(q) \in Nat /\ Len(r) \in Nat /\ DOMAIN q = 1..Len(q) /\ DOMAIN r = 1..Len(r)
      /\ DOMAIN (q \o r) = 1..(Len(q) + Len(r))
  BY <1>1, LenProperties
<1>3. \A i \in DOMAIN r : Len(q) + i \in DOMAIN (q \o r) /\ (q \o r)[Len(q) + i] = r[i]
  <2> SUFFICES ASSUME NEW i \in 1..Len(r)
               PROVE  Len(q) + i \in 1..(Len(q) + Len(r)) /\ (q \o r)[Len(q) + i] = r[i]
    BY <1>2
  <2>1. Len(q) + i \in 1..(Len(q) + Len(r)) /\ ~(Len(q) + i <= Len(q)) /\ (Len(q) + i) - Len(q) = i
    BY <1>2
  <2> QED
    BY <1>1, <2>1
<1> QED
  BY <1>1, <1>2, <1>3

\* One more element is a concatenation.
LEMMA Single ==
  ASSUME NEW S, NEW e \in S
  PROVE  <<e>> \in Seq(S) /\ Len(<<e>>) = 1 /\ DOMAIN <<e>> = {1} /\ <<e>>[1] = e
OBVIOUS

\* The empty sequence has no places.
LEMMA NoElements == DOMAIN <<>> = {}
OBVIOUS
-----------------------------------------------------------------------------
(* The invariant.                                                          *)

AnyItem == [run : Nat, n : Nat]
AnyFrame == [kind : {"item"}, item : AnyItem]
              \union [kind : {"response"}, call : Nat, result : Result]
              \union [kind : {"unit"}]
Upward == [kind : {"request", "cancel"}, call : Nat]

ShellTypes ==
  /\ run \in 0..MaxRuns /\ calls \in Seq(Kind)
  /\ seen \in [Run -> Seq(Nat)] /\ verdict \in [Run -> {"open", "done", "killed"}]
  /\ feed \in {"open", "dropped", "cancelled"}
  /\ inbox \in Seq(AnyItem) /\ local \in Seq(AnyItem)
  /\ hand \in Seq(AnyItem) /\ events \in Seq(AnyItem)
  /\ up \in Seq(Upward) /\ line \in Seq(AnyFrame)
  /\ task \in [Call -> TaskState] /\ commands \in Seq(Nat)
  /\ result \in [Call -> Result] /\ outcome \in Result
  /\ flight \in Nat /\ emitted \in [Run -> Nat] /\ unread \in Nat

\* A run is open for the host as long as it watches it, and nothing is done behind a
\* feed that was dropped.
HostInv ==
  /\ op \in {"running", "waiting", "draining"} => view
  /\ feed = "open" => /\ view <=> run # 0 /\ verdict[run] = "open"
                      /\ \A r \in Run : verdict[r] # "killed"
  /\ feed # "open" => ~view /\ (run # 0 => verdict[run] = "killed")
  /\ \A r \in Run : r > run => verdict[r] = "open" /\ seen[r] = <<>> /\ emitted[r] = 0

\* A call has yet to reach the actor: it is in one place on the way.
AskedIn(u, c) == \E i \in DOMAIN u : u[i] = Request(c)
Asked(c) == AskedIn(up, c)
Asks(c) == task[c] \in {"spawned", "lastAsk"}
Commanded(c) == \E i \in DOMAIN commands : commands[i] = c
Pending(c) == Asked(c) \/ Asks(c) \/ Commanded(c)

\* Each call is requested once.
OnceIn(u, n) ==
  /\ \A i \in DOMAIN u : u[i].call \in 0..n /\ (u[i].kind = "request" => u[i].call # 0)
  /\ \A i, j \in DOMAIN u : u[i].kind = "request" /\ u[i] = u[j] => i = j

CallInv ==
  /\ run = Made("run") /\ Newest <= MaxCalls
  /\ OnceIn(up, Newest)
  /\ \A i, j \in DOMAIN commands : commands[i] = commands[j] => i = j
  /\ \A c \in Nat : Commanded(c) => c \in 1..Newest /\ ~Asks(c) /\ ~Asked(c)
  /\ \A c \in Call : Asked(c) => ~Asks(c)
  /\ \A c \in Call : task[c] # "none" => c <= Newest

\* No output is under way, and none will come before a command starts.
NoItems == \A i \in DOMAIN line : line[i].kind # "item"
Rest ==
  /\ flight = 0 /\ proc # "alive" /\ unread = 0
  /\ inbox = <<>> /\ local = <<>> /\ hand = <<>> /\ events = <<>> /\ NoItems

\* A run that was called for and has not begun is the last.
Awaited(c) == c <= Newest /\ calls[c] = "run" /\ Pending(c)
BeginInv ==
  \A c \in Call : Awaited(c) =>
    /\ run # 0 /\ verdict[run] # "done" /\ Rest /\ seen[run] = <<>> /\ emitted[run] = 0
    /\ \A d \in 1..Newest : calls[d] = "run" => d <= c

FlightInv ==
  /\ flight \in {0, run}
  /\ actor = "waiting" => flight # 0
  /\ actor = "reaping" => flight = 0
  /\ proc = "alive" => flight # 0
  /\ flight # 0 => unread <= emitted[flight]

\* The way of the output.  Of f pieces the first are seen, the next are in the inbox, and
\* so on back to the events; the exit marker follows the last.  Up to c they have left
\* the worker or are on the line, where other frames are between them.
NthOf(k, f) == IF k <= f THEN k ELSE 0
PlaceOf(item, f) == IF item.n = 0 THEN f + 1 ELSE item.n

Carries(q, k, f) == \A i \in DOMAIN q : q[i].n = NthOf(k + i, f)

LineCarries(q, b, c, f) ==
  /\ \A i, j \in DOMAIN q : i < j /\ q[i].kind = "item" /\ q[j].kind = "item" =>
       PlaceOf(q[i].item, f) < PlaceOf(q[j].item, f)
  /\ \A i \in DOMAIN q : q[i].kind = "item" =>
       b < PlaceOf(q[i].item, f) /\ PlaceOf(q[i].item, f) <= c /\ q[i].item.n <= f
  /\ \A k \in Nat : b < k /\ k <= c =>
       \E i \in DOMAIN q : q[i].kind = "item" /\ PlaceOf(q[i].item, f) = k

Taken == Len(seen[run])
Arrived == Taken + Len(inbox)
Shipped(c) == c + Len(local) + Len(hand) + Len(events)

Piped(c, f) ==
  /\ \A i \in DOMAIN seen[run] : seen[run][i] = i
  /\ Taken <= f
  /\ Carries(inbox, Taken, f)
  /\ Arrived <= c /\ LineCarries(line, Arrived, c, f)
  /\ Carries(local, c, f) /\ Carries(hand, c + Len(local), f)
  /\ Carries(events, c + Len(local) + Len(hand), f)
  /\ Shipped(c) \in {f, f + 1}
  /\ Shipped(c) = f /\ sink => emitted[run] = f + unread
  /\ Shipped(c) = f + 1 => emitted[run] = f /\ unread = 0 /\ flight = 0 /\ proc # "alive"

InPipe == run # 0 /\ verdict[run] = "open"
PipeInv == feed = "open" => IF InPipe THEN \E c, f \in Nat : Piped(c, f) ELSE Rest

ShellInv == ShellTypes /\ HostInv /\ CallInv /\ BeginInv /\ FlightInv /\ PipeInv /\ DoneIsReal

\* A shell begins with nothing called and nothing written.
LEMMA ShellStarts == Init => ShellInv
<1> SUFFICES ASSUME Init PROVE ShellInv
  OBVIOUS
<1>1. \A S : <<>> \in Seq(S) /\ Len(<<>>) = 0
  BY EmptySeq
<1>2. ShellTypes
  BY <1>1, ShellAssumption DEF Init, ShellTypes, ShellAssumption, TaskState, Result
<1>3. HostInv
  BY DEF Init, HostInv
<1>4. run = Made("run")
  <2>1. {c \in 1..Newest : calls[c] = "run"} = {}
    BY <1>1 DEF Init, Newest
  <2> QED
    BY <2>1, FS_EmptySet DEF Made, Init
<1>5. ASSUME NEW c PROVE ~Asked(c) /\ (c \in Call => ~Asks(c)) /\ ~Commanded(c)
  BY NoElements DEF Init, Asked, AskedIn, Asks, Commanded
<1>6. CallInv
  BY <1>1, <1>4, <1>5, NoElements, ShellAssumption DEF Init, CallInv, Newest, OnceIn, ShellAssumption
<1>7. BeginInv
  BY <1>5 DEF BeginInv, Awaited, Pending
<1>8. FlightInv /\ DoneIsReal
  BY DEF Init, FlightInv, DoneIsReal
<1>9. PipeInv
  BY NoElements DEF Init, PipeInv, InPipe, Rest, NoItems
<1> QED
  BY <1>2, <1>3, <1>6, <1>7, <1>8, <1>9 DEF ShellInv
-----------------------------------------------------------------------------
(* The types.                                                              *)

\* A call is a request behind the cancels that go before it.
LEMMA MakeTypes ==
  ASSUME ShellTypes, NEW kind \in Kind, NEW before \in Seq(Upward), Make(kind, before)
  PROVE  /\ calls' \in Seq(Kind) /\ up' \in Seq(Upward)
         /\ Newest \in Nat /\ Request(Newest + 1) \in Upward
<1>1. Newest \in Nat
  BY LenProperties DEF ShellTypes, Newest
<1>2. Request(Newest + 1) \in Upward
  BY <1>1 DEF Request, Upward
<1>3. Append(before, Request(Newest + 1)) \in Seq(Upward)
  BY <1>2, AppendProperties
<1> QED
  BY <1>1, <1>2, <1>3, ConcatProperties, AppendProperties DEF Make, ShellTypes

\* The cancel of a call that is dropped is a frame for the worker.
LEMMA DroppedTypes ==
  ASSUME ShellTypes
  PROVE  Dropped \in Seq(Upward) /\ Dropped \in {<<>>, <<Cancel(Newest)>>} /\ Cancel(Newest) \in Upward
<1>1. Newest \in Nat
  BY LenProperties DEF ShellTypes, Newest
<1>2. Cancel(Newest) \in Upward
  BY <1>1 DEF Cancel, Upward
<1> QED
  BY <1>2, Single, EmptySeq DEF Dropped

\* Starting calls.
LEMMA StartTypes == ASSUME ShellTypes, HostStarts \/ StartWait \/ GiveUp PROVE ShellTypes'
<1>1. <<>> \in Seq(Upward)
  BY EmptySeq
<1>2. CASE StartRun
  <2>1. calls' \in Seq(Kind) /\ up' \in Seq(Upward)
    BY <1>1, <1>2, MakeTypes DEF StartRun, Kind
  <2>2. run' \in 0..MaxRuns
    <3>1. MaxRuns \in Nat
      BY ShellAssumption DEF ShellAssumption
    <3> QED
      BY <1>2, <3>1 DEF StartRun, ShellTypes
  <2> QED
    BY <1>2, <2>1, <2>2 DEF StartRun, ShellTypes, feedVars, taskVars, actorVars, shellVars
<1>3. CASE StartWait
  <2>1. calls' \in Seq(Kind) /\ up' \in Seq(Upward)
    BY <1>1, <1>3, MakeTypes DEF StartWait, Kind
  <2> QED
    BY <1>3, <2>1 DEF StartWait, ShellTypes, feedVars, taskVars, actorVars, shellVars
<1>4. CASE StartOther
  <2>1. calls' \in Seq(Kind) /\ up' \in Seq(Upward)
    BY <1>1, <1>4, MakeTypes DEF StartOther, Kind
  <2> QED
    BY <1>4, <2>1 DEF StartOther, ShellTypes, feedVars, taskVars, actorVars, shellVars
<1>5. CASE Kill
  <2>1. calls' \in Seq(Kind) /\ up' \in Seq(Upward)
    BY <1>5, DroppedTypes, MakeTypes DEF Kill, Kind
  <2> QED
    BY <1>5, <2>1 DEF Kill, ShellTypes, feedVars, taskVars, actorVars, shellVars
<1> QED
  BY <1>2, <1>3, <1>4, <1>5 DEF HostStarts, StopShell, Interrupt, GiveUp

\* The numbers of some items.
LEMMA PieceTypes ==
  ASSUME NEW items \in Seq(AnyItem)
  PROVE  /\ Pieces(items) \in Seq(Nat) /\ Len(Pieces(items)) = Len(items)
         /\ DOMAIN Pieces(items) = DOMAIN items
         /\ \A i \in DOMAIN items : Pieces(items)[i] = items[i].n
<1>1. Len(items) \in Nat /\ DOMAIN items = 1..Len(items) /\ \A i \in 1..Len(items) : items[i].n \in Nat
  <2>1. \A i \in 1..Len(items) : items[i] \in AnyItem
    BY ElementOfSeq
  <2> QED
    BY <2>1, LenProperties DEF AnyItem
<1>2. Pieces(items) \in Seq(Nat)
  BY <1>1, IsASeq DEF Pieces
<1>3. DOMAIN Pieces(items) = 1..Len(items) /\ \A i \in 1..Len(items) : Pieces(items)[i] = items[i].n
  BY DEF Pieces
<1>4. Len(Pieces(items)) \in Nat /\ DOMAIN Pieces(items) = 1..Len(Pieces(items))
  BY <1>2, LenProperties
<1> QED
  BY <1>1, <1>2, <1>3, <1>4

\* The output among some items, the last of them an exit marker if the run is done.
Output(items, done) == IF done THEN Front(items) ELSE items

\* Reading items.
LEMMA CollectTypes ==
  ASSUME ShellTypes, NEW items \in Seq(AnyItem), NEW done \in BOOLEAN, done => items # <<>>,
         Collect(items, done)
  PROVE  /\ seen' \in [Run -> Seq(Nat)] /\ verdict' \in [Run -> {"open", "done", "killed"}]
         /\ Output(items, done) \in Seq(AnyItem)
         /\ seen' = [seen EXCEPT ![run] = @ \o Pieces(Output(items, done))]
         /\ \A i \in DOMAIN Output(items, done) : Output(items, done)[i] = items[i] /\ i \in DOMAIN items
         /\ Len(Output(items, done)) = IF done THEN Len(items) - 1 ELSE Len(items)
<1> DEFINE s == Output(items, done)
<1>1. Len(items) \in Nat /\ (done => Len(items) # 0) /\ DOMAIN items = 1..Len(items)
  BY EmptySeq, LenProperties
<1>2. /\ s \in Seq(AnyItem) /\ \A i \in DOMAIN s : s[i] = items[i] /\ i \in DOMAIN items
      /\ Len(s) = IF done THEN Len(items) - 1 ELSE Len(items)
  <2>1. CASE done
    <3>1. \A i \in 1..(Len(items) - 1) : items[i] \in AnyItem
      BY <1>1, ElementOfSeq
    <3>2. /\ Front(items) \in Seq(AnyItem) /\ Len(Front(items)) = Len(items) - 1
          /\ \A i \in 1..(Len(items) - 1) : Front(items)[i] = items[i]
      BY <1>1, <2>1, <3>1, SubSeqProperties DEF Front
    <3>3. DOMAIN Front(items) = 1..(Len(items) - 1)
      BY <3>2, LenProperties
    <3>4. s = Front(items)
      BY <2>1 DEF Output
    <3>5. 1..(Len(items) - 1) \subseteq DOMAIN items
      BY <1>1
    <3> HIDE DEF s
    <3> QED
      BY <2>1, <3>2, <3>3, <3>4, <3>5
  <2>2. CASE ~done
    BY <1>1, <2>2 DEF Output
  <2> QED
    BY <2>1, <2>2
<1>3. seen' = [seen EXCEPT ![run] = @ \o Pieces(s)]
  BY DEF Collect, Output
<1> HIDE DEF s
<1>4. seen' \in [Run -> Seq(Nat)]
  <2>1. \A r \in Run : seen[r] \o Pieces(s) \in Seq(Nat)
    BY <1>2, PieceTypes, ConcatProperties DEF ShellTypes
  <2> QED
    BY <1>3, <2>1 DEF ShellTypes
<1>5. verdict' \in [Run -> {"open", "done", "killed"}]
  BY DEF Collect, ShellTypes
<1> QED
  BY <1>2, <1>3, <1>4, <1>5 DEF s

\* The first marker of the inbox, at a deadline.
LEMMA FirstEnd ==
  ASSUME ShellTypes
  PROVE  LET ends == {i \in 1..Len(inbox) : inbox[i].n = 0}
             last == IF ends # {} THEN CHOOSE i \in ends : \A j \in ends : i <= j ELSE Len(inbox)
         IN  /\ last \in 0..Len(inbox) /\ Len(inbox) \in Nat /\ DOMAIN inbox = 1..Len(inbox)
             /\ ends # {} => last \in ends /\ \A j \in ends : last <= j
             /\ SubSeq(inbox, 1, last) \in Seq(AnyItem) /\ Len(SubSeq(inbox, 1, last)) = last
             /\ DOMAIN SubSeq(inbox, 1, last) = 1..last
             /\ \A i \in 1..last : SubSeq(inbox, 1, last)[i] = inbox[i]
             /\ SubSeq(inbox, last + 1, Len(inbox)) \in Seq(AnyItem)
             /\ Len(SubSeq(inbox, last + 1, Len(inbox))) = Len(inbox) - last
             /\ DOMAIN SubSeq(inbox, last + 1, Len(inbox)) = 1..(Len(inbox) - last)
             /\ \A i \in 1..(Len(inbox) - last) : SubSeq(inbox, last + 1, Len(inbox))[i] = inbox[last + i]
<1> DEFINE ends == {i \in 1..Len(inbox) : inbox[i].n = 0}
           last == IF ends # {} THEN CHOOSE i \in ends : \A j \in ends : i <= j ELSE Len(inbox)
           front == SubSeq(inbox, 1, last)
           back == SubSeq(inbox, last + 1, Len(inbox))
<1>1. Len(inbox) \in Nat /\ DOMAIN inbox = 1..Len(inbox) /\ \A i \in 1..Len(inbox) : inbox[i] \in AnyItem
  BY LenProperties, ElementOfSeq DEF ShellTypes
<1>2. ends # {} => last \in ends /\ \A j \in ends : last <= j
  <2>1. ends \subseteq Nat
    BY <1>1
  <2> HIDE DEF ends
  <2>2. ends # {} => \E i \in ends : \A j \in ends : i <= j
    BY <2>1, LeastOf
  <2> QED
    BY <2>2
<1>3. last \in 0..Len(inbox)
  <2>1. ends = {} => last = Len(inbox)
    OBVIOUS
  <2>2. ends \subseteq 0..Len(inbox)
    BY <1>1
  <2> QED
    BY <1>1, <1>2, <2>1, <2>2
<1> HIDE DEF ends, last
<1>4. /\ front \in Seq(AnyItem) /\ Len(front) = last /\ \A i \in 1..last : front[i] = inbox[i]
  BY <1>1, <1>3, SubSeqProperties
<1>5. /\ back \in Seq(AnyItem) /\ Len(back) = Len(inbox) - last
      /\ \A i \in 1..(Len(inbox) - last) : back[i] = inbox[last + i]
  <2>1. \A i \in (last + 1)..Len(inbox) : inbox[i] \in AnyItem
    BY <1>1, <1>3
  <2>2. /\ back \in Seq(AnyItem)
        /\ Len(back) = IF last + 1 <= Len(inbox) THEN Len(inbox) - (last + 1) + 1 ELSE 0
        /\ \A i \in 1..(Len(inbox) - (last + 1) + 1) : back[i] = inbox[(last + 1) + i - 1]
    BY <1>1, <1>3, <2>1, SubSeqProperties
  <2>3. /\ Len(inbox) - (last + 1) + 1 = Len(inbox) - last
        /\ ~(last + 1 <= Len(inbox)) => Len(inbox) - last = 0
    <3>1. last \in Nat /\ Len(inbox) \in Nat /\ last <= Len(inbox)
      BY <1>1, <1>3
    <3>2. \A m, n \in Nat : m <= n => (n - (m + 1) + 1 = n - m) /\ (~(m + 1 <= n) => n - m = 0)
      OBVIOUS
    <3> QED
      BY <3>1, <3>2
  <2>4. \A i \in 1..(Len(inbox) - last) : (last + 1) + i - 1 = last + i
    BY <1>1, <1>3
  <2> HIDE DEF back
  <2> QED
    BY <2>2, <2>3, <2>4
<1>6. DOMAIN front = 1..last /\ DOMAIN back = 1..(Len(inbox) - last)
  BY <1>4, <1>5, LenProperties
<1> QED
  BY <1>1, <1>2, <1>3, <1>4, <1>5, <1>6 DEF ends, last

\* The host's other steps.
LEMMA HostTypes ==
  ASSUME ShellTypes, Stopped \/ OtherAnswered \/ TakeItem \/ SeeQuiet \/ SeeExit \/ Deadline
  PROVE  ShellTypes'
<1>1. CASE Stopped
  BY <1>1, EmptySeq DEF Stopped, ShellTypes, lineVars, taskVars, actorVars, shellVars
<1>2. CASE OtherAnswered \/ SeeQuiet \/ SeeExit
  BY <1>2 DEF OtherAnswered, SeeQuiet, SeeExit, ShellTypes, feedVars, lineVars, taskVars, actorVars, shellVars
<1>3. up \o Dropped \in Seq(Upward)
  BY DroppedTypes, ConcatProperties DEF ShellTypes
<1>4. CASE TakeItem
  <2>1. Head(inbox) \in AnyItem /\ inbox' \in Seq(AnyItem)
    BY <1>4, HeadTailProperties DEF TakeItem, ShellTypes
  <2>2. <<Head(inbox)>> \in Seq(AnyItem) /\ <<Head(inbox)>> # <<>>
    BY <2>1, Single, NoElements
  <2>3. seen' \in [Run -> Seq(Nat)] /\ verdict' \in [Run -> {"open", "done", "killed"}]
    BY <1>4, <2>2, CollectTypes DEF TakeItem
  <2>4. up' \in Seq(Upward)
    BY <1>3, <1>4 DEF TakeItem, ShellTypes
  <2> QED
    BY <1>4, <2>1, <2>3, <2>4 DEF TakeItem, ShellTypes, taskVars, actorVars, shellVars
<1>5. CASE Deadline
  <2> DEFINE ends == {i \in 1..Len(inbox) : inbox[i].n = 0}
             last == IF ends # {} THEN CHOOSE i \in ends : \A j \in ends : i <= j ELSE Len(inbox)
  <2>1. /\ Collect(SubSeq(inbox, 1, last), ends # {})
        /\ inbox' = SubSeq(inbox, last + 1, Len(inbox))
    BY <1>5 DEF Deadline
  <2>2. /\ SubSeq(inbox, 1, last) \in Seq(AnyItem) /\ DOMAIN SubSeq(inbox, 1, last) = 1..last
        /\ inbox' \in Seq(AnyItem) /\ (ends # {} => last \in 1..last)
    <3>1. /\ SubSeq(inbox, 1, last) \in Seq(AnyItem) /\ DOMAIN SubSeq(inbox, 1, last) = 1..last
          /\ SubSeq(inbox, last + 1, Len(inbox)) \in Seq(AnyItem)
          /\ last \in 0..Len(inbox) /\ Len(inbox) \in Nat /\ (ends # {} => last \in ends)
      BY FirstEnd
    <3> HIDE DEF last
    <3>2. ends # {} => last \in 1..last
      BY <3>1
    <3> QED
      BY <2>1, <3>1, <3>2
  <2> HIDE DEF last
  <2>3. ends # {} => SubSeq(inbox, 1, last) # <<>>
    BY <2>2, NoElements
  <2>4. seen' \in [Run -> Seq(Nat)] /\ verdict' \in [Run -> {"open", "done", "killed"}]
    BY <2>1, <2>2, <2>3, CollectTypes
  <2> QED
    BY <1>3, <1>5, <2>2, <2>4 DEF Deadline, ShellTypes, taskVars, actorVars, shellVars
<1> QED
  BY <1>1, <1>2, <1>4, <1>5

\* The connection.
LEMMA ConnectionTypes ==
  ASSUME ShellTypes, HostReads \/ Pump \/ CancelFeed \/ AnswerCancel
  PROVE  ShellTypes'
<1>1. CASE HostReads
  <2>1. Head(line) \in AnyFrame /\ line' \in Seq(AnyFrame)
    BY <1>1, HeadTailProperties DEF HostReads, ShellTypes
  <2>2. inbox' \in Seq(AnyItem)
    <3>1. CASE Head(line).kind = "item"
      <4>1. Head(line).item \in AnyItem
        BY <2>1, <3>1 DEF AnyFrame
      <4>2. Append(inbox, Head(line).item) \in Seq(AnyItem)
        BY <4>1, AppendProperties DEF ShellTypes
      <4> QED
        BY <1>1, <3>1, <4>2 DEF HostReads, ShellTypes
    <3>2. CASE Head(line).kind # "item"
      <4>1. inbox' = inbox
        BY <1>1, <2>1, <3>2 DEF HostReads, AnyFrame
      <4> QED
        BY <4>1 DEF ShellTypes
    <3> QED
      BY <3>1, <3>2
  <2> QED
    BY <1>1, <2>1, <2>2 DEF HostReads, ShellTypes, taskVars, actorVars, shellVars
<1>2. CASE Pump
  <2>1. Head(local) \in AnyItem /\ local' \in Seq(AnyItem)
    BY <1>2, HeadTailProperties DEF Pump, ShellTypes
  <2>2. ItemFrame(Head(local)) \in AnyFrame
    BY <2>1 DEF ItemFrame, AnyFrame
  <2>3. line' \in Seq(AnyFrame)
    BY <1>2, <2>2, AppendProperties DEF Pump, ShellTypes
  <2> QED
    BY <1>2, <2>1, <2>3 DEF Pump, ShellTypes, hostVars, taskVars, actorVars, shellVars
<1>3. CASE CancelFeed
  BY <1>3, EmptySeq DEF CancelFeed, ShellTypes, hostVars, lineVars, taskVars, actorVars, shellVars
<1>4. CASE AnswerCancel
  <2>1. UnitFrame \in AnyFrame
    BY DEF UnitFrame, AnyFrame
  <2>2. line' \in Seq(AnyFrame)
    BY <1>4, <2>1, AppendProperties DEF AnswerCancel, ShellTypes
  <2> QED
    BY <1>4, <2>2 DEF AnswerCancel, ShellTypes, hostVars, feedVars, taskVars, actorVars, shellVars
<1> QED
  BY <1>1, <1>2, <1>3, <1>4

\* A reply moves a task on that waits for one.
LEMMA ReplyMoves ==
  ASSUME ShellTypes, NEW c, NEW r \in Result, Reply(c, r)
  PROVE  /\ task' \in [Call -> TaskState] /\ result' \in [Call -> Result]
         /\ \A d \in Call : task'[d] = task[d] \/ (task[d] = "asking" /\ task'[d] = "answering")
BY DEF Reply, ShellTypes, TaskState

\* An answer is a frame, and no item.
LEMMA ResponseTypes ==
  ASSUME ShellTypes, NEW c \in Call
  PROVE  ResponseFrame(c, result[c]) \in AnyFrame /\ ResponseFrame(c, result[c]).kind # "item"
<1>0. result[c] \in Result /\ c \in Nat
  <2>1. result[c] \in Result
    BY DEF ShellTypes
  <2>2. c \in Nat
    BY DEF Call
  <2> QED
    BY <2>1, <2>2
<1>1. ResponseFrame(c, result[c]) \in AnyFrame
  BY <1>0 DEF ResponseFrame, AnyFrame
<1>2. ResponseFrame(c, result[c]).kind = "response"
  BY DEF ResponseFrame
<1> QED
  BY <1>1, <1>2

\* The tasks of the calls.
LEMMA TaskTypes ==
  ASSUME ShellTypes, Serve \/ (\E c \in Call : Ask(c) \/ Answer(c))
  PROVE  ShellTypes'
<1>1. CASE Serve
  <2>1. up' \in Seq(Upward)
    BY <1>1, HeadTailProperties DEF Serve, ShellTypes
  <2>2. task' \in [Call -> TaskState]
    BY <1>1 DEF Serve, ShellTypes, TaskState
  <2> QED
    BY <1>1, <2>1, <2>2 DEF Serve, ShellTypes, hostVars, feedVars, actorVars, shellVars
<1>2. ASSUME NEW c \in Call, Ask(c) PROVE ShellTypes'
  <2>1. c \in Nat /\ Append(commands, c) \in Seq(Nat)
    BY AppendProperties DEF Call, ShellTypes
  <2>2. commands' \in Seq(Nat)
    BY <1>2, <2>1 DEF Ask, ShellTypes
  <2>3. task' \in [Call -> TaskState]
    BY <1>2 DEF Ask, ShellTypes, TaskState
  <2>4. result' \in [Call -> Result]
    BY <1>2 DEF Ask, ShellTypes, Result
  <2> QED
    BY <1>2, <2>2, <2>3, <2>4 DEF Ask, ShellTypes, hostVars, feedVars, lineVars, actorVars, shellVars
<1>3. ASSUME NEW c \in Call, Answer(c) PROVE ShellTypes'
  <2>1. ResponseFrame(c, result[c]) \in AnyFrame
    BY ResponseTypes
  <2>2. line' \in Seq(AnyFrame)
    BY <1>3, <2>1, AppendProperties DEF Answer, ShellTypes
  <2>3. task' \in [Call -> TaskState]
    BY <1>3 DEF Answer, ShellTypes, TaskState
  <2> QED
    BY <1>3, <2>2, <2>3 DEF Answer, ShellTypes, hostVars, feedVars, actorVars, shellVars
<1> QED
  BY <1>1, <1>2, <1>3

\* The actor takes a command: what it does to the shell, the tasks and itself.
LEMMA TakeTypes == ASSUME ShellTypes, TakeCommand PROVE ShellTypes'
<1> DEFINE c == Head(commands)
<1>1. commands' \in Seq(Nat)
  BY HeadTailProperties DEF TakeCommand, ShellTypes
<1>2. UNCHANGED <<hostVars, feedVars, lineVars>>
  BY DEF TakeCommand
<1>3. CASE Start(c) /\ UNCHANGED actorVars
  <2>1. RunOf(c) \in Nat
    <3>1. IsFiniteSet({i \in 1..c : calls[i] = "run"})
      <4>1. c \in Nat
        BY HeadTailProperties DEF TakeCommand, ShellTypes
      <4>2. IsFiniteSet(1..c)
        BY <4>1, FS_Interval
      <4> QED
        BY <4>2, FS_Subset
    <3> QED
      BY <3>1, FS_CardinalityType DEF RunOf
  <2>2. task' \in [Call -> TaskState] /\ result' \in [Call -> Result]
    BY <1>3, ReplyMoves DEF Start, Result
  <2>3. flight' \in Nat /\ emitted' = emitted /\ unread' \in Nat
    BY <1>3, <2>1 DEF Start, ShellTypes, shellVars
  <2> QED
    BY <1>1, <1>2, <1>3, <2>2, <2>3 DEF ShellTypes, hostVars, feedVars, lineVars, actorVars
<1>4. CASE (Signal(c) \/ RunUnwatched(c)) /\ UNCHANGED actorVars
  <2>1. task' \in [Call -> TaskState] /\ result' \in [Call -> Result]
    BY <1>4, ReplyMoves DEF Signal, RunUnwatched, Result
  <2>2. UNCHANGED <<flight, emitted, unread>>
    BY <1>4 DEF Signal, RunUnwatched
  <2> QED
    BY <1>1, <1>2, <1>4, <2>1, <2>2 DEF ShellTypes, hostVars, feedVars, lineVars, actorVars
<1>5. CASE UNCHANGED <<hand, events, task, result, shellVars>> /\ (outcome' = outcome \/ outcome' = "fail")
  BY <1>1, <1>2, <1>5 DEF ShellTypes, hostVars, feedVars, lineVars, shellVars, Result
<1> QED
  BY <1>3, <1>4, <1>5 DEF TakeCommand

\* What is emitted goes to the events, as long as somebody listens.
LEMMA EmittedTypes ==
  ASSUME ShellTypes, NEW item \in AnyItem, Emitted(item)
  PROVE  events' \in Seq(AnyItem)
BY AppendProperties DEF Emitted, ShellTypes

\* The actor's other steps.
LEMMA ActorTypes == ASSUME ShellTypes, FlightInv, ActorStep, ~TakeCommand PROVE ShellTypes'
<1>1. CASE Closed
  <2>1. task' \in [Call -> TaskState] /\ result' \in [Call -> Result]
    BY <1>1 DEF Closed, ShellTypes, TaskState, Result
  <2> QED
    BY <1>1, <2>1, EmptySeq DEF Closed, ShellTypes, hostVars, feedVars, lineVars, shellVars
<1>2. CASE ReadPiece
  <2>1. flight \in Run /\ emitted[flight] \in Nat /\ unread \in Nat /\ unread > 0
    <3>1. actor = "waiting" /\ unread > 0
      BY <1>2 DEF ReadPiece
    <3>2. flight # 0 /\ flight = run
      BY <3>1 DEF FlightInv
    <3>3. flight \in Run
      BY <3>2 DEF ShellTypes, Run
    <3> QED
      BY <3>1, <3>3 DEF ShellTypes
  <2>2. emitted[flight] - unread + 1 \in Nat
    <3>1. unread <= emitted[flight]
      BY <2>1 DEF FlightInv, Run
    <3> QED
      BY <2>1, <3>1
  <2>3. [run |-> flight, n |-> emitted[flight] - unread + 1] \in AnyItem
    BY <2>2 DEF ShellTypes, AnyItem
  <2>4. events' \in Seq(AnyItem)
    BY <1>2, <2>3, EmittedTypes DEF ReadPiece
  <2>5. unread' \in Nat
    BY <1>2, <2>1 DEF ReadPiece
  <2> QED
    BY <1>2, <2>4, <2>5 DEF ReadPiece, ShellTypes, hostVars, feedVars, lineVars, taskVars
<1>3. CASE ReadExit
  <2>1. [run |-> flight, n |-> 0] \in AnyItem
    BY DEF ShellTypes, AnyItem
  <2>2. events' \in Seq(AnyItem)
    BY <1>3, <2>1, EmittedTypes DEF ReadExit
  <2> QED
    BY <1>3, <2>2 DEF ReadExit, TakenAtExit, ShellTypes, hostVars, feedVars, lineVars, taskVars, Result
<1>4. CASE Capture \/ ReadEof \/ QuietElapsed \/ Abandoned
  BY <1>4 DEF Capture, ReadEof, QuietElapsed, Abandoned, ShellTypes, hostVars, feedVars, lineVars,
     taskVars, shellVars, Result
<1>5. CASE TakeEvent
  <2>1. Head(events) \in AnyItem /\ events' \in Seq(AnyItem)
    BY <1>5, HeadTailProperties DEF TakeEvent, ShellTypes
  <2>2. hand' \in Seq(AnyItem)
    BY <1>5, <2>1, Single DEF TakeEvent
  <2> QED
    BY <1>5, <2>1, <2>2 DEF TakeEvent, ShellTypes, hostVars, feedVars, lineVars, taskVars, shellVars
<1>6. CASE SendOutput
  <2>1. local' \in Seq(AnyItem)
    BY <1>6, ConcatProperties DEF SendOutput, ShellTypes
  <2> QED
    BY <1>6, <2>1, EmptySeq DEF SendOutput, ShellTypes, hostVars, lineVars, taskVars, shellVars
<1>7. CASE FinishWait
  <2>1. task' \in [Call -> TaskState] /\ result' \in [Call -> Result]
    BY <1>7, ReplyMoves DEF FinishWait, ShellTypes
  <2> QED
    BY <1>7, <2>1 DEF FinishWait, ShellTypes, hostVars, feedVars, lineVars, shellVars
<1> QED
  BY <1>1, <1>2, <1>3, <1>4, <1>5, <1>6, <1>7 DEF ActorStep

\* Every step keeps the types.
LEMMA TypesKeep == ASSUME ShellTypes, FlightInv, [Next]_vars PROVE ShellTypes'
<1>1. CASE HostStarts \/ HostGoesOn
  BY <1>1, StartTypes, HostTypes DEF HostGoesOn
<1>2. CASE HostReads \/ CancelFeed \/ Serve \/ WorkerWrites \/ SomeoneAsks
  BY <1>2, ConnectionTypes, TaskTypes DEF WorkerWrites, SomeoneAsks
<1>3. CASE ActorStep
  BY <1>3, TakeTypes, ActorTypes
<1>4. CASE WritePiece
  <2>1. flight \in Run
    BY <1>4 DEF WritePiece, FlightInv, ShellTypes, Run
  <2>2. emitted' \in [Run -> Nat] /\ unread' \in Nat
    BY <1>4, <2>1 DEF WritePiece, ShellTypes
  <2> QED
    BY <1>4, <2>2 DEF WritePiece, ShellTypes, hostVars, feedVars, lineVars, taskVars, actorVars
<1>5. CASE ProcessEnds \/ Reap
  BY <1>5 DEF ProcessEnds, Reap, ShellTypes, hostVars, feedVars, lineVars, taskVars, actorVars
<1>6. CASE UNCHANGED vars
  BY <1>6 DEF vars, ShellTypes, hostVars, feedVars, lineVars, taskVars, actorVars, shellVars
<1> QED
  BY <1>1, <1>2, <1>3, <1>4, <1>5, <1>6 DEF Next, ProcessStep
-----------------------------------------------------------------------------
(* The host.                                                               *)

\* The numbers of runs.
LEMMA RunNumbers ==
  ASSUME ShellTypes
  PROVE  /\ run \in Nat /\ 0 \notin Run /\ (run # 0 => run \in Run)
         /\ \A r \in Run : r \in Nat /\ emitted[r] \in Nat /\ seen[r] \in Seq(Nat)
<1>1. MaxRuns \in Nat /\ run \in 0..MaxRuns
  BY ShellAssumption DEF ShellTypes, ShellAssumption
<1>2. run \in Nat /\ 0 \notin Run /\ (run # 0 => run \in Run) /\ \A r \in Run : r \in Nat
  BY <1>1 DEF Run
<1> QED
  BY <1>2 DEF ShellTypes

\* Reading closes the run for the host with the marker, and touches no other.
LEMMA CollectHost ==
  ASSUME ShellTypes, HostInv, op \in {"waiting", "draining"},
         NEW items, NEW done \in BOOLEAN, Collect(items, done), UNCHANGED <<feed, run, emitted>>,
         op' \in {"none", op}, done => op' = "none"
  PROVE  HostInv'
<1>1. feed = "open" /\ view /\ run # 0 /\ verdict[run] = "open" /\ run \in Run
  BY DEF HostInv, ShellTypes, Run
<1>2. /\ view' = ~done /\ verdict' = IF done THEN [verdict EXCEPT ![run] = "done"] ELSE verdict
      /\ \A r \in Run : r # run => seen'[r] = seen[r]
  BY <1>1 DEF Collect, ShellTypes
<1>3. \A r \in Run : verdict'[r] = IF r = run /\ done THEN "done" ELSE verdict[r]
  BY <1>2 DEF ShellTypes
<1>4. op' \in {"running", "waiting", "draining"} => view'
  BY <1>2
<1>5. \A r \in Run : r > run => r # run
  BY DEF ShellTypes
<1>6. \A r \in Run : r > run' => verdict'[r] = "open" /\ seen'[r] = <<>> /\ emitted'[r] = 0
  BY <1>2, <1>3, <1>5 DEF HostInv
<1>7. verdict'[run] = IF done THEN "done" ELSE "open"
  BY <1>1, <1>3
<1>8. view' <=> verdict'[run] = "open"
  <2>1. CASE done
    <3>1. view' = FALSE /\ verdict'[run] = "done"
      BY <1>7, <2>1 DEF Collect
    <3> QED
      BY <3>1
  <2>2. CASE ~done
    <3>1. view' /\ verdict'[run] = "open"
      BY <1>2, <1>7, <2>2
    <3> QED
      BY <3>1
  <2> QED
    BY <2>1, <2>2
<1>9. \A r \in Run : verdict'[r] # "killed"
  BY <1>1, <1>3 DEF HostInv
<1> QED
  BY <1>1, <1>4, <1>6, <1>8, <1>9 DEF HostInv

\* Every step keeps what the host knows of its runs.
LEMMA HostKeeps == ASSUME ShellTypes, HostInv, FlightInv, [Next]_vars PROVE HostInv'
<1>1. CASE StartRun
  <2>1. run' = run + 1 /\ run \in Nat /\ UNCHANGED <<verdict, seen, emitted, feed>> /\ view' /\ feed = "open"
    BY <1>1 DEF StartRun, feedVars, shellVars, ShellTypes
  <2>2. \A r \in Run : (r > run + 1 => r > run) /\ (r = run + 1 => r > run)
    BY <2>1 DEF Run
  <2>3. run + 1 \in Run
    <3>1. MaxRuns \in Nat /\ run < MaxRuns
      BY <1>1, ShellAssumption DEF StartRun, ShellAssumption
    <3> QED
      BY <2>1, <3>1 DEF Run
  <2>4. run + 1 # 0 /\ verdict[run + 1] = "open"
    BY <2>1, <2>2, <2>3 DEF HostInv
  <2> QED
    BY <2>1, <2>2, <2>4 DEF HostInv
<1>2. CASE StartWait
  BY <1>2 DEF StartWait, HostInv, feedVars, shellVars
<1>3. CASE StartOther
  BY <1>3 DEF StartOther, HostInv, feedVars, shellVars
<1>4. CASE Kill
  BY <1>4 DEF Kill, HostInv, feedVars, shellVars
<1>5. CASE Stopped
  <2>1. run # 0 => run \in Run
    BY DEF ShellTypes, Run
  <2>2. /\ view' = FALSE /\ feed' = "dropped" /\ op' = "none" /\ run' = run
        /\ verdict' = [verdict EXCEPT ![run] = "killed"]
        /\ UNCHANGED <<seen, emitted>>
    BY <1>5 DEF Stopped, shellVars
  <2>3. \A r \in Run : r > run => verdict'[r] = verdict[r]
    BY <2>2 DEF ShellTypes
  <2> QED
    BY <2>1, <2>2, <2>3 DEF HostInv, ShellTypes
<1>6. CASE OtherAnswered \/ SeeQuiet \/ SeeExit
  BY <1>6 DEF OtherAnswered, SeeQuiet, SeeExit, HostInv, feedVars, shellVars
<1>7. CASE TakeItem
  <2>1. /\ Collect(<<Head(inbox)>>, Head(inbox).n = 0) /\ op \in {"waiting", "draining"}
        /\ op' \in {"none", op} /\ (Head(inbox).n = 0 => op' = "none")
        /\ UNCHANGED <<feed, run, emitted>>
    BY <1>7 DEF TakeItem, shellVars
  <2> QED
    BY <2>1, CollectHost
<1>8. CASE Deadline
  <2>1. \E items : \E done \in BOOLEAN : Collect(items, done)
    <3> DEFINE ends == {i \in 1..Len(inbox) : inbox[i].n = 0}
               last == IF ends # {} THEN CHOOSE i \in ends : \A j \in ends : i <= j ELSE Len(inbox)
    <3>1. Collect(SubSeq(inbox, 1, last), ends # {})
      BY <1>8 DEF Deadline
    <3> HIDE DEF ends, last
    <3>2. CASE ends # {}
      <4>1. Collect(SubSeq(inbox, 1, last), TRUE)
        BY <3>1, <3>2 DEF Collect
      <4> QED
        BY <4>1
    <3>3. CASE ends = {}
      <4>1. Collect(SubSeq(inbox, 1, last), FALSE)
        BY <3>1, <3>3 DEF Collect
      <4> QED
        BY <4>1
    <3> QED
      BY <3>2, <3>3
  <2>2. op \in {"waiting", "draining"} /\ op' = "none" /\ UNCHANGED <<feed, run, emitted>>
    BY <1>8 DEF Deadline, shellVars
  <2>3. PICK items : \E done \in BOOLEAN : Collect(items, done)
    BY <2>1
  <2>4. PICK done \in BOOLEAN : Collect(items, done)
    BY <2>3
  <2> QED
    BY <2>2, <2>4, CollectHost
<1>9. CASE CancelFeed
  BY <1>9 DEF CancelFeed, HostInv, hostVars, shellVars
<1>10. CASE WritePiece
  <2>1. flight = run /\ UNCHANGED <<hostVars, feed>> /\ emitted' = [emitted EXCEPT ![flight] = @ + 1]
    BY <1>10 DEF WritePiece, FlightInv, feedVars
  <2>2. \A r \in Run : r > run => emitted'[r] = emitted[r]
    BY <2>1 DEF ShellTypes
  <2> QED
    BY <2>1, <2>2 DEF HostInv, hostVars
<1>11. CASE UNCHANGED <<op, view, run, seen, verdict, feed, emitted>>
  BY <1>11 DEF HostInv
<1>12. CASE HostReads \/ Serve \/ WorkerWrites \/ SomeoneAsks
  BY <1>11, <1>12 DEF HostReads, Serve, WorkerWrites, Pump, AnswerCancel, Answer, SomeoneAsks, Ask, hostVars,
     feedVars, shellVars
<1>13. CASE ActorStep \/ Reap \/ ProcessEnds \/ UNCHANGED vars
  <2>1. CASE TakeCommand
    BY <1>11, <2>1 DEF TakeCommand, Start, Signal, RunUnwatched, hostVars, feedVars, shellVars
  <2>2. CASE Closed \/ Capture \/ ReadEof \/ QuietElapsed \/ Abandoned \/ TakeEvent \/ FinishWait
    BY <1>11, <2>2 DEF Closed, Capture, ReadEof, QuietElapsed, Abandoned, TakeEvent, FinishWait,
       hostVars, feedVars, shellVars
  <2>3. CASE ReadPiece \/ ReadExit \/ SendOutput \/ Reap \/ ProcessEnds \/ UNCHANGED vars
    BY <1>11, <2>3 DEF ReadPiece, ReadExit, SendOutput, Reap, ProcessEnds, vars, hostVars, feedVars, shellVars
  <2> QED
    BY <1>13, <2>1, <2>2, <2>3 DEF ActorStep
<1> QED
  BY <1>1, <1>2, <1>3, <1>4, <1>5, <1>6, <1>7, <1>8, <1>9, <1>10, <1>12, <1>13
     DEF Next, HostStarts, HostGoesOn, ProcessStep, StopShell, Interrupt, GiveUp
-----------------------------------------------------------------------------
(* The run in flight.                                                      *)

\* The last call of a run is the run itself.
LEMMA LastRun ==
  ASSUME ShellTypes, CallInv, BeginInv, NEW c \in Call, Awaited(c)
  PROVE  RunOf(c) = run /\ run \in Run /\ c \in 1..Newest
<1>1. /\ run # 0 /\ \A d \in 1..Newest : calls[d] = "run" => d <= c
      /\ run = Made("run")
  BY DEF BeginInv, CallInv
<1>2. Newest \in Nat /\ c \in Nat /\ c <= Newest /\ c >= 1
  BY LenProperties DEF ShellTypes, Newest, Call, Awaited
<1>3. {i \in 1..c : calls[i] = "run"} = {i \in 1..Newest : calls[i] = "run"}
  BY <1>1, <1>2
<1>4. RunOf(c) = run
  BY <1>1, <1>3 DEF RunOf, Made
<1>5. run \in Run
  BY <1>1 DEF ShellTypes, Run
<1> QED
  BY <1>2, <1>4, <1>5

\* A command of the queue that starts a run was awaited.
LEMMA CommandAwaited ==
  ASSUME ShellTypes, CallInv, TakeCommand
  PROVE  LET c == Head(commands)
         IN  /\ c \in Call /\ c \in 1..Newest /\ Commanded(c) /\ Pending(c)
             /\ calls[c] = "run" => Awaited(c)
<1> DEFINE c == Head(commands)
<1>1. commands \in Seq(Nat) /\ commands # <<>>
  BY DEF TakeCommand, ShellTypes
<1>2. Commanded(c) /\ c \in Nat
  BY <1>1, Tailed DEF Commanded
<1>3. c \in 1..Newest /\ Newest <= MaxCalls
  BY <1>2 DEF CallInv
<1>4. c \in Call /\ c <= Newest
  <2>1. Newest \in Nat /\ MaxCalls \in Nat
    BY LenProperties, ShellAssumption DEF ShellTypes, Newest, ShellAssumption
  <2> QED
    BY <1>3, <2>1 DEF Call
<1> QED
  BY <1>2, <1>3, <1>4 DEF Pending, Awaited

\* At most the last run is in flight, and the pipe holds pieces it wrote.
LEMMA FlightKeeps ==
  ASSUME ShellTypes, CallInv, BeginInv, HostInv, PipeInv, FlightInv, [Next]_vars
  PROVE  FlightInv'
<1>1. CASE StartRun
  <2>1. flight = 0
    <3>1. ~InPipe /\ feed = "open"
      BY <1>1 DEF StartRun, HostInv, InPipe
    <3> QED
      BY <3>1 DEF PipeInv, Rest
  <2> QED
    BY <1>1, <2>1 DEF StartRun, FlightInv, actorVars, shellVars
<1>2. CASE TakeCommand
  <2> DEFINE c == Head(commands)
  <2>1. CASE calls[c] = "run" /\ Start(c) /\ UNCHANGED actorVars
    <3>1. RunOf(c) = run /\ run \in Run
      BY <1>2, <2>1, CommandAwaited, LastRun
    <3>2. UNCHANGED <<actor, run>> /\ actor = "idle"
      BY <1>2, <2>1 DEF TakeCommand, actorVars, hostVars
    <3>3. CASE flight # 0
      BY <2>1, <3>2, <3>3 DEF Start, FlightInv, shellVars
    <3>4. CASE flight = 0
      <4>1. flight' = run /\ unread' = 0 /\ emitted' = emitted /\ run # 0 /\ emitted[run] \in Nat
        <5>1. flight' = RunOf(c) /\ unread' = 0 /\ emitted' = emitted
          BY <2>1, <3>4 DEF Start
        <5>2. run # 0 /\ emitted[run] \in Nat
          BY <3>1, RunNumbers
        <5> QED
          BY <3>1, <5>1, <5>2
      <4> QED
        BY <3>2, <4>1 DEF FlightInv
    <3> QED
      BY <3>3, <3>4
  <2>2. CASE (Signal(c) \/ RunUnwatched(c)) /\ UNCHANGED actorVars
    <3>1. UNCHANGED <<actor, flight, emitted, unread, run>> /\ (proc' = "alive" => proc = "alive")
      BY <1>2, <2>2 DEF TakeCommand, Signal, RunUnwatched, actorVars, hostVars
    <3> QED
      BY <3>1 DEF FlightInv
  <2>3. CASE /\ UNCHANGED <<hand, events, task, result, shellVars>>
             /\ (flight # 0 /\ actor' = "waiting") \/ actor' = "flushing"
    <3>1. UNCHANGED <<flight, emitted, unread, proc, run>>
      BY <1>2, <2>3 DEF TakeCommand, shellVars, hostVars
    <3> QED
      BY <2>3, <3>1 DEF FlightInv
  <2> QED
    BY <1>2, <2>1, <2>2, <2>3 DEF TakeCommand
<1>3. CASE Closed \/ QuietElapsed \/ Abandoned \/ TakeEvent \/ SendOutput \/ FinishWait
  <2>1. UNCHANGED <<run, shellVars>> /\ (actor' = actor \/ actor' \in {"gone", "flushing", "idle"})
    BY <1>3 DEF Closed, QuietElapsed, Abandoned, TakeEvent, SendOutput, FinishWait, hostVars
  <2> QED
    BY <2>1 DEF FlightInv, shellVars
<1>4. CASE ReadPiece
  <2>1. flight # 0 /\ flight \in Run
    BY <1>4 DEF ReadPiece, FlightInv, ShellTypes, Run
  <2>2. UNCHANGED <<run, actor, flight, proc, emitted>> /\ unread' = unread - 1
    BY <1>4 DEF ReadPiece, hostVars
  <2>3. unread - 1 <= emitted[flight]
    BY <2>1 DEF ShellTypes, FlightInv
  <2> QED
    BY <2>1, <2>2, <2>3 DEF FlightInv
<1>5. CASE ReadExit \/ Capture \/ ReadEof
  <2>1. UNCHANGED <<run, proc, emitted, unread>> /\ flight' = 0 /\ actor' \in {"reaping", "flushing"}
    BY <1>5 DEF ReadExit, Capture, ReadEof, TakenAtExit, hostVars
  <2>2. proc # "alive"
    BY <1>5 DEF ReadExit, Capture, ReadEof, FlightInv
  <2> QED
    BY <2>1, <2>2 DEF FlightInv
<1>6. CASE Reap \/ ProcessEnds
  <2>1. UNCHANGED <<run, actor, flight, emitted, unread>> /\ proc' # "alive"
    BY <1>6 DEF Reap, ProcessEnds, hostVars, actorVars
  <2> QED
    BY <2>1 DEF FlightInv
<1>7. CASE WritePiece
  <2>1. /\ UNCHANGED <<run, actor, flight, proc>> /\ unread' = unread + 1
        /\ emitted' = [emitted EXCEPT ![flight] = @ + 1]
    BY <1>7 DEF WritePiece, hostVars, actorVars
  <2>2. flight # 0 /\ flight \in Run /\ emitted[flight] \in Nat /\ unread \in Nat
    <3>1. flight # 0 /\ flight = run
      BY <1>7 DEF WritePiece, FlightInv
    <3> QED
      BY <3>1, RunNumbers DEF ShellTypes
  <2>3. emitted'[flight] = emitted[flight] + 1
    BY <2>1, <2>2 DEF ShellTypes
  <2>4. unread + 1 <= emitted[flight] + 1
    BY <2>2 DEF FlightInv
  <2> QED
    BY <2>1, <2>2, <2>3, <2>4 DEF FlightInv
<1>8. CASE UNCHANGED <<run, actor, flight, proc, emitted, unread>>
  BY <1>8 DEF FlightInv
<1>9. CASE StartWait \/ StartOther \/ Kill \/ Stopped \/ OtherAnswered \/ TakeItem \/ SeeQuiet \/ SeeExit \/ Deadline
  BY <1>8, <1>9 DEF StartWait, StartOther, Kill, Stopped, OtherAnswered, TakeItem, SeeQuiet, SeeExit, Deadline,
     actorVars, shellVars
<1>10. CASE HostReads \/ CancelFeed \/ Serve \/ WorkerWrites \/ SomeoneAsks \/ UNCHANGED vars
  BY <1>8, <1>10 DEF HostReads, CancelFeed, Serve, WorkerWrites, Pump, AnswerCancel, Answer, SomeoneAsks, Ask,
     vars, hostVars, actorVars, shellVars
<1> QED
  BY <1>1, <1>2, <1>3, <1>4, <1>5, <1>6, <1>7, <1>9, <1>10
     DEF Next, HostStarts, HostGoesOn, ActorStep, ProcessStep, StopShell, Interrupt, GiveUp
-----------------------------------------------------------------------------
(* The calls.                                                              *)

\* A frame more on the way to the worker.
LEMMA PutUp ==
  ASSUME NEW u \in Seq(Upward), NEW n \in Nat, OnceIn(u, n), NEW frame \in Upward,
         frame.call \in 0..n,
         frame.kind = "request" => frame.call # 0 /\ ~AskedIn(u, frame.call)
  PROVE  /\ OnceIn(Append(u, frame), n) /\ Append(u, frame) \in Seq(Upward)
         /\ \A c : AskedIn(Append(u, frame), c) <=> AskedIn(u, c) \/ frame = Request(c)
<1> DEFINE v == Append(u, frame)
<1>1. /\ v \in Seq(Upward) /\ DOMAIN v = DOMAIN u \union {Len(u) + 1} /\ Len(u) + 1 \notin DOMAIN u
      /\ \A i \in DOMAIN u : v[i] = u[i]
      /\ v[Len(u) + 1] = frame
  BY Appended
<1> HIDE DEF v
<1>2. \A c : AskedIn(v, c) <=> AskedIn(u, c) \/ frame = Request(c)
  BY <1>1 DEF AskedIn
<1>3. frame.kind = "request" => frame = Request(frame.call)
  BY DEF Upward, Request
<1>4. ASSUME NEW i \in DOMAIN v PROVE v[i].call \in 0..n /\ (v[i].kind = "request" => v[i].call # 0)
  BY <1>1, <1>4 DEF OnceIn
<1>5. ASSUME NEW i \in DOMAIN v, NEW j \in DOMAIN v, v[i].kind = "request", v[i] = v[j]
      PROVE  i = j
  <2>1. CASE i \in DOMAIN u /\ j \in DOMAIN u
    BY <1>1, <1>5, <2>1 DEF OnceIn
  <2>2. ASSUME NEW k \in DOMAIN u, u[k] = frame, frame.kind = "request" PROVE FALSE
    <3>1. AskedIn(u, frame.call)
      BY <1>3, <2>2 DEF AskedIn
    <3> QED
      BY <2>2, <3>1
  <2> QED
    BY <1>1, <1>5, <2>1, <2>2
<1>6. OnceIn(v, n)
  BY <1>4, <1>5 DEF OnceIn
<1> QED
  BY <1>1, <1>2, <1>6 DEF v

\* The cancel that goes before, or none.
LEMMA PutDropped ==
  ASSUME ShellTypes, CallInv, NEW before, before \in {<<>>, <<Cancel(Newest)>>}
  PROVE  /\ OnceIn(up \o before, Newest) /\ up \o before \in Seq(Upward) /\ Newest \in Nat
         /\ \A c : AskedIn(up \o before, c) <=> Asked(c)
         /\ \A frame \in Upward : up \o Append(before, frame) = Append(up \o before, frame)
<1>1. Newest \in Nat /\ up \in Seq(Upward) /\ OnceIn(up, Newest)
  BY LenProperties DEF ShellTypes, CallInv, Newest
<1>2. /\ Cancel(Newest) \in Upward /\ Cancel(Newest).call = Newest /\ Cancel(Newest).kind = "cancel"
      /\ \A c : Cancel(Newest) # Request(c)
  BY <1>1 DEF Cancel, Request, Upward
<1>3. before \in Seq(Upward)
  <2>1. <<>> \in Seq(Upward) /\ <<Cancel(Newest)>> \in Seq(Upward)
    BY <1>2, EmptySeq, Single
  <2> QED
    BY <2>1
<1>4. CASE before = <<>>
  <2>1. up \o before = up
    BY <1>1, <1>4, ConcatEmptySeq
  <2>2. \A frame \in Upward : Append(before, frame) = <<frame>> /\ up \o <<frame>> = Append(up, frame)
    BY <1>1, <1>4
  <2> QED
    BY <1>1, <2>1, <2>2 DEF Asked
<1>5. CASE before = <<Cancel(Newest)>>
  <2>1. up \o before = Append(up, Cancel(Newest))
    BY <1>1, <1>2, <1>5
  <2>2. Newest \in 0..Newest
    BY <1>1
  <2>3. /\ OnceIn(Append(up, Cancel(Newest)), Newest) /\ Append(up, Cancel(Newest)) \in Seq(Upward)
        /\ \A c : AskedIn(Append(up, Cancel(Newest)), c) <=> AskedIn(up, c) \/ Cancel(Newest) = Request(c)
    BY <1>1, <1>2, <2>2, PutUp
  <2>4. ASSUME NEW frame \in Upward PROVE up \o Append(before, frame) = Append(up \o before, frame)
    <3>1. Append(before, frame) = before \o <<frame>> /\ <<frame>> \in Seq(Upward)
      BY <1>3
    <3>2. Append(up \o before, frame) = (up \o before) \o <<frame>>
      BY <2>1, <2>3
    <3> QED
      BY <1>1, <1>3, <3>1, <3>2, ConcatAssociative
  <2> QED
    BY <1>1, <1>2, <2>1, <2>3, <2>4 DEF Asked
<1> QED
  BY <1>4, <1>5

\* A call that is made is pending, and no other becomes so.
LEMMA MakeCalls ==
  ASSUME ShellTypes, CallInv, NEW kind \in Kind, NEW before, before \in {<<>>, <<Cancel(Newest)>>},
         Make(kind, before), run' = IF kind = "run" THEN run + 1 ELSE run,
         UNCHANGED <<task, commands>>
  PROVE  /\ CallInv' /\ Newest' = Newest + 1 /\ Newest \in Nat /\ Newest + 1 \in Call
         /\ calls'[Newest + 1] = kind
         /\ \A c \in 1..Newest : calls'[c] = calls[c]
         /\ \A c \in Call : Pending(c)' => Pending(c) \/ c = Newest + 1
<1> DEFINE n == Newest
           m == n + 1
<1>1. /\ n \in Nat /\ n < MaxCalls /\ MaxCalls \in Nat /\ calls \in Seq(Kind) /\ DOMAIN calls = 1..n
      /\ run \in Nat /\ commands \in Seq(Nat)
  BY LenProperties, ShellAssumption, RunNumbers DEF ShellTypes, Newest, Make, ShellAssumption
<1>2. /\ calls' = Append(calls, kind) /\ Newest' = m /\ calls'[m] = kind
      /\ \A c \in 1..n : calls'[c] = calls[c]
  BY <1>1, Appended DEF Make, Newest
<1>3. m \in Call /\ n \in 0..m /\ m # 0 /\ m \in Nat
  BY <1>1 DEF Call
<1>4. run' = Made("run")'
  <2> DEFINE S == {c \in 1..n : calls[c] = "run"}
             T == {c \in 1..m : calls'[c] = "run"}
  <2>1. IsFiniteSet(S) /\ run = Cardinality(S)
    <3>1. IsFiniteSet(1..n)
      BY <1>1, FS_Interval
    <3> QED
      BY <3>1, FS_Subset DEF CallInv, Made
  <2>2. Made("run")' = Cardinality(T)
    BY <1>2 DEF Made
  <2>3. 1..m = 1..n \union {m} /\ m \notin 1..n
    BY <1>1
  <2>4. CASE kind = "run"
    <3>1. T = S \union {m} /\ m \notin S
      BY <1>2, <2>3, <2>4
    <3>2. Cardinality(S \union {m}) = Cardinality(S) + 1
      BY <2>1, <3>1, FS_AddElement
    <3> QED
      BY <2>1, <2>2, <2>4, <3>1, <3>2
  <2>5. CASE kind # "run"
    <3>1. T = S
      BY <1>2, <2>3, <2>5
    <3> QED
      BY <2>1, <2>2, <2>5, <3>1
  <2> QED
    BY <2>4, <2>5
<1>5. ~Asked(m) /\ ~Commanded(m) /\ ~Asks(m)
  <2>1. ~Asked(m)
    <3>1. ASSUME NEW i \in DOMAIN up PROVE up[i] # Request(m)
      <4>1. up[i].call \in 0..n
        BY DEF CallInv, OnceIn
      <4>2. ~(m \in 0..n)
        BY <1>1
      <4> QED
        BY <4>1, <4>2 DEF Request
    <3> QED
      BY <3>1 DEF Asked, AskedIn
  <2>2. ~Commanded(m)
    BY <1>1, <1>3 DEF CallInv
  <2>3. ~Asks(m)
    BY <1>1, <1>3 DEF CallInv, Asks
  <2> QED
    BY <2>1, <2>2, <2>3
<1>6. /\ OnceIn(up', m) /\ \A c : Asked(c)' <=> Asked(c) \/ c = m
  <2> DEFINE u == up \o before
  <2>1. /\ OnceIn(u, n) /\ u \in Seq(Upward) /\ \A c : AskedIn(u, c) <=> Asked(c)
        /\ \A frame \in Upward : up \o Append(before, frame) = Append(u, frame)
    BY PutDropped
  <2>2. Request(m) \in Upward /\ Request(m).call = m /\ \A c : Request(m) = Request(c) <=> m = c
    BY <1>3 DEF Request, Upward
  <2>3. up' = Append(u, Request(m))
    BY <2>1, <2>2 DEF Make
  <2> HIDE DEF u
  <2>4. OnceIn(u, m)
    <3>1. 0..n \subseteq 0..m
      BY <1>1
    <3> QED
      BY <2>1, <3>1 DEF OnceIn
  <2>5. m \in 0..m /\ m # 0
    BY <1>1
  <2>6. /\ OnceIn(Append(u, Request(m)), m)
        /\ \A c : AskedIn(Append(u, Request(m)), c) <=> AskedIn(u, c) \/ Request(m) = Request(c)
    BY <1>3, <1>5, <2>1, <2>2, <2>4, <2>5, PutUp
  <2> QED
    BY <2>1, <2>2, <2>3, <2>6 DEF Asked
<1>7. \A c : (Commanded(c)' <=> Commanded(c)) /\ (Asks(c)' <=> Asks(c))
  BY DEF Commanded, Asks
<1>8. n <= m /\ m <= MaxCalls /\ 1..n \subseteq 1..m /\ m \notin 1..n
  BY <1>1
<1>9. CallInv'
  <2>1. \A c \in Nat : Commanded(c)' => c \in 1..m /\ ~Asks(c)' /\ ~Asked(c)'
    BY <1>6, <1>7, <1>8 DEF CallInv
  <2>2. \A c \in Call : Asked(c)' => ~Asks(c)'
    BY <1>5, <1>6, <1>7 DEF CallInv
  <2>3. \A c \in Call : task'[c] # "none" => c <= m
    BY <1>1, <1>8 DEF CallInv, Call
  <2>4. \A i, j \in DOMAIN commands' : commands'[i] = commands'[j] => i = j
    BY DEF CallInv
  <2> QED
    BY <1>2, <1>4, <1>6, <1>8, <2>1, <2>2, <2>3, <2>4 DEF CallInv
<1> QED
  BY <1>1, <1>2, <1>3, <1>6, <1>7, <1>9 DEF Pending

\* Steps of the tasks and of the actor after which no call is pending that was not.
LEMMA Moving ==
  ASSUME ShellTypes, CallInv, UNCHANGED <<run, calls, up>>,
         \A c \in Call : (Asks(c)' => Asks(c)) /\ (task'[c] # "none" => task[c] # "none"),
         \A c \in Nat : Commanded(c)' => Commanded(c) \/ (Asks(c) /\ ~Asks(c)' /\ c \in Call),
         \A i, j \in DOMAIN commands' : commands'[i] = commands'[j] => i = j
  PROVE  CallInv' /\ \A c \in Call : Pending(c)' => Pending(c)
<1>1. \A c : Asked(c)' <=> Asked(c)
  BY DEF Asked, AskedIn
<1>2. MaxCalls \in Nat /\ Newest \in Nat /\ Newest <= MaxCalls /\ Newest' = Newest
  BY ShellAssumption, LenProperties DEF ShellAssumption, ShellTypes, Newest, CallInv
<1>3. \A c \in Call : c \in Nat /\ c >= 1
  BY DEF Call
<1>4. 1..Newest \subseteq Call
  BY <1>2 DEF Call
<1>5. \A c \in Call : Asks(c) => c \in 1..Newest /\ ~Asked(c)
  BY <1>2, <1>3 DEF CallInv, Asks
<1>6. \A c \in Nat : Commanded(c)' => c \in 1..Newest /\ ~Asks(c)' /\ ~Asked(c)'
  BY <1>1, <1>3, <1>4, <1>5 DEF CallInv
<1>7. \A c \in Call : (Asked(c)' => ~Asks(c)') /\ (task'[c] # "none" => c <= Newest)
  BY <1>1 DEF CallInv
<1>8. run' = Made("run")' /\ OnceIn(up', Newest)
  BY <1>2 DEF CallInv, Made
<1>9. CallInv'
  BY <1>2, <1>6, <1>7, <1>8 DEF CallInv
<1> QED
  BY <1>1, <1>3, <1>9 DEF Pending

\* The host cancels nothing that is pending, serve brings a call to its task.
LEMMA Cancelling ==
  ASSUME ShellTypes, CallInv, UNCHANGED <<run, calls, task, commands>>,
         up' = up \/ up' = up \o Dropped
  PROVE  CallInv' /\ \A c \in Call : Pending(c)' => Pending(c)
<1>1. Dropped \in {<<>>, <<Cancel(Newest)>>}
  BY DEF Dropped
<1>2. OnceIn(up', Newest) /\ \A c : Asked(c)' <=> Asked(c)
  <2>1. CASE up' = up
    BY <2>1 DEF CallInv, Asked, AskedIn
  <2>2. CASE up' = up \o Dropped
    BY <1>1, <2>2, PutDropped DEF Asked
  <2> QED
    BY <2>1, <2>2
<1>3. Newest' = Newest /\ run' = Made("run")'
  BY DEF CallInv, Made, Newest
<1>4. \A c : (Commanded(c)' <=> Commanded(c)) /\ (Asks(c)' <=> Asks(c))
  BY DEF Commanded, Asks
<1> QED
  BY <1>2, <1>3, <1>4 DEF CallInv, Pending

\* Serve hands a request to a task: the call stays in one place.
LEMMA ServeCalls == ASSUME ShellTypes, CallInv, Serve PROVE CallInv' /\ \A c \in Call : Pending(c)' => Pending(c)
<1>0. PICK frame, d : frame = Head(up) /\ d = Head(up).call
  OBVIOUS
<1>1. /\ up \in Seq(Upward) /\ up' = Tail(up) /\ up' \in Seq(Upward) /\ frame = up[1] /\ frame \in Upward
      /\ 1 \in DOMAIN up
      /\ \A i \in DOMAIN up' : i + 1 \in DOMAIN up /\ i + 1 # 1 /\ up'[i] = up[i + 1] /\ i \in Nat
  BY <1>0, Tailed DEF Serve, ShellTypes
<1>2. OnceIn(up', Newest)
  <2>1. \A i, j \in Nat : i + 1 = j + 1 => i = j
    OBVIOUS
  <2>2. \A i \in DOMAIN up' : up'[i].call \in 0..Newest /\ (up'[i].kind = "request" => up'[i].call # 0)
    BY <1>1 DEF CallInv, OnceIn
  <2>3. ASSUME NEW i \in DOMAIN up', NEW j \in DOMAIN up', up'[i].kind = "request", up'[i] = up'[j]
        PROVE  i = j
    BY <1>1, <2>1, <2>3 DEF CallInv, OnceIn
  <2> QED
    BY <2>2, <2>3 DEF OnceIn
<1>3. \A c : Asked(c)' => Asked(c)
  BY <1>1 DEF Asked, AskedIn
<1>4. frame.kind = "request" => frame = Request(d) /\ Asked(d) /\ ~Asked(d)' /\ d \in 1..Newest
  <2> SUFFICES ASSUME frame.kind = "request" PROVE frame = Request(d) /\ Asked(d) /\ ~Asked(d)' /\ d \in 1..Newest
    OBVIOUS
  <2>1. frame = Request(d)
    BY <1>0, <1>1 DEF Request, Upward
  <2>2. ASSUME NEW i \in DOMAIN up', up'[i] = Request(d) PROVE FALSE
    BY <1>1, <2>1, <2>2 DEF CallInv, OnceIn
  <2>3. d \in 0..Newest /\ d # 0 /\ Newest \in Nat
    BY <1>0, <1>1, LenProperties DEF CallInv, OnceIn, ShellTypes, Newest
  <2>4. d \in 1..Newest
    BY <2>3
  <2>5. Asked(d) /\ ~Asked(d)'
    BY <1>1, <2>1, <2>2 DEF Asked, AskedIn
  <2> QED
    BY <2>1, <2>4, <2>5
<1>5. /\ UNCHANGED <<run, calls, commands>> /\ Newest' = Newest
      /\ \/ frame.kind = "request" /\ task' = [task EXCEPT ![d] = "spawned"]
         \/ frame.kind = "cancel" /\ task' = [task EXCEPT ![d] = "over"]
         \/ frame.kind = "cancel" /\ task[d] = "spawned" /\ task' = [task EXCEPT ![d] = "lastAsk"]
  BY <1>0 DEF Serve, hostVars, Newest
<1>6. d \in 0..Newest
  BY <1>0, <1>1 DEF CallInv, OnceIn
<1>7. ASSUME NEW c \in Call
      PROVE  /\ Asks(c)' => Asks(c) \/ (c = d /\ frame.kind = "request")
             /\ task'[c] # "none" => task[c] # "none" \/ c = d
  BY <1>5 DEF Asks, ShellTypes
<1>8. \A c : Commanded(c)' <=> Commanded(c)
  BY <1>5 DEF Commanded
<1>9. MaxCalls \in Nat /\ Newest \in Nat /\ Newest <= MaxCalls
  BY ShellAssumption, LenProperties DEF ShellAssumption, ShellTypes, Newest, CallInv
<1>10. 1..Newest \subseteq Call /\ \A c \in Call : c \in Nat
  BY <1>9 DEF Call
<1>11. \A c \in Nat : Commanded(c)' => c \in 1..Newest /\ ~Asks(c)' /\ ~Asked(c)'
  BY <1>3, <1>4, <1>7, <1>8, <1>10 DEF CallInv
<1>12. ASSUME NEW c \in Call, Asked(c)' PROVE ~Asks(c)'
  <2>1. Asked(c) /\ ~Asks(c)
    BY <1>3, <1>12 DEF CallInv
  <2>2. CASE c = d /\ frame.kind = "request"
    BY <1>4, <1>12, <2>2
  <2> QED
    BY <1>7, <2>1, <2>2
<1>13. \A c \in Call : task'[c] # "none" => c <= Newest
  BY <1>6, <1>7, <1>9 DEF CallInv
<1>14. run' = Made("run")' /\ \A i, j \in DOMAIN commands' : commands'[i] = commands'[j] => i = j
  BY <1>5 DEF CallInv, Made
<1>15. CallInv'
  BY <1>2, <1>5, <1>9, <1>11, <1>12, <1>13, <1>14 DEF CallInv
<1> QED
  BY <1>3, <1>4, <1>7, <1>8, <1>15 DEF Pending

\* A command that is taken is no longer pending.
LEMMA TakeCalls ==
  ASSUME ShellTypes, CallInv, TakeCommand
  PROVE  /\ CallInv' /\ \A c \in Call : Pending(c)' => Pending(c) /\ c # Head(commands)
<1>0. PICK d : d = Head(commands)
  OBVIOUS
<1>1. /\ commands' = Tail(commands) /\ d = commands[1] /\ 1 \in DOMAIN commands
      /\ \A i \in DOMAIN commands' : i + 1 \in DOMAIN commands /\ i + 1 # 1 /\ i \in Nat
                                     /\ commands'[i] = commands[i + 1]
  BY <1>0, Tailed DEF TakeCommand, ShellTypes
<1>2. UNCHANGED <<run, calls, up>>
  BY DEF TakeCommand, hostVars, lineVars
<1>3. \A c \in Call : task'[c] = task[c] \/ (task[c] = "asking" /\ task'[c] = "answering")
  BY ReplyMoves DEF TakeCommand, Start, Signal, RunUnwatched, Result
<1>4. \A c \in Call : (Asks(c)' => Asks(c)) /\ (task'[c] # "none" => task[c] # "none")
  BY <1>3 DEF Asks
<1>5. \A c : Commanded(c)' => Commanded(c) /\ c # d
  BY <1>1 DEF Commanded, CallInv
<1>6. ASSUME NEW i \in DOMAIN commands', NEW j \in DOMAIN commands', commands'[i] = commands'[j] PROVE i = j
  <2>1. i + 1 = j + 1
    BY <1>1, <1>6 DEF CallInv
  <2> QED
    BY <1>1, <2>1
<1>7. CallInv' /\ \A c \in Call : Pending(c)' => Pending(c)
  BY <1>2, <1>4, <1>5, <1>6, Moving
<1>8. d \in Call /\ Commanded(d)
  BY <1>0, CommandAwaited
<1>9. ~Pending(d)'
  <2>1. ~Asks(d) /\ ~Asked(d)
    BY <1>8 DEF CallInv, Call
  <2>2. ~Asks(d)' /\ ~Commanded(d)'
    BY <1>4, <1>5, <1>8, <2>1
  <2>3. ~Asked(d)'
    BY <1>2, <2>1 DEF Asked, AskedIn
  <2> QED
    BY <2>2, <2>3 DEF Pending
<1>10. ASSUME NEW c \in Call, Pending(c)' PROVE c # d
  BY <1>9, <1>10
<1> QED
  BY <1>0, <1>7, <1>10

\* Nothing but a call of the host makes a call pending.
LEMMA CallKeeps ==
  ASSUME ShellTypes, CallInv, [Next]_vars, ~(StartRun \/ StartWait \/ StartOther \/ Kill)
  PROVE  CallInv' /\ \A c \in Call : Pending(c)' => Pending(c)
<1>1. CASE TakeItem \/ Deadline \/ Stopped \/ OtherAnswered \/ SeeQuiet \/ SeeExit
  BY <1>1, Cancelling DEF TakeItem, Deadline, Stopped, OtherAnswered, SeeQuiet, SeeExit, taskVars, lineVars
<1>2. CASE HostReads \/ Pump \/ CancelFeed \/ AnswerCancel
  BY <1>2, Cancelling DEF HostReads, Pump, CancelFeed, AnswerCancel, taskVars, hostVars, lineVars
<1>3. CASE \E c \in Call : Ask(c)
  <2>1. PICK d \in Call : Ask(d)
    BY <1>3
  <2>2. /\ UNCHANGED <<run, calls, up>> /\ Asks(d) /\ task'[d] \in {"answering", "over", "asking"}
        /\ \A c \in Call : c # d => task'[c] = task[c]
        /\ commands' = commands \/ commands' = Append(commands, d)
    BY <2>1 DEF Ask, Asks, ShellTypes, hostVars, lineVars
  <2>3. ~Commanded(d) /\ task[d] # "none" /\ ~Asks(d)'
    BY <2>2 DEF CallInv, Asks, Call
  <2>4. \A c \in Call : (Asks(c)' => Asks(c)) /\ (task'[c] # "none" => task[c] # "none")
    BY <2>2, <2>3 DEF Asks
  <2>5. /\ \A c : Commanded(c)' => Commanded(c) \/ c = d
        /\ \A i, j \in DOMAIN commands' : commands'[i] = commands'[j] => i = j
    <3>1. CASE commands' = commands
      BY <3>1 DEF Commanded, CallInv
    <3>2. CASE commands' = Append(commands, d)
      <4>1. commands \in Seq(Nat) /\ d \in Nat
        BY DEF ShellTypes, Call
      <4>2. /\ DOMAIN commands' = DOMAIN commands \union {Len(commands) + 1}
            /\ \A i \in DOMAIN commands : commands'[i] = commands[i]
            /\ commands'[Len(commands) + 1] = d /\ Len(commands) + 1 \notin DOMAIN commands
        BY <3>2, <4>1, Appended
      <4> QED
        BY <2>3, <4>2 DEF Commanded, CallInv
    <3> QED
      BY <2>2, <3>1, <3>2
  <2> QED
    BY <2>2, <2>3, <2>4, <2>5, Moving
<1>4. CASE (\E c \in Call : Answer(c)) \/ FinishWait
  <2>1. UNCHANGED <<run, calls, up, commands>>
    BY <1>4 DEF Answer, FinishWait, hostVars, lineVars
  <2>2. \A c \in Call : (Asks(c)' => Asks(c)) /\ (task'[c] # "none" => task[c] # "none")
    <3>1. CASE FinishWait
      <4>1. \A c \in Call : task'[c] = task[c] \/ (task[c] = "asking" /\ task'[c] = "answering")
        BY <3>1, ReplyMoves DEF FinishWait, ShellTypes
      <4> QED
        BY <4>1 DEF Asks
    <3>2. ASSUME NEW d \in Call, Answer(d)
          PROVE  \A c \in Call : (Asks(c)' => Asks(c)) /\ (task'[c] # "none" => task[c] # "none")
      BY <3>2 DEF Answer, Asks, ShellTypes
    <3> QED
      BY <1>4, <3>1, <3>2
  <2>3. \A c : Commanded(c)' <=> Commanded(c)
    BY <2>1 DEF Commanded
  <2> QED
    BY <2>1, <2>2, <2>3, Moving DEF CallInv
<1>5. CASE Closed
  <2>1. UNCHANGED <<run, calls, up>> /\ commands' = <<>>
        /\ task' = [c \in Call |-> IF task[c] = "asking" THEN "answering" ELSE task[c]]
    BY <1>5 DEF Closed, hostVars, lineVars
  <2>2. \A c \in Call : (Asks(c)' => Asks(c)) /\ (task'[c] # "none" => task[c] # "none")
    BY <2>1 DEF Asks
  <2>3. DOMAIN commands' = {}
    BY <2>1, NoElements
  <2> QED
    BY <2>1, <2>2, <2>3, Moving DEF Commanded
<1>6. CASE /\ ReadPiece \/ ReadExit \/ Capture \/ ReadEof \/ QuietElapsed \/ Abandoned \/ TakeEvent
              \/ SendOutput \/ Reap \/ ProcessStep \/ UNCHANGED vars
  <2>1. UNCHANGED <<run, calls, task, commands, up>>
    BY <1>6 DEF ReadPiece, ReadExit, Capture, ReadEof, QuietElapsed, Abandoned, TakeEvent, SendOutput, Reap,
       ProcessStep, WritePiece, ProcessEnds, vars, hostVars, lineVars, taskVars
  <2> QED
    BY <2>1, Cancelling
<1> QED
  BY <1>1, <1>2, <1>3, <1>4, <1>5, <1>6, ServeCalls, TakeCalls
     DEF Next, HostStarts, HostGoesOn, WorkerWrites, SomeoneAsks, ActorStep, StopShell, Interrupt, GiveUp
-----------------------------------------------------------------------------
(* Before a command starts.                                                *)

\* A line without items gets none from the frames of answers and cancels.
LEMMA NoItemMore ==
  ASSUME ShellTypes, NoItems, NEW frame \in AnyFrame, frame.kind # "item", line' = Append(line, frame)
  PROVE  NoItems'
<1>1. /\ DOMAIN line' = DOMAIN line \union {Len(line) + 1}
      /\ \A i \in DOMAIN line : line'[i] = line[i]
      /\ line'[Len(line) + 1] = frame
  BY Appended DEF ShellTypes
<1> QED
  BY <1>1 DEF NoItems

\* Taking what is there, where nothing is there.
LEMMA NothingTaken ==
  ASSUME ShellTypes, Deadline, inbox = <<>>
  PROVE  inbox' = <<>> /\ verdict' = verdict /\ \A r \in Run : seen'[r] = seen[r]
<1> DEFINE ends == {i \in 1..Len(inbox) : inbox[i].n = 0}
           last == IF ends # {} THEN CHOOSE i \in ends : \A j \in ends : i <= j ELSE Len(inbox)
<1>1. /\ Collect(SubSeq(inbox, 1, last), ends # {})
      /\ inbox' = SubSeq(inbox, last + 1, Len(inbox))
  BY DEF Deadline
<1>2. /\ last \in 0..Len(inbox) /\ SubSeq(inbox, 1, last) \in Seq(AnyItem)
      /\ Len(SubSeq(inbox, 1, last)) = last
      /\ SubSeq(inbox, last + 1, Len(inbox)) \in Seq(AnyItem)
      /\ Len(SubSeq(inbox, last + 1, Len(inbox))) = Len(inbox) - last
  BY FirstEnd
<1>3. Len(inbox) = 0 /\ ends = {}
  BY EmptySeq
<1> HIDE DEF ends, last
<1>4. last = 0 /\ Len(inbox) - last = 0
  BY <1>2, <1>3
<1>5. SubSeq(inbox, 1, last) = <<>> /\ inbox' = <<>>
  BY <1>1, <1>2, <1>4, EmptySeq
<1>6. Collect(<<>>, FALSE)
  BY <1>1, <1>3, <1>5 DEF Collect
<1>7. <<>> \in Seq(AnyItem)
  BY EmptySeq
<1>8. Pieces(<<>>) = <<>>
  BY <1>7, PieceTypes, EmptySeq
<1>9. seen' = [seen EXCEPT ![run] = @ \o <<>>] /\ verdict' = verdict
  BY <1>6, <1>8 DEF Collect
<1>10. \A r \in Run : seen[r] \o <<>> = seen[r]
  BY ConcatEmptySeq DEF ShellTypes
<1>11. \A r \in Run : seen'[r] = seen[r]
  BY <1>9, <1>10 DEF ShellTypes
<1> QED
  BY <1>5, <1>9, <1>11

\* A shell at rest stays so until a command starts; meanwhile nothing is read.
LEMMA RestStays ==
  ASSUME ShellTypes, FlightInv, Rest, [Next]_vars, ~(TakeCommand /\ calls[Head(commands)] = "run")
  PROVE  /\ Rest' /\ emitted' = emitted
         /\ \A r \in Run : seen'[r] = seen[r] /\ (verdict'[r] = "done" => verdict[r] = "done")
<1> DEFINE Done == /\ Rest' /\ emitted' = emitted
                   /\ \A r \in Run : seen'[r] = seen[r] /\ (verdict'[r] = "done" => verdict[r] = "done")
<1>1. CASE StartRun \/ StartWait \/ StartOther \/ Kill \/ OtherAnswered \/ SeeQuiet \/ SeeExit
  BY <1>1 DEF StartRun, StartWait, StartOther, Kill, OtherAnswered, SeeQuiet, SeeExit, Rest, NoItems,
     feedVars, lineVars, actorVars, shellVars
<1>2. CASE Stopped
  <2>1. \A r \in Run : verdict'[r] = "done" => verdict[r] = "done"
    BY <1>2 DEF Stopped, ShellTypes
  <2> QED
    BY <1>2, <2>1 DEF Stopped, Rest, NoItems, lineVars, actorVars, shellVars
<1>3. CASE TakeItem
  BY <1>3 DEF TakeItem, Rest
<1>4. CASE Deadline
  <2>1. inbox' = <<>> /\ verdict' = verdict /\ \A r \in Run : seen'[r] = seen[r]
    BY <1>4, NothingTaken DEF Rest
  <2> QED
    BY <1>4, <2>1 DEF Deadline, Rest, NoItems, actorVars, shellVars
<1>5. CASE HostReads
  <2>1. /\ line' = Tail(line) /\ Head(line) = line[1] /\ 1 \in DOMAIN line /\ line[1] \in AnyFrame
        /\ \A i \in DOMAIN line' : i + 1 \in DOMAIN line /\ line'[i] = line[i + 1]
    BY <1>5, Tailed DEF HostReads, ShellTypes
  <2>2. Head(line).kind \in {"unit", "response"}
    BY <2>1 DEF Rest, NoItems, AnyFrame
  <2>3. inbox' = inbox
    BY <1>5, <2>2 DEF HostReads
  <2>4. NoItems'
    BY <2>1 DEF Rest, NoItems
  <2> QED
    BY <1>5, <2>3, <2>4 DEF HostReads, Rest, actorVars, shellVars
<1>6. CASE AnswerCancel
  <2>1. NoItems'
    <3>1. UnitFrame \in AnyFrame /\ UnitFrame.kind # "item"
      BY DEF UnitFrame, AnyFrame
    <3> QED
      BY <1>6, <3>1, NoItemMore DEF AnswerCancel, Rest
  <2> QED
    BY <1>6, <2>1 DEF AnswerCancel, Rest, hostVars, feedVars, actorVars, shellVars
<1>7. ASSUME NEW c \in Call, Answer(c) PROVE Done
  <2>1. NoItems'
    <3>1. ResponseFrame(c, result[c]) \in AnyFrame /\ ResponseFrame(c, result[c]).kind # "item"
      BY ResponseTypes
    <3> QED
      BY <1>7, <3>1, NoItemMore DEF Answer, Rest
  <2> QED
    BY <1>7, <2>1 DEF Answer, Rest, hostVars, feedVars, actorVars, shellVars
<1>8. CASE Pump \/ CancelFeed \/ Serve \/ SomeoneAsks \/ UNCHANGED vars
  BY <1>8 DEF Pump, CancelFeed, Serve, SomeoneAsks, Ask, Rest, NoItems, vars, hostVars, feedVars, lineVars,
     actorVars, shellVars
<1>9. CASE TakeCommand
  <2>1. /\ UNCHANGED <<seen, verdict, inbox, local, line, hand, events, flight, unread, emitted>>
        /\ proc' = "alive" => proc = "alive"
    BY <1>9 DEF TakeCommand, Signal, RunUnwatched, hostVars, feedVars, lineVars, actorVars, shellVars
  <2> QED
    BY <2>1 DEF Rest, NoItems
<1>10. CASE Closed
  BY <1>10 DEF Closed, Rest, NoItems, hostVars, feedVars, lineVars, shellVars
<1>11. CASE ReadPiece \/ ReadExit \/ ReadEof \/ QuietElapsed
  BY <1>11 DEF ReadPiece, ReadExit, ReadEof, QuietElapsed, FlightInv, Rest
<1>12. CASE Capture \/ Abandoned \/ FinishWait
  BY <1>12 DEF Capture, Abandoned, FinishWait, Rest, NoItems, hostVars, feedVars, lineVars, shellVars
<1>13. CASE TakeEvent \/ SendOutput \/ Reap \/ ProcessStep
  BY <1>13 DEF TakeEvent, SendOutput, Reap, ProcessStep, WritePiece, ProcessEnds, Rest
<1> QED
  BY <1>1, <1>2, <1>3, <1>4, <1>5, <1>6, <1>7, <1>8, <1>9, <1>10, <1>11, <1>12, <1>13
     DEF Next, HostStarts, HostGoesOn, WorkerWrites, ActorStep, StopShell, Interrupt, GiveUp

\* A run that was called for finds a shell at rest until its command starts.
LEMMA BeginKeeps ==
  ASSUME ShellTypes, HostInv, CallInv, FlightInv, BeginInv, PipeInv, [Next]_vars
  PROVE  BeginInv'
<1> SUFFICES ASSUME NEW c \in Call, Awaited(c)'
             PROVE  /\ run' # 0 /\ verdict'[run'] # "done" /\ Rest' /\ seen'[run'] = <<>>
                    /\ emitted'[run'] = 0
                    /\ \A d \in 1..Newest' : calls'[d] = "run" => d <= c
  BY DEF BeginInv
<1>0. c \in Nat /\ c >= 1 /\ Newest \in Nat
  BY LenProperties DEF Call, ShellTypes, Newest
<1>1. CASE StartRun
  <2>1. /\ Newest' = Newest + 1 /\ calls'[Newest + 1] = "run" /\ \A d \in 1..Newest : calls'[d] = calls[d]
        /\ Pending(c)' => Pending(c) \/ c = Newest + 1
    BY <1>1, MakeCalls DEF StartRun, Kind, taskVars
  <2>2. feed = "open" /\ ~view /\ run \in Nat /\ run' = run + 1 /\ UNCHANGED <<verdict, seen, emitted>>
    BY <1>1, RunNumbers DEF StartRun, shellVars
  <2>3. ~InPipe /\ (run # 0 => verdict[run] = "done")
    <3>1. run # 0 => run \in Run
      BY RunNumbers
    <3> QED
      BY <2>2, <3>1 DEF HostInv, InPipe, ShellTypes
  <2>4. ~Awaited(c)
    BY <2>3 DEF BeginInv
  <2>5. c = Newest + 1
    <3>1. ASSUME c # Newest + 1 PROVE FALSE
      <4>1. Pending(c) /\ c <= Newest + 1 /\ calls'[c] = "run"
        BY <2>1, <3>1 DEF Awaited
      <4>2. c \in 1..Newest
        BY <1>0, <3>1, <4>1
      <4>3. calls[c] = "run"
        BY <2>1, <4>1, <4>2
      <4> QED
        BY <1>0, <2>4, <4>1, <4>2, <4>3 DEF Awaited
    <3> QED
      BY <3>1
  <2>6. Rest' /\ emitted' = emitted
    <3>1. Rest /\ ~TakeCommand
      BY <1>1, <2>2, <2>3, <1>0, <2>1 DEF PipeInv, TakeCommand, hostVars, Newest
    <3> QED
      BY <3>1, RestStays
  <2>7. run + 1 \in Run /\ run + 1 > run /\ run + 1 # 0
    <3>1. run < MaxRuns /\ MaxRuns \in Nat
      BY <1>1, ShellAssumption DEF StartRun, ShellAssumption
    <3> QED
      BY <2>2, <3>1 DEF Run
  <2>8. verdict[run + 1] = "open" /\ seen[run + 1] = <<>> /\ emitted[run + 1] = 0
    BY <2>7 DEF HostInv
  <2>9. \A d \in 1..(Newest + 1) : d <= Newest + 1
    BY <1>0
  <2> QED
    BY <2>1, <2>2, <2>5, <2>6, <2>7, <2>8, <2>9
<1>2. CASE StartWait \/ StartOther \/ Kill
  <2>1. \E kind \in Kind \ {"run"} : \E before \in {<<>>, <<Cancel(Newest)>>} : Make(kind, before)
    <3>1. CASE StartWait
      BY <3>1 DEF StartWait, Kind
    <3>2. CASE StartOther
      BY <3>2 DEF StartOther, Kind
    <3>3. CASE Kill
      BY <3>3 DEF Kill, Kind, Dropped
    <3> QED
      BY <1>2, <3>1, <3>2, <3>3
  <2>2. UNCHANGED <<run, verdict, task, commands>>
    BY <1>2 DEF StartWait, StartOther, Kill, taskVars
  <2>3. PICK kind \in Kind \ {"run"} : \E before \in {<<>>, <<Cancel(Newest)>>} : Make(kind, before)
    BY <2>1
  <2>4. PICK before \in {<<>>, <<Cancel(Newest)>>} : Make(kind, before)
    BY <2>3
  <2>5. /\ Newest' = Newest + 1 /\ calls'[Newest + 1] = kind /\ \A d \in 1..Newest : calls'[d] = calls[d]
        /\ Pending(c)' => Pending(c) \/ c = Newest + 1
    BY <2>2, <2>4, MakeCalls
  <2>6. c \in 1..Newest
    <3>1. c <= Newest + 1 /\ c # Newest + 1
      BY <2>5 DEF Awaited
    <3> QED
      BY <1>0, <3>1
  <2>7. Awaited(c)
    BY <1>0, <2>5, <2>6 DEF Awaited
  <2>8. ~TakeCommand
    BY <1>0, <2>5 DEF TakeCommand, hostVars, Newest
  <2>9. Rest' /\ emitted' = emitted /\ \A r \in Run : seen'[r] = seen[r]
    BY <2>7, <2>8, RestStays DEF BeginInv
  <2>10. ASSUME NEW d \in 1..(Newest + 1), calls'[d] = "run" PROVE d <= c
    <3>1. d # Newest + 1
      BY <2>5, <2>10
    <3>2. d \in 1..Newest
      BY <1>0, <3>1
    <3>3. calls[d] = "run"
      BY <2>5, <2>10, <3>2
    <3> QED
      BY <2>7, <3>2, <3>3 DEF BeginInv
  <2>11. run # 0 /\ run \in Run /\ verdict[run] # "done" /\ seen[run] = <<>> /\ emitted[run] = 0
    BY <2>7, RunNumbers DEF BeginInv
  <2> QED
    BY <2>2, <2>5, <2>9, <2>10, <2>11
<1>3. CASE ~(StartRun \/ StartWait \/ StartOther \/ Kill)
  <2>1. UNCHANGED <<calls, run>>
    BY <1>3 DEF Next, HostStarts, HostGoesOn, StopShell, Interrupt, GiveUp, Stopped, OtherAnswered, TakeItem, SeeQuiet, SeeExit, Deadline,
       HostReads, CancelFeed, Serve, WorkerWrites, Pump, AnswerCancel, Answer, SomeoneAsks, Ask, ActorStep,
       TakeCommand, Closed, ReadPiece, ReadExit, Capture, ReadEof, QuietElapsed, Abandoned, TakeEvent,
       SendOutput, FinishWait, Reap, ProcessStep, WritePiece, ProcessEnds, vars, hostVars
  <2>2. Pending(c) /\ Awaited(c)
    <3>1. Pending(c)
      BY <1>3, CallKeeps DEF Awaited
    <3> QED
      BY <2>1, <3>1 DEF Awaited, Newest
  <2>3. ~(TakeCommand /\ calls[Head(commands)] = "run")
    <3> SUFFICES ASSUME TakeCommand, calls[Head(commands)] = "run" PROVE FALSE
      OBVIOUS
    <3>1. PICK e : e = Head(commands)
      OBVIOUS
    <3>2. e \in Call /\ e \in 1..Newest /\ Awaited(e) /\ c # e
      BY <3>1, CommandAwaited, TakeCalls DEF Awaited
    <3>3. e <= c /\ c <= e
      <4>1. c \in 1..Newest
        BY <1>0, <2>2 DEF Awaited
      <4>2. calls[e] = "run" /\ calls[c] = "run"
        BY <2>2, <3>2 DEF Awaited
      <4> QED
        BY <2>2, <3>2, <4>1, <4>2 DEF BeginInv
    <3> QED
      BY <1>0, <3>2, <3>3
  <2>4. run # 0 /\ run \in Run /\ verdict[run] # "done" /\ Rest /\ seen[run] = <<>> /\ emitted[run] = 0
    BY <2>2, RunNumbers DEF BeginInv
  <2>5. /\ Rest' /\ emitted' = emitted
        /\ \A r \in Run : seen'[r] = seen[r] /\ (verdict'[r] = "done" => verdict[r] = "done")
    BY <2>3, <2>4, RestStays
  <2>6. \A d \in 1..Newest' : calls'[d] = "run" => d <= c
    BY <2>1, <2>2 DEF BeginInv, Newest
  <2> QED
    BY <2>1, <2>4, <2>5, <2>6
<1> QED
  BY <1>1, <1>2, <1>3
-----------------------------------------------------------------------------
(* The way of the output.                                                  *)

\* An item frame carries an item.
LEMMA ItemOf ==
  ASSUME NEW frame \in AnyFrame, frame.kind = "item"
  PROVE  frame.item \in AnyItem /\ frame.item.n \in Nat
BY DEF AnyFrame, AnyItem

\* The place of an item that is in its place.
LEMMA InPlace ==
  ASSUME NEW item \in AnyItem, NEW k \in Nat, NEW f \in Nat, k # 0, k <= f + 1
  PROVE  /\ item.n = NthOf(k, f) => PlaceOf(item, f) = k /\ item.n <= f
         /\ PlaceOf(item, f) = k /\ item.n <= f => item.n = NthOf(k, f)
<1>1. item.n \in Nat
  BY DEF AnyItem
<1>2. CASE k <= f
  BY <1>1, <1>2 DEF NthOf, PlaceOf
<1>3. CASE ~(k <= f)
  <2>1. k = f + 1
    BY <1>3
  <2> QED
    BY <1>1, <1>3, <2>1 DEF NthOf, PlaceOf
<1> QED
  BY <1>2, <1>3

\* An empty queue carries nothing, from anywhere.
LEMMA CarriesNone == ASSUME NEW k, NEW f PROVE Carries(<<>>, k, f)
BY NoElements DEF Carries

\* The head of a queue is next, and its tail goes on behind it.
LEMMA CarriesTail ==
  ASSUME NEW q \in Seq(AnyItem), q # <<>>, NEW k \in Nat, NEW f \in Nat, Carries(q, k, f)
  PROVE  /\ Tail(q) \in Seq(AnyItem) /\ Head(q) \in AnyItem
         /\ Len(Tail(q)) = Len(q) - 1 /\ Len(q) \in Nat /\ Len(q) >= 1
         /\ Head(q).n = NthOf(k + 1, f) /\ Carries(Tail(q), k + 1, f)
<1>1. /\ Tail(q) \in Seq(AnyItem) /\ Head(q) = q[1] /\ q[1] \in AnyItem /\ 1 \in DOMAIN q
      /\ Len(Tail(q)) = Len(q) - 1
      /\ \A i \in DOMAIN Tail(q) : i \in Nat /\ i + 1 \in DOMAIN q /\ Tail(q)[i] = q[i + 1]
  BY Tailed
<1>2. Head(q).n = NthOf(k + 1, f)
  BY <1>1 DEF Carries
<1>3. ASSUME NEW i \in DOMAIN Tail(q) PROVE Tail(q)[i].n = NthOf((k + 1) + i, f)
  <2>1. Tail(q)[i].n = NthOf(k + (i + 1), f)
    BY <1>1 DEF Carries
  <2>2. k + (i + 1) = (k + 1) + i
    BY <1>1
  <2> QED
    BY <2>1, <2>2
<1>4. Len(q) \in Nat /\ Len(q) >= 1
  <2>1. Len(q) \in Nat /\ DOMAIN q = 1..Len(q)
    BY LenProperties
  <2> QED
    BY <1>1, <2>1
<1> QED
  BY <1>1, <1>2, <1>3, <1>4 DEF Carries

\* A piece more, written behind everything in the queue.
LEMMA CarriesMore ==
  ASSUME NEW q \in Seq(AnyItem), NEW k \in Nat, NEW f \in Nat, Carries(q, k, f), k + Len(q) <= f
  PROVE  Carries(q, k, f + 1)
<1> SUFFICES ASSUME NEW i \in DOMAIN q PROVE q[i].n = NthOf(k + i, f + 1)
  BY DEF Carries
<1>1. q[i].n = NthOf(k + i, f)
  BY DEF Carries
<1>2. Len(q) \in Nat /\ i \in 1..Len(q)
  BY LenProperties
<1>3. k + i <= f /\ k + i <= f + 1
  BY <1>2
<1> QED
  BY <1>1, <1>3 DEF NthOf

\* The next item is appended.
LEMMA CarriesNext ==
  ASSUME NEW q \in Seq(AnyItem), NEW item \in AnyItem, NEW k \in Nat, NEW f \in Nat,
         Carries(q, k, f), item.n = NthOf(k + Len(q) + 1, f)
  PROVE  /\ Append(q, item) \in Seq(AnyItem) /\ Len(Append(q, item)) = Len(q) + 1 /\ Len(q) \in Nat
         /\ Carries(Append(q, item), k, f)
<1>1. /\ Append(q, item) \in Seq(AnyItem) /\ DOMAIN Append(q, item) = DOMAIN q \union {Len(q) + 1}
      /\ Len(Append(q, item)) = Len(q) + 1 /\ Len(q) \in Nat
      /\ \A i \in DOMAIN q : Append(q, item)[i] = q[i]
      /\ Append(q, item)[Len(q) + 1] = item
  BY Appended
<1>2. k + (Len(q) + 1) = k + Len(q) + 1
  BY <1>1
<1> QED
  BY <1>1, <1>2 DEF Carries

\* Two queues that follow each other are one.
LEMMA CarriesBoth ==
  ASSUME NEW q \in Seq(AnyItem), NEW r \in Seq(AnyItem), NEW k \in Nat, NEW f \in Nat,
         Carries(q, k, f), Carries(r, k + Len(q), f)
  PROVE  /\ q \o r \in Seq(AnyItem) /\ Len(q \o r) = Len(q) + Len(r) /\ Carries(q \o r, k, f)
         /\ Len(q) \in Nat /\ Len(r) \in Nat
<1>1. /\ q \o r \in Seq(AnyItem) /\ Len(q \o r) = Len(q) + Len(r)
      /\ Len(q) \in Nat /\ Len(r) \in Nat /\ DOMAIN q = 1..Len(q)
      /\ DOMAIN (q \o r) = 1..(Len(q) + Len(r))
      /\ \A i \in DOMAIN q : (q \o r)[i] = q[i]
      /\ \A i \in DOMAIN (q \o r) : i \in DOMAIN q \/ (i - Len(q) \in DOMAIN r /\ i > Len(q)
                                                      /\ (q \o r)[i] = r[i - Len(q)])
  BY Joined
<1>2. ASSUME NEW i \in DOMAIN (q \o r), i \notin DOMAIN q PROVE (q \o r)[i].n = NthOf(k + i, f)
  <2>1. (q \o r)[i].n = NthOf(k + Len(q) + (i - Len(q)), f)
    BY <1>1, <1>2 DEF Carries
  <2>2. k + Len(q) + (i - Len(q)) = k + i
    BY <1>1
  <2> QED
    BY <2>1, <2>2
<1> QED
  BY <1>1, <1>2 DEF Carries

\* The line, from the host's end.
LEMMA LineTail ==
  ASSUME NEW q \in Seq(AnyFrame), q # <<>>, NEW b \in Nat, NEW c \in Nat, NEW f \in Nat,
         LineCarries(q, b, c, f), c <= f + 1
  PROVE  /\ Head(q).kind # "item" => LineCarries(Tail(q), b, c, f)
         /\ Head(q).kind = "item" => /\ LineCarries(Tail(q), b + 1, c, f)
                                     /\ b + 1 <= c /\ Head(q).item.n = NthOf(b + 1, f)
                                     /\ Head(q).item \in AnyItem
<1>1. /\ Tail(q) \in Seq(AnyFrame) /\ Head(q) = q[1] /\ q[1] \in AnyFrame /\ 1 \in DOMAIN q
      /\ \A i \in DOMAIN Tail(q) : i \in Nat /\ i + 1 \in DOMAIN q /\ i + 1 # 1 /\ Tail(q)[i] = q[i + 1]
  BY Tailed
<1>2. ASSUME NEW j \in DOMAIN q, j # 1
      PROVE  \E i \in DOMAIN Tail(q) : i + 1 = j /\ Tail(q)[i] = q[j]
  <2>1. DOMAIN q = 1..Len(q) /\ Len(q) \in Nat /\ Len(Tail(q)) = Len(q) - 1
        /\ DOMAIN Tail(q) = 1..Len(Tail(q))
    BY <1>1, LenProperties, Tailed
  <2>2. j - 1 \in DOMAIN Tail(q) /\ (j - 1) + 1 = j
    BY <1>2, <2>1
  <2> QED
    BY <1>1, <2>2
<1>3. \A i, j \in Nat : i < j => i + 1 < j + 1
  OBVIOUS
<1>4. \A i, j \in DOMAIN Tail(q) : i < j /\ Tail(q)[i].kind = "item" /\ Tail(q)[j].kind = "item" =>
        PlaceOf(Tail(q)[i].item, f) < PlaceOf(Tail(q)[j].item, f)
  BY <1>1, <1>3 DEF LineCarries
<1>5. \A i \in DOMAIN Tail(q) : Tail(q)[i].kind = "item" =>
        b < PlaceOf(Tail(q)[i].item, f) /\ PlaceOf(Tail(q)[i].item, f) <= c /\ Tail(q)[i].item.n <= f
  BY <1>1 DEF LineCarries
<1>6. CASE q[1].kind # "item"
  <2>1. ASSUME NEW k \in Nat, b < k, k <= c
        PROVE  \E i \in DOMAIN Tail(q) : Tail(q)[i].kind = "item" /\ PlaceOf(Tail(q)[i].item, f) = k
    <3>1. PICK j \in DOMAIN q : q[j].kind = "item" /\ PlaceOf(q[j].item, f) = k
      BY <2>1 DEF LineCarries
    <3> QED
      BY <1>2, <1>6, <3>1
  <2> QED
    BY <1>1, <1>4, <1>5, <1>6, <2>1 DEF LineCarries
<1>7. CASE q[1].kind = "item"
  <2>0. PICK p : p = PlaceOf(q[1].item, f)
    OBVIOUS
  <2>1. q[1].item \in AnyItem /\ q[1].item.n \in Nat /\ p \in Nat
    <3>1. q[1].item \in AnyItem /\ q[1].item.n \in Nat
      BY <1>1, <1>7, ItemOf
    <3> QED
      BY <2>0, <3>1 DEF PlaceOf
  <2>2. b < p /\ p <= c /\ q[1].item.n <= f
    BY <1>1, <1>7, <2>0 DEF LineCarries
  <2>3. ASSUME NEW j \in DOMAIN q, j # 1, q[j].kind = "item"
        PROVE  p < PlaceOf(q[j].item, f)
    <3>1. 1 < j
      <4>1. j \in Nat /\ j >= 1
        <5>1. DOMAIN q = 1..Len(q) /\ Len(q) \in Nat
          BY LenProperties
        <5> QED
          BY <5>1
      <4> QED
        BY <2>3, <4>1
    <3> QED
      BY <1>1, <1>7, <2>0, <2>3, <3>1 DEF LineCarries
  <2>4. p = b + 1
    <3>1. b < b + 1 /\ b + 1 <= c /\ b + 1 \in Nat
      BY <2>1, <2>2
    <3>2. PICK j \in DOMAIN q : q[j].kind = "item" /\ PlaceOf(q[j].item, f) = b + 1
      BY <3>1 DEF LineCarries
    <3>3. CASE j = 1
      BY <2>0, <3>2, <3>3
    <3>4. CASE j # 1
      <4>1. p < b + 1
        BY <2>3, <3>2, <3>4
      <4> QED
        BY <2>1, <2>2, <4>1
    <3> QED
      BY <3>3, <3>4
  <2>5. b + 1 <= c /\ b + 1 # 0 /\ b + 1 \in Nat /\ b + 1 <= f + 1
    BY <2>1, <2>2, <2>4
  <2>6. q[1].item.n = NthOf(b + 1, f)
    BY <2>0, <2>1, <2>2, <2>4, <2>5, InPlace
  <2>7. ASSUME NEW k \in Nat, b + 1 < k, k <= c
        PROVE  \E i \in DOMAIN Tail(q) : Tail(q)[i].kind = "item" /\ PlaceOf(Tail(q)[i].item, f) = k
    <3>1. b < k /\ k # p
      BY <2>4, <2>7
    <3>2. PICK j \in DOMAIN q : q[j].kind = "item" /\ PlaceOf(q[j].item, f) = k
      BY <2>7, <3>1 DEF LineCarries
    <3> QED
      BY <1>2, <2>0, <3>1, <3>2
  <2>8. \A i \in DOMAIN Tail(q) : Tail(q)[i].kind = "item" => b + 1 < PlaceOf(Tail(q)[i].item, f)
    BY <1>1, <2>3, <2>4
  <2> QED
    BY <1>1, <1>4, <1>5, <1>7, <2>1, <2>5, <2>6, <2>7, <2>8 DEF LineCarries
<1> QED
  BY <1>1, <1>6, <1>7

\* The line, from the worker's end.
LEMMA LineNext ==
  ASSUME NEW q \in Seq(AnyFrame), NEW frame \in AnyFrame, NEW b \in Nat, NEW c \in Nat, NEW f \in Nat,
         LineCarries(q, b, c, f), c <= f, b <= c,
         frame.kind = "item", frame.item.n = NthOf(c + 1, f)
  PROVE  LineCarries(Append(q, frame), b, c + 1, f)
<1> DEFINE r == Append(q, frame)
           m == Len(q) + 1
<1>1. /\ r \in Seq(AnyFrame) /\ DOMAIN r = DOMAIN q \union {m} /\ Len(q) \in Nat
      /\ m \notin DOMAIN q /\ DOMAIN q = 1..Len(q)
      /\ \A i \in DOMAIN q : r[i] = q[i]
      /\ r[m] = frame
  BY Appended
<1> HIDE DEF r
<1>2. PlaceOf(frame.item, f) = c + 1 /\ frame.item.n <= f
  <2>1. frame.item \in AnyItem
    BY ItemOf
  <2>2. c + 1 \in Nat /\ c + 1 # 0 /\ c + 1 <= f + 1
    OBVIOUS
  <2> QED
    BY <2>1, <2>2, InPlace
<1>3. ASSUME NEW i \in DOMAIN q, q[i].kind = "item"
      PROVE  /\ b < PlaceOf(q[i].item, f) /\ PlaceOf(q[i].item, f) <= c /\ q[i].item.n <= f
             /\ PlaceOf(q[i].item, f) < c + 1 /\ PlaceOf(q[i].item, f) <= c + 1
  <2>1. b < PlaceOf(q[i].item, f) /\ PlaceOf(q[i].item, f) <= c /\ q[i].item.n <= f
    BY <1>3 DEF LineCarries
  <2>2. PlaceOf(q[i].item, f) \in Nat
    <3>1. q[i] \in AnyFrame
      BY ElementOfSeq, <1>1
    <3>2. q[i].item.n \in Nat
      BY <1>3, <3>1, ItemOf
    <3> QED
      BY <3>2 DEF PlaceOf
  <2>3. \A p \in Nat : p <= c => p < c + 1 /\ p <= c + 1
    OBVIOUS
  <2> QED
    BY <2>1, <2>2, <2>3
<1>4. ASSUME NEW i \in DOMAIN r, NEW j \in DOMAIN r, i < j, r[i].kind = "item", r[j].kind = "item"
      PROVE  PlaceOf(r[i].item, f) < PlaceOf(r[j].item, f)
  <2>1. i \in DOMAIN q
    <3>1. i # m
      BY <1>1, <1>4
    <3> QED
      BY <1>1, <3>1
  <2>2. CASE j \in DOMAIN q
    BY <1>1, <1>4, <2>1, <2>2 DEF LineCarries
  <2>3. CASE j = m
    BY <1>1, <1>2, <1>3, <1>4, <2>1, <2>3
  <2> QED
    BY <1>1, <2>2, <2>3
<1>5. b < c + 1 /\ c + 1 <= c + 1
  OBVIOUS
<1>6. ASSUME NEW i \in DOMAIN r, r[i].kind = "item"
      PROVE  b < PlaceOf(r[i].item, f) /\ PlaceOf(r[i].item, f) <= c + 1 /\ r[i].item.n <= f
  BY <1>1, <1>2, <1>3, <1>5, <1>6
<1>7. ASSUME NEW k \in Nat, b < k, k <= c + 1
      PROVE  \E i \in DOMAIN r : r[i].kind = "item" /\ PlaceOf(r[i].item, f) = k
  <2>1. CASE k = c + 1
    BY <1>1, <1>2, <2>1
  <2>2. CASE k # c + 1
    <3>1. k <= c
      BY <1>7, <2>2
    <3>2. PICK i \in DOMAIN q : q[i].kind = "item" /\ PlaceOf(q[i].item, f) = k
      BY <1>7, <3>1 DEF LineCarries
    <3> QED
      BY <1>1, <3>2
  <2> QED
    BY <2>1, <2>2
<1>8. LineCarries(r, b, c + 1, f)
  BY <1>4, <1>6, <1>7 DEF LineCarries
<1> QED
  BY <1>8 DEF r

\* Frames of answers and cancels between the items.
LEMMA LineOther ==
  ASSUME NEW q \in Seq(AnyFrame), NEW frame \in AnyFrame, frame.kind # "item",
         NEW b, NEW c, NEW f, LineCarries(q, b, c, f)
  PROVE  LineCarries(Append(q, frame), b, c, f)
<1> DEFINE r == Append(q, frame)
<1>1. /\ DOMAIN r = DOMAIN q \union {Len(q) + 1}
      /\ \A i \in DOMAIN q : r[i] = q[i]
      /\ r[Len(q) + 1] = frame
  BY Appended
<1> HIDE DEF r
<1>2. \A i \in DOMAIN r : r[i].kind = "item" => i \in DOMAIN q /\ r[i] = q[i]
  BY <1>1
<1>3. LineCarries(r, b, c, f)
  <2>1. \A i, j \in DOMAIN r : i < j /\ r[i].kind = "item" /\ r[j].kind = "item" =>
          PlaceOf(r[i].item, f) < PlaceOf(r[j].item, f)
    BY <1>2 DEF LineCarries
  <2>2. \A i \in DOMAIN r : r[i].kind = "item" =>
          b < PlaceOf(r[i].item, f) /\ PlaceOf(r[i].item, f) <= c /\ r[i].item.n <= f
    BY <1>2 DEF LineCarries
  <2>3. \A k \in Nat : b < k /\ k <= c => \E i \in DOMAIN r : r[i].kind = "item" /\ PlaceOf(r[i].item, f) = k
    BY <1>1 DEF LineCarries
  <2> QED
    BY <2>1, <2>2, <2>3 DEF LineCarries
<1> QED
  BY <1>3 DEF r

\* A piece more, before the marker is under way.
LEMMA LineMore ==
  ASSUME NEW q \in Seq(AnyFrame), NEW b \in Nat, NEW c \in Nat, NEW f \in Nat,
         LineCarries(q, b, c, f), c <= f
  PROVE  LineCarries(q, b, c, f + 1)
<1>1. ASSUME NEW i \in DOMAIN q, q[i].kind = "item"
      PROVE  PlaceOf(q[i].item, f + 1) = PlaceOf(q[i].item, f) /\ q[i].item.n <= f + 1
  <2>1. q[i].item.n \in Nat
    <3>1. q[i] \in AnyFrame
      BY ElementOfSeq, LenProperties
    <3> QED
      BY <1>1, <3>1, ItemOf
  <2>2. PlaceOf(q[i].item, f) <= c /\ q[i].item.n <= f
    BY <1>1 DEF LineCarries
  <2>3. q[i].item.n # 0
    BY <2>2 DEF PlaceOf
  <2> QED
    BY <2>1, <2>2, <2>3 DEF PlaceOf
<1>2. \A i, j \in DOMAIN q : i < j /\ q[i].kind = "item" /\ q[j].kind = "item" =>
        PlaceOf(q[i].item, f + 1) < PlaceOf(q[j].item, f + 1)
  BY <1>1 DEF LineCarries
<1>3. \A i \in DOMAIN q : q[i].kind = "item" =>
        b < PlaceOf(q[i].item, f + 1) /\ PlaceOf(q[i].item, f + 1) <= c /\ q[i].item.n <= f + 1
  BY <1>1 DEF LineCarries
<1>4. \A k \in Nat : b < k /\ k <= c => \E i \in DOMAIN q : q[i].kind = "item" /\ PlaceOf(q[i].item, f + 1) = k
  BY <1>1 DEF LineCarries
<1> QED
  BY <1>2, <1>3, <1>4 DEF LineCarries
-----------------------------------------------------------------------------
(* The output of the run that is watched.                                  *)

\* The numbers of the pipe.
LEMMA PipeNumbers ==
  ASSUME ShellTypes, InPipe, NEW c \in Nat, NEW f \in Nat, Piped(c, f)
  PROVE  /\ run \in Run /\ run # 0 /\ seen[run] \in Seq(Nat) /\ emitted[run] \in Nat /\ unread \in Nat
         /\ Taken \in Nat /\ Arrived \in Nat /\ Len(inbox) \in Nat
         /\ Len(local) \in Nat /\ Len(hand) \in Nat /\ Len(events) \in Nat /\ Shipped(c) \in Nat
         /\ Arrived <= c /\ c <= Shipped(c) /\ Shipped(c) <= f + 1 /\ c <= f + 1
<1>1. run \in Run /\ run # 0 /\ seen[run] \in Seq(Nat) /\ emitted[run] \in Nat /\ unread \in Nat
  BY RunNumbers DEF InPipe, ShellTypes
<1>2. /\ Taken \in Nat /\ Len(inbox) \in Nat
      /\ Len(local) \in Nat /\ Len(hand) \in Nat /\ Len(events) \in Nat
  BY <1>1, LenProperties DEF ShellTypes, Taken
<1>3. Arrived \in Nat /\ Shipped(c) \in Nat /\ c <= Shipped(c)
  BY <1>2 DEF Arrived, Shipped
<1>4. Arrived <= c /\ (Shipped(c) = f \/ Shipped(c) = f + 1)
  BY DEF Piped
<1>5. Shipped(c) <= f + 1
  BY <1>4
<1> QED
  BY <1>1, <1>2, <1>3, <1>4, <1>5

\* Steps of the shell and of the command, as far as the way of the output feels them.
LEMMA ShellMoves ==
  ASSUME NEW c \in Nat, NEW f \in Nat, Piped(c, f),
         UNCHANGED <<run, seen, inbox, line, local, hand, events>>,
         Shipped(c) = f /\ sink' => emitted'[run] = f + unread',
         Shipped(c) = f + 1 => emitted'[run] = f /\ unread' = 0 /\ flight' = 0 /\ proc' # "alive"
  PROVE  Piped(c, f)'
BY DEF Piped, Taken, Arrived, Shipped

\* Nothing is under way before the first piece.
LEMMA EmptyPipe ==
  ASSUME NoItems, inbox = <<>>, local = <<>>, hand = <<>>, events = <<>>,
         seen[run] = <<>>, emitted[run] = 0, unread = 0
  PROVE  Piped(0, 0)
<1>1. Len(<<>>) = 0
  BY EmptySeq
<1>2. Taken = 0 /\ Arrived = 0 /\ Shipped(0) = 0
  BY <1>1 DEF Taken, Arrived, Shipped
<1>3. LineCarries(line, 0, 0, 0)
  <2>1. \A k \in Nat : ~(0 < k /\ k <= 0)
    OBVIOUS
  <2> QED
    BY <2>1 DEF NoItems, LineCarries
<1>4. \A i \in DOMAIN seen[run] : seen[run][i] = i
  BY NoElements
<1> QED
  BY <1>1, <1>2, <1>3, <1>4, CarriesNone DEF Piped

\* The marker is the last: where it is read nothing is left.
LEMMA AllThere ==
  ASSUME NEW taken \in Nat, NEW k \in Nat, NEW rest \in Nat, NEW c \in Nat, NEW n \in Nat, NEW f \in Nat,
         taken + (k + rest) <= c, c <= n, n <= f + 1, taken + k > f
  PROVE  taken + k = f + 1 /\ rest = 0 /\ c = f + 1 /\ taken + (k + rest) = c /\ n = f + 1
OBVIOUS

\* Numbers that go on where others end.
LEMMA CountedOn ==
  ASSUME NEW x \in Seq(Nat), NEW y \in Seq(Nat), \A i \in DOMAIN x : x[i] = i,
         \A i \in DOMAIN y : y[i] = Len(x) + i
  PROVE  /\ x \o y \in Seq(Nat) /\ Len(x \o y) = Len(x) + Len(y)
         /\ x \o y = [i \in 1..(Len(x) + Len(y)) |-> i]
         /\ \A i \in DOMAIN (x \o y) : (x \o y)[i] = i
<1>1. /\ x \o y \in Seq(Nat) /\ Len(x \o y) = Len(x) + Len(y)
      /\ Len(x) \in Nat /\ Len(y) \in Nat /\ DOMAIN x = 1..Len(x)
      /\ DOMAIN (x \o y) = 1..(Len(x) + Len(y))
      /\ \A i \in DOMAIN x : (x \o y)[i] = x[i]
      /\ \A i \in DOMAIN (x \o y) : i \in DOMAIN x \/ (i - Len(x) \in DOMAIN y /\ i > Len(x)
                                                      /\ (x \o y)[i] = y[i - Len(x)])
  BY Joined
<1>2. ASSUME NEW i \in DOMAIN (x \o y) PROVE (x \o y)[i] = i
  <2>1. CASE i \in DOMAIN x
    BY <1>1, <2>1
  <2>2. CASE i \notin DOMAIN x
    <3>1. (x \o y)[i] = Len(x) + (i - Len(x))
      BY <1>1, <2>2
    <3>2. i \in 1..(Len(x) + Len(y))
      BY <1>1
    <3>3. Len(x) + (i - Len(x)) = i
      BY <1>1, <3>2
    <3> QED
      BY <3>1, <3>3
  <2> QED
    BY <2>1, <2>2
<1>3. \A z \in Seq(Nat) : z = [i \in DOMAIN z |-> z[i]]
  OBVIOUS
<1>4. x \o y = [i \in 1..(Len(x) + Len(y)) |-> i]
  <2>1. PICK z \in Seq(Nat) : z = x \o y
    BY <1>1
  <2>2. z = [i \in 1..(Len(x) + Len(y)) |-> z[i]]
    BY <1>1, <1>3, <2>1
  <2>3. \A i \in 1..(Len(x) + Len(y)) : z[i] = i
    BY <1>1, <1>2, <2>1
  <2>4. z = [i \in 1..(Len(x) + Len(y)) |-> i]
    BY <2>2, <2>3
  <2> QED
    BY <2>1, <2>4
<1> QED
  BY <1>1, <1>2, <1>4

\* The host reads some of its inbox, the last of it the marker if the run is done: it has
\* then read all there is.
LEMMA Reading ==
  ASSUME ShellTypes, InPipe, NEW c \in Nat, NEW f \in Nat, Piped(c, f),
         NEW items \in Seq(AnyItem), NEW done \in BOOLEAN, Collect(items, done),
         inbox' \in Seq(AnyItem), Len(inbox) = Len(items) + Len(inbox'),
         \A i \in 1..Len(items) : inbox[i] = items[i],
         \A i \in 1..Len(inbox') : inbox'[i] = inbox[Len(items) + i],
         done => items # <<>> /\ items[Len(items)].n = 0,
         \A i \in 1..Len(items) : items[i].n = 0 => done /\ i = Len(items),
         UNCHANGED <<run, line, local, hand, events, sink, flight, proc, emitted, unread>>
  PROVE  /\ done => /\ Rest' /\ verdict' = [verdict EXCEPT ![run] = "done"]
                    /\ seen'[run] = [i \in 1..emitted[run] |-> i]
         /\ ~done => Piped(c, f)' /\ verdict' = verdict
         /\ \A r \in Run : r # run => seen'[r] = seen[r]
<1> DEFINE k == Len(items)
           s == Output(items, done)
           t == seen[run] \o Pieces(s)
<1>1. /\ run \in Run /\ seen[run] \in Seq(Nat) /\ emitted[run] \in Nat /\ unread \in Nat
      /\ Taken \in Nat /\ Arrived \in Nat /\ Len(inbox) \in Nat
      /\ Len(local) \in Nat /\ Len(hand) \in Nat /\ Len(events) \in Nat /\ Shipped(c) \in Nat
      /\ Arrived <= c /\ c <= Shipped(c) /\ Shipped(c) <= f + 1
  BY PipeNumbers
<1>2. k \in Nat /\ Len(inbox') \in Nat /\ Taken <= f /\ Arrived = Taken + Len(inbox)
  BY LenProperties DEF Piped, Arrived
<1>3. /\ s \in Seq(AnyItem) /\ seen' = [seen EXCEPT ![run] = @ \o Pieces(s)]
      /\ \A i \in DOMAIN s : s[i] = items[i] /\ i \in DOMAIN items
      /\ Len(s) = IF done THEN k - 1 ELSE k
  BY CollectTypes
<1> HIDE DEF s
<1>4. /\ Pieces(s) \in Seq(Nat) /\ Len(Pieces(s)) = Len(s) /\ DOMAIN Pieces(s) = DOMAIN s
      /\ \A i \in DOMAIN s : Pieces(s)[i] = s[i].n
  BY <1>3, PieceTypes
<1>5. \A r \in Run : seen'[r] = IF r = run THEN t ELSE seen[r]
  BY <1>3 DEF ShellTypes
<1>6. ASSUME NEW i \in 1..k PROVE items[i].n = NthOf(Taken + i, f) /\ i \in Nat
  <2>1. DOMAIN inbox = 1..Len(inbox)
    BY LenProperties DEF ShellTypes
  <2>2. i \in DOMAIN inbox
    BY <1>1, <1>2, <2>1
  <2> QED
    BY <1>2, <2>2 DEF Piped, Carries
<1>7. DOMAIN items = 1..k /\ DOMAIN s = 1..Len(s) /\ Len(s) \in Nat
  BY <1>3, LenProperties
<1>8. ASSUME NEW i \in DOMAIN s PROVE s[i].n = Taken + i /\ Taken + i <= f
  <2>1. i \in 1..k /\ ~(done /\ i = k)
    <3>1. CASE done
      <4>1. i \in 1..(k - 1)
        BY <1>3, <1>7, <3>1
      <4> HIDE DEF k
      <4> QED
        BY <1>2, <4>1
    <3>2. CASE ~done
      BY <1>3, <1>7, <3>2
    <3> QED
      BY <3>1, <3>2
  <2>2. items[i].n # 0
    BY <2>1
  <2> QED
    BY <1>3, <1>6, <2>1, <2>2 DEF NthOf
<1>9. /\ t \in Seq(Nat) /\ Len(t) = Taken + Len(s) /\ t = [i \in 1..(Taken + Len(s)) |-> i]
      /\ \A i \in DOMAIN t : t[i] = i
  <2>1. \A i \in DOMAIN seen[run] : seen[run][i] = i
    BY DEF Piped
  <2>2. \A i \in DOMAIN Pieces(s) : Pieces(s)[i] = Len(seen[run]) + i
    BY <1>4, <1>8 DEF Taken
  <2>3. PICK x, y : x = seen[run] /\ y = Pieces(s)
    OBVIOUS
  <2>4. /\ x \o y \in Seq(Nat) /\ Len(x \o y) = Len(x) + Len(y)
        /\ x \o y = [i \in 1..(Len(x) + Len(y)) |-> i]
        /\ \A i \in DOMAIN (x \o y) : (x \o y)[i] = i
    BY <1>1, <1>4, <2>1, <2>2, <2>3, CountedOn
  <2>5. t = x \o y /\ Len(x) = Taken /\ Len(y) = Len(s)
    BY <1>4, <2>3 DEF Taken
  <2> HIDE DEF t
  <2> QED
    BY <2>4, <2>5
<1> HIDE DEF t, k
<1>10. CASE done
  <2>1. k \in 1..k /\ items[k].n = 0
    <3>1. k # 0 /\ items[k].n = 0
      BY <1>10, EmptySeq DEF k
    <3> QED
      BY <1>2, <3>1
  <2>2. Taken + k > f
    <3>1. NthOf(Taken + k, f) = 0
      BY <1>6, <2>1
    <3>2. Taken + k # 0
      BY <1>1, <1>2, <2>1
    <3> QED
      BY <1>1, <1>2, <3>1, <3>2 DEF NthOf
  <2>3. /\ Taken + k = f + 1 /\ Len(inbox') = 0 /\ c = f + 1 /\ Arrived = c /\ Shipped(c) = f + 1
    <3>1. Len(inbox) = k + Len(inbox')
      BY DEF k
    <3>2. Arrived = Taken + (k + Len(inbox'))
      BY <1>2, <3>1
    <3>3. /\ Taken \in Nat /\ k \in Nat /\ Len(inbox') \in Nat /\ Shipped(c) \in Nat
          /\ Taken + (k + Len(inbox')) <= c /\ c <= Shipped(c) /\ Shipped(c) <= f + 1 /\ Taken + k > f
      BY <1>1, <1>2, <2>2, <3>2
    <3>4. /\ Taken + k = f + 1 /\ Len(inbox') = 0 /\ c = f + 1 /\ Taken + (k + Len(inbox')) = c
          /\ Shipped(c) = f + 1
      BY <3>3, AllThere
    <3> QED
      BY <3>2, <3>4
  <2>4. Len(local) = 0 /\ Len(hand) = 0 /\ Len(events) = 0
    <3>1. Shipped(c) = c + Len(local) + Len(hand) + Len(events)
      BY DEF Shipped
    <3> QED
      BY <1>1, <2>3, <3>1
  <2>5. local = <<>> /\ hand = <<>> /\ events = <<>> /\ inbox' = <<>>
    BY <2>3, <2>4, EmptySeq DEF ShellTypes
  <2>6. NoItems
    <3>1. LineCarries(line, c, c, f)
      BY <2>3 DEF Piped
    <3>2. ASSUME NEW i \in DOMAIN line, line[i].kind = "item" PROVE FALSE
      <4>1. c < PlaceOf(line[i].item, f) /\ PlaceOf(line[i].item, f) <= c
        BY <3>1, <3>2 DEF LineCarries
      <4>2. PlaceOf(line[i].item, f) \in Nat
        <5>1. line[i] \in AnyFrame
          BY ElementOfSeq, LenProperties DEF ShellTypes
        <5>2. line[i].item.n \in Nat
          BY <3>2, <5>1, ItemOf
        <5> QED
          BY <5>2 DEF PlaceOf
      <4> QED
        BY <4>1, <4>2
    <3> QED
      BY <3>2 DEF NoItems
  <2>7. emitted[run] = f /\ unread = 0 /\ flight = 0 /\ proc # "alive"
    BY <2>3 DEF Piped
  <2>8. Rest'
    BY <2>5, <2>6, <2>7 DEF Rest, NoItems
  <2>9. Len(s) = k - 1
    BY <1>3, <1>10 DEF k
  <2>10. Taken + Len(s) = f
    BY <1>1, <1>2, <2>3, <2>9
  <2>11. t = [i \in 1..emitted[run] |-> i]
    BY <1>9, <2>7, <2>10
  <2>12. verdict' = [verdict EXCEPT ![run] = "done"]
    BY <1>10 DEF Collect
  <2> QED
    BY <1>1, <1>5, <1>10, <2>8, <2>11, <2>12
<1>11. CASE ~done
  <2>1. Len(s) = k
    BY <1>3, <1>11 DEF k
  <2>2. Taken' = Taken + k /\ Arrived' = Arrived
    <3>1. seen'[run] = t
      BY <1>1, <1>5
    <3>2. Taken' = Taken + k
      BY <1>9, <2>1, <3>1 DEF Taken
    <3>3. Arrived' = Taken + k + Len(inbox')
      BY <3>2 DEF Arrived
    <3>4. Len(inbox) = k + Len(inbox')
      BY DEF k
    <3> QED
      BY <1>1, <1>2, <3>2, <3>3, <3>4
  <2>3. Taken + k <= f
    <3>1. CASE k = 0
      BY <1>1, <1>2, <3>1
    <3>2. CASE k # 0
      <4>1. k \in DOMAIN s
        BY <1>2, <1>7, <2>1, <3>2
      <4> QED
        BY <1>8, <4>1
    <3> QED
      BY <3>1, <3>2
  <2>4. Carries(inbox', Taken + k, f)
    <3>1. ASSUME NEW i \in DOMAIN inbox' PROVE inbox'[i].n = NthOf((Taken + k) + i, f)
      <4>1. DOMAIN inbox' = 1..Len(inbox') /\ DOMAIN inbox = 1..Len(inbox) /\ Len(inbox) = k + Len(inbox')
        BY LenProperties DEF ShellTypes, k
      <4>2. k + i \in DOMAIN inbox /\ inbox'[i] = inbox[k + i]
        <5>1. i \in 1..Len(inbox') /\ k + i \in 1..Len(inbox)
          BY <1>2, <4>1
        <5> QED
          BY <4>1, <5>1 DEF k
      <4>3. inbox[k + i].n = NthOf(Taken + (k + i), f)
        BY <4>2 DEF Piped, Carries
      <4>4. Taken + (k + i) = (Taken + k) + i
        BY <1>1, <1>2, <4>1
      <4> QED
        BY <4>2, <4>3, <4>4
    <3> QED
      BY <3>1 DEF Carries
  <2>5. \A i \in DOMAIN seen'[run'] : seen'[run'][i] = i
    BY <1>1, <1>5, <1>9
  <2>6. Shipped(c)' = Shipped(c)
    BY DEF Shipped
  <2>7. Piped(c, f)'
    BY <2>2, <2>3, <2>4, <2>5, <2>6 DEF Piped
  <2>8. verdict' = verdict
    BY <1>11 DEF Collect
  <2> QED
    BY <1>5, <1>11, <2>7, <2>8
<1> QED
  BY <1>10, <1>11
\* What the host takes out of its inbox, one item or all up to a marker.
LEMMA HostTakes ==
  ASSUME ShellTypes, HostInv, PipeInv, TakeItem \/ Deadline
  PROVE  /\ InPipe /\ feed = "open" /\ run \in Run /\ PipeInv'
         /\ \/ verdict' = verdict
            \/ /\ verdict' = [verdict EXCEPT ![run] = "done"]
               /\ seen'[run] = [i \in 1..emitted[run] |-> i] /\ proc # "alive"
         /\ \A r \in Run : r # run => seen'[r] = seen[r]
<1>1. InPipe /\ feed = "open" /\ run \in Run
  <2>1. op \in {"waiting", "draining"}
    BY DEF TakeItem, Deadline
  <2>2. InPipe /\ feed = "open"
    BY <2>1 DEF HostInv, InPipe, ShellTypes
  <2> QED
    BY <2>2, RunNumbers DEF InPipe
<1>2. \E c : \E f \in Nat : c \in Nat /\ Piped(c, f)
  BY <1>1 DEF PipeInv
<1>3. PICK c : \E f \in Nat : c \in Nat /\ Piped(c, f)
  BY <1>2
<1>4. PICK f \in Nat : c \in Nat /\ Piped(c, f)
  BY <1>3
<1>5. \E items \in Seq(AnyItem) : \E done \in BOOLEAN :
        /\ Collect(items, done) /\ inbox' \in Seq(AnyItem) /\ Len(inbox) = Len(items) + Len(inbox')
        /\ \A i \in 1..Len(items) : inbox[i] = items[i]
        /\ \A i \in 1..Len(inbox') : inbox'[i] = inbox[Len(items) + i]
        /\ done => items # <<>> /\ items[Len(items)].n = 0
        /\ \A i \in 1..Len(items) : items[i].n = 0 => done /\ i = Len(items)
  <2>1. CASE TakeItem
    <3>1. PICK item, done : item = Head(inbox) /\ done = (Head(inbox).n = 0)
      OBVIOUS
    <3>2. /\ inbox' = Tail(inbox) /\ inbox' \in Seq(AnyItem) /\ item = inbox[1] /\ item \in AnyItem
          /\ Len(inbox') = Len(inbox) - 1 /\ Len(inbox) \in Nat
          /\ \A i \in 1..Len(inbox') : inbox'[i] = inbox[i + 1]
      <4>1. inbox # <<>> /\ inbox' = Tail(inbox) /\ inbox \in Seq(AnyItem)
        BY <2>1 DEF TakeItem, ShellTypes
      <4>2. /\ inbox' \in Seq(AnyItem) /\ Head(inbox) = inbox[1] /\ inbox[1] \in AnyItem
            /\ Len(inbox') = Len(inbox) - 1 /\ Len(inbox) \in Nat
        BY <4>1, Tailed, LenProperties
      <4>3. \A i \in 1..Len(inbox') : inbox'[i] = inbox[i + 1]
        BY <4>1, <4>2, Tailed, LenProperties
      <4> QED
        BY <3>1, <4>1, <4>2, <4>3
    <3>3. <<item>> \in Seq(AnyItem) /\ Len(<<item>>) = 1 /\ <<item>>[1] = item /\ <<item>> # <<>>
      BY <3>2, Single, NoElements
    <3>4. Collect(<<item>>, done) /\ done \in BOOLEAN
      BY <2>1, <3>1 DEF TakeItem
    <3>5. /\ Len(inbox) = 1 + Len(inbox')
          /\ \A i \in 1..1 : i = 1
          /\ \A i \in 1..Len(inbox') : i + 1 = 1 + i
      BY <3>2
    <3>6. (done => item.n = 0) /\ (item.n = 0 => done)
      BY <3>1
    <3>7. /\ \A i \in 1..Len(<<item>>) : inbox[i] = <<item>>[i]
          /\ \A i \in 1..Len(inbox') : inbox'[i] = inbox[Len(<<item>>) + i]
          /\ \A i \in 1..Len(<<item>>) : <<item>>[i].n = 0 => done /\ i = Len(<<item>>)
      BY <3>2, <3>3, <3>5, <3>6
    <3>8. done => <<item>> # <<>> /\ <<item>>[Len(<<item>>)].n = 0
      BY <3>3, <3>6
    <3>9. PICK items : items = <<item>>
      OBVIOUS
    <3> QED
      BY <3>2, <3>3, <3>4, <3>5, <3>7, <3>8, <3>9
  <2>2. CASE Deadline
    <3> DEFINE ends == {i \in 1..Len(inbox) : inbox[i].n = 0}
               last == IF ends # {} THEN CHOOSE i \in ends : \A j \in ends : i <= j ELSE Len(inbox)
    <3>1. /\ last \in 0..Len(inbox) /\ Len(inbox) \in Nat
          /\ ends # {} => last \in ends /\ \A j \in ends : last <= j
          /\ SubSeq(inbox, 1, last) \in Seq(AnyItem) /\ Len(SubSeq(inbox, 1, last)) = last
          /\ \A i \in 1..last : SubSeq(inbox, 1, last)[i] = inbox[i]
          /\ SubSeq(inbox, last + 1, Len(inbox)) \in Seq(AnyItem)
          /\ Len(SubSeq(inbox, last + 1, Len(inbox))) = Len(inbox) - last
          /\ \A i \in 1..(Len(inbox) - last) : SubSeq(inbox, last + 1, Len(inbox))[i] = inbox[last + i]
      BY FirstEnd
    <3>2. /\ Collect(SubSeq(inbox, 1, last), ends # {})
          /\ inbox' = SubSeq(inbox, last + 1, Len(inbox))
      BY <2>2 DEF Deadline
    <3>3. \A i \in 1..Len(inbox) : inbox[i].n = 0 => i \in ends
      OBVIOUS
    <3>4. \A i \in ends : inbox[i].n = 0 /\ i \in 1..Len(inbox)
      OBVIOUS
    <3> HIDE DEF ends, last
    <3>5. PICK items, done : items = SubSeq(inbox, 1, last) /\ done = (ends # {})
      OBVIOUS
    <3>6. Collect(items, done) /\ done \in BOOLEAN /\ items \in Seq(AnyItem) /\ Len(items) = last
      BY <3>1, <3>2, <3>5
    <3>7. inbox' \in Seq(AnyItem) /\ Len(inbox') = Len(inbox) - last
      BY <3>1, <3>2
    <3>8. Len(inbox) = Len(items) + Len(inbox')
      BY <3>1, <3>6, <3>7
    <3>9. /\ \A i \in 1..Len(items) : inbox[i] = items[i]
          /\ \A i \in 1..Len(inbox') : inbox'[i] = inbox[Len(items) + i]
      BY <3>1, <3>2, <3>5, <3>6, <3>7
    <3>10. ASSUME done PROVE items # <<>> /\ items[Len(items)].n = 0
      <4>1. last \in ends
        BY <3>1, <3>5, <3>10
      <4>2. inbox[last].n = 0 /\ last \in 1..last
        BY <3>1, <3>4, <4>1
      <4>3. items[last] = inbox[last]
        BY <3>6, <3>9, <4>2
      <4>4. Len(items) # 0
        BY <3>6, <4>2
      <4> QED
        BY <3>6, <4>2, <4>3, <4>4, EmptySeq
    <3>11. ASSUME NEW i \in 1..Len(items), items[i].n = 0 PROVE done /\ i = Len(items)
      <4>1. i \in 1..Len(inbox) /\ i <= last
        BY <3>1, <3>6
      <4>2. inbox[i].n = 0
        BY <3>9, <3>11
      <4>3. i \in ends
        BY <3>3, <4>1, <4>2
      <4>4. last <= i
        BY <3>1, <4>3
      <4>5. i = last
        BY <3>1, <4>1, <4>4
      <4> QED
        BY <3>5, <3>6, <4>3, <4>5
    <3> QED
      BY <3>6, <3>7, <3>8, <3>9, <3>10, <3>11
  <2> QED
    BY <2>1, <2>2
<1>6. PICK items \in Seq(AnyItem) : \E done \in BOOLEAN :
        /\ Collect(items, done) /\ inbox' \in Seq(AnyItem) /\ Len(inbox) = Len(items) + Len(inbox')
        /\ \A i \in 1..Len(items) : inbox[i] = items[i]
        /\ \A i \in 1..Len(inbox') : inbox'[i] = inbox[Len(items) + i]
        /\ done => items # <<>> /\ items[Len(items)].n = 0
        /\ \A i \in 1..Len(items) : items[i].n = 0 => done /\ i = Len(items)
  BY <1>5
<1>7. PICK done \in BOOLEAN :
        /\ Collect(items, done) /\ inbox' \in Seq(AnyItem) /\ Len(inbox) = Len(items) + Len(inbox')
        /\ \A i \in 1..Len(items) : inbox[i] = items[i]
        /\ \A i \in 1..Len(inbox') : inbox'[i] = inbox[Len(items) + i]
        /\ done => items # <<>> /\ items[Len(items)].n = 0
        /\ \A i \in 1..Len(items) : items[i].n = 0 => done /\ i = Len(items)
  BY <1>6
<1>8. UNCHANGED <<feed, run, line, local, hand, events, sink, flight, proc, emitted, unread>>
  BY DEF TakeItem, Deadline, actorVars, shellVars
<1>9. /\ done => /\ Rest' /\ verdict' = [verdict EXCEPT ![run] = "done"]
                 /\ seen'[run] = [i \in 1..emitted[run] |-> i]
      /\ ~done => Piped(c, f)' /\ verdict' = verdict
      /\ \A r \in Run : r # run => seen'[r] = seen[r]
  BY <1>1, <1>3, <1>4, <1>7, <1>8, Reading
<1>10. CASE done
  <2>1. Rest' /\ verdict' = [verdict EXCEPT ![run] = "done"] /\ seen'[run] = [i \in 1..emitted[run] |-> i]
    BY <1>9, <1>10
  <2>2. ~InPipe' /\ proc # "alive"
    BY <1>1, <1>8, <2>1 DEF InPipe, ShellTypes, Rest
  <2> QED
    BY <1>1, <1>9, <2>1, <2>2 DEF PipeInv
<1>11. CASE ~done
  <2>1. Piped(c, f)' /\ verdict' = verdict
    BY <1>9, <1>11
  <2>2. InPipe'
    BY <1>1, <1>8, <2>1 DEF InPipe
  <2> QED
    BY <1>1, <1>4, <1>9, <2>1, <2>2 DEF PipeInv
<1> QED
  BY <1>10, <1>11

\* While a run is watched, its output stays on the way.
LEMMA PipeHost ==
  ASSUME ShellTypes, InPipe, feed = "open", NEW c \in Nat, NEW f \in Nat, Piped(c, f), HostReads
  PROVE  Piped(c, f)'
<1>1. /\ Taken \in Nat /\ Arrived \in Nat /\ c <= f + 1 /\ Len(inbox) \in Nat /\ Arrived <= c
  BY PipeNumbers
<1>2. line \in Seq(AnyFrame) /\ line # <<>> /\ line' = Tail(line) /\ inbox \in Seq(AnyItem)
  BY DEF HostReads, ShellTypes
<1>3. /\ Head(line).kind # "item" => LineCarries(Tail(line), Arrived, c, f)
      /\ Head(line).kind = "item" => /\ LineCarries(Tail(line), Arrived + 1, c, f)
                                     /\ Arrived + 1 <= c /\ Head(line).item.n = NthOf(Arrived + 1, f)
                                     /\ Head(line).item \in AnyItem
  BY <1>1, <1>2, LineTail DEF Piped
<1>4. UNCHANGED <<run, seen, local, hand, events, sink, flight, proc, emitted, unread>>
  BY DEF HostReads, actorVars, shellVars
<1>5. Taken' = Taken /\ Shipped(c)' = Shipped(c)
  BY <1>4 DEF Taken, Shipped
<1>6. CASE Head(line).kind # "item"
  <2>1. Head(line) \in AnyFrame
    BY <1>2, Tailed
  <2>2. Head(line).kind \in {"unit", "response"}
    BY <1>6, <2>1 DEF AnyFrame
  <2>3. inbox' = inbox
    BY <2>2 DEF HostReads
  <2>4. Arrived' = Arrived
    BY <1>5, <2>3 DEF Arrived
  <2> QED
    BY <1>2, <1>3, <1>4, <1>5, <1>6, <2>3, <2>4 DEF Piped
<1>7. CASE Head(line).kind = "item"
  <2>1. inbox' = Append(inbox, Head(line).item)
    BY <1>7 DEF HostReads, RoomInInbox
  <2>2. Taken + Len(inbox) + 1 = Arrived + 1
    BY DEF Arrived
  <2>3. Carries(inbox', Taken, f) /\ Len(inbox') = Len(inbox) + 1
    BY <1>1, <1>2, <1>3, <1>7, <2>1, <2>2, CarriesNext DEF Piped
  <2>4. Arrived' = Arrived + 1
    BY <1>1, <1>5, <2>3 DEF Arrived
  <2> QED
    BY <1>2, <1>3, <1>4, <1>5, <1>7, <2>3, <2>4 DEF Piped
<1> QED
  BY <1>6, <1>7

\* The pump moves the next item from the local channel to the line.
LEMMA PipePump ==
  ASSUME ShellTypes, InPipe, NEW c \in Nat, NEW f \in Nat, Piped(c, f), Pump
  PROVE  Piped(c + 1, f)'
<1>1. /\ Taken \in Nat /\ Arrived \in Nat /\ Arrived <= c /\ c <= f + 1
      /\ Len(local) \in Nat /\ Len(hand) \in Nat /\ Len(events) \in Nat /\ Shipped(c) \in Nat
      /\ Shipped(c) <= f + 1
  BY PipeNumbers
<1>2. local \in Seq(AnyItem) /\ local # <<>> /\ line \in Seq(AnyFrame) /\ local' = Tail(local)
      /\ line' = Append(line, ItemFrame(Head(local)))
  BY DEF Pump, ShellTypes
<1>3. /\ Head(local) \in AnyItem /\ Len(local') = Len(local) - 1 /\ Len(local) >= 1
      /\ Head(local).n = NthOf(c + 1, f) /\ Carries(local', c + 1, f)
  BY <1>2, CarriesTail DEF Piped
<1>4. c <= f
  <2>1. c + Len(local) <= Shipped(c)
    BY <1>1 DEF Shipped
  <2> QED
    BY <1>1, <1>3, <2>1
<1>5. LineCarries(line', Arrived, c + 1, f)
  <2>1. /\ ItemFrame(Head(local)) \in AnyFrame /\ ItemFrame(Head(local)).kind = "item"
        /\ ItemFrame(Head(local)).item = Head(local)
    BY <1>3 DEF ItemFrame, AnyFrame
  <2> QED
    BY <1>1, <1>2, <1>3, <1>4, <2>1, LineNext DEF Piped
<1>6. UNCHANGED <<run, seen, inbox, hand, events, sink, flight, proc, emitted, unread>>
  BY DEF Pump, hostVars, actorVars, shellVars
<1>7. Taken' = Taken /\ Arrived' = Arrived
  BY <1>6 DEF Taken, Arrived
<1>8. (c + 1) + Len(local') = c + Len(local)
  BY <1>1, <1>3
<1>9. Shipped(c + 1)' = Shipped(c)
  BY <1>6, <1>8 DEF Shipped
<1>10. Arrived <= c + 1
  BY <1>1
<1> QED
  BY <1>3, <1>5, <1>6, <1>7, <1>8, <1>9, <1>10 DEF Piped

\* Answers to calls and cancels pass between the items.
LEMMA PipeFrames ==
  ASSUME ShellTypes, NEW c \in Nat, NEW f \in Nat, Piped(c, f),
         AnswerCancel \/ \E d \in Call : Answer(d)
  PROVE  Piped(c, f)'
<1>1. \E frame \in AnyFrame : frame.kind # "item" /\ line' = Append(line, frame)
  <2>1. CASE AnswerCancel
    <3>1. UnitFrame \in AnyFrame /\ UnitFrame.kind # "item"
      BY DEF UnitFrame, AnyFrame
    <3> QED
      BY <2>1, <3>1 DEF AnswerCancel
  <2>2. ASSUME NEW d \in Call, Answer(d)
        PROVE  \E frame \in AnyFrame : frame.kind # "item" /\ line' = Append(line, frame)
    BY <2>2, ResponseTypes DEF Answer
  <2> QED
    BY <2>1, <2>2
<1>2. PICK frame \in AnyFrame : frame.kind # "item" /\ line' = Append(line, frame)
  BY <1>1
<1>3. UNCHANGED <<run, seen, inbox, local, hand, events, sink, flight, proc, emitted, unread>>
  BY DEF AnswerCancel, Answer, hostVars, feedVars, actorVars, shellVars
<1>4. LineCarries(line', Arrived, c, f)
  BY <1>2, LineOther DEF Piped, ShellTypes
<1> QED
  BY <1>3, <1>4 DEF Piped, Taken, Arrived, Shipped

\* The actor reads the next piece, or the marker behind the last one.
LEMMA PipeRead ==
  ASSUME ShellTypes, InPipe, FlightInv, NEW c \in Nat, NEW f \in Nat, Piped(c, f), ReadPiece \/ ReadExit
  PROVE  \E g \in Nat : Piped(c, g)'
<1>1. /\ run \in Run /\ run # 0 /\ seen[run] \in Seq(Nat) /\ emitted[run] \in Nat /\ unread \in Nat
      /\ Taken \in Nat /\ Arrived \in Nat /\ Len(inbox) \in Nat
      /\ Len(local) \in Nat /\ Len(hand) \in Nat /\ Len(events) \in Nat /\ Shipped(c) \in Nat
      /\ Arrived <= c /\ c <= Shipped(c)
  BY PipeNumbers
<1>2. flight = run /\ flight # 0
  BY DEF FlightInv, ReadPiece, ReadExit
<1>3. Shipped(c) = f
  BY <1>2 DEF Piped
<1>4. /\ UNCHANGED <<run, seen, inbox, line, local, hand, sink, emitted>>
      /\ events \in Seq(AnyItem) /\ local \in Seq(AnyItem) /\ hand \in Seq(AnyItem) /\ inbox \in Seq(AnyItem)
      /\ line \in Seq(AnyFrame)
  BY DEF ReadPiece, ReadExit, ShellTypes, hostVars, feedVars, lineVars
<1>5. Taken' = Taken /\ Arrived' = Arrived
  BY <1>4 DEF Taken, Arrived
<1>6. c + Len(local) + Len(hand) + Len(events) = f
  BY <1>3 DEF Shipped
<1>7. /\ c <= f /\ c + Len(local) <= f /\ c + Len(local) + Len(hand) <= f /\ Taken + Len(inbox) <= f
      /\ c + Len(local) \in Nat /\ c + Len(local) + Len(hand) \in Nat /\ Taken <= f
  <2>1. Taken + Len(inbox) <= c
    BY <1>1 DEF Arrived
  <2> QED
    BY <1>1, <1>6, <2>1
<1>8. CASE ~sink
  <2>1. UNCHANGED events
    BY <1>8 DEF ReadPiece, ReadExit, Emitted
  <2>2. Piped(c, f)'
    <3>1. ~sink' /\ ~(Shipped(c) = f + 1)
      BY <1>3, <1>4, <1>8
    <3> QED
      BY <1>4, <2>1, <3>1, ShellMoves
  <2> QED
    BY <2>2
<1>9. CASE sink /\ ReadPiece
  <2>1. emitted[run] = f + unread /\ unread > 0 /\ unread' = unread - 1
    BY <1>3, <1>9 DEF Piped, ReadPiece
  <2>2. emitted[run] - unread + 1 = f + 1
    BY <1>1, <2>1
  <2>3. PICK item : item = [run |-> run, n |-> f + 1]
    OBVIOUS
  <2>4. events' = Append(events, item) /\ item \in AnyItem /\ item.n = f + 1
    <3>1. Emitted([run |-> flight, n |-> emitted[flight] - unread + 1])
      BY <1>9 DEF ReadPiece
    <3>2. Emitted(item)
      BY <1>2, <2>2, <2>3, <3>1
    <3>3. run \in Nat /\ f + 1 \in Nat
      BY RunNumbers
    <3>4. item \in AnyItem /\ item.n = f + 1
      BY <2>3, <3>3 DEF AnyItem
    <3> QED
      BY <1>9, <3>2, <3>4 DEF Emitted
  <2>5. /\ Carries(inbox, Taken, f + 1) /\ LineCarries(line, Arrived, c, f + 1)
        /\ Carries(local, c, f + 1) /\ Carries(hand, c + Len(local), f + 1)
        /\ Carries(events, c + Len(local) + Len(hand), f + 1)
    <3>1. /\ Carries(inbox, Taken, f) /\ LineCarries(line, Arrived, c, f)
          /\ Carries(local, c, f) /\ Carries(hand, c + Len(local), f)
          /\ Carries(events, c + Len(local) + Len(hand), f)
      BY DEF Piped
    <3>2. c + Len(local) + Len(hand) + Len(events) <= f
      BY <1>6
    <3>3. Carries(inbox, Taken, f + 1)
      BY <1>1, <1>4, <1>7, <3>1, CarriesMore
    <3>4. LineCarries(line, Arrived, c, f + 1)
      BY <1>1, <1>4, <1>7, <3>1, LineMore
    <3>5. Carries(local, c, f + 1)
      BY <1>4, <1>7, <3>1, CarriesMore
    <3>6. Carries(hand, c + Len(local), f + 1)
      BY <1>4, <1>7, <3>1, CarriesMore
    <3>7. Carries(events, c + Len(local) + Len(hand), f + 1)
      BY <1>4, <1>7, <3>1, <3>2, CarriesMore
    <3> QED
      BY <3>3, <3>4, <3>5, <3>6, <3>7
  <2>6. f + 1 \in Nat /\ f + 1 <= f + 1 /\ f + 1 = NthOf(c + Len(local) + Len(hand) + Len(events) + 1, f + 1)
    BY <1>6 DEF NthOf
  <2>7. Carries(events', c + Len(local) + Len(hand), f + 1) /\ Len(events') = Len(events) + 1
    BY <1>4, <1>7, <2>4, <2>5, <2>6, CarriesNext
  <2>8. Shipped(c)' = f + 1
    <3>1. Shipped(c)' = c + Len(local) + Len(hand) + (Len(events) + 1)
      BY <1>4, <2>7 DEF Shipped
    <3> QED
      BY <1>1, <1>6, <3>1
  <2>9. emitted[run] = (f + 1) + unread' /\ f + 1 # (f + 1) + 1 /\ Taken <= f + 1
    BY <1>1, <1>7, <2>1
  <2>10. Piped(c, f + 1)'
    BY <1>1, <1>4, <1>5, <2>5, <2>7, <2>8, <2>9 DEF Piped
  <2> QED
    BY <2>6, <2>10
<1>10. CASE sink /\ ReadExit
  <2>1. emitted[run] = f + unread /\ unread = 0 /\ unread' = 0 /\ flight' = 0 /\ proc' # "alive"
    BY <1>3, <1>10 DEF Piped, ReadExit, TakenAtExit
  <2>2. PICK item : item = [run |-> run, n |-> 0]
    OBVIOUS
  <2>3. events' = Append(events, item) /\ item \in AnyItem /\ item.n = 0
    BY <1>1, <1>2, <1>10, <2>2, RunNumbers DEF ReadExit, Emitted, AnyItem
  <2>4. 0 = NthOf(c + Len(local) + Len(hand) + Len(events) + 1, f)
    <3>1. ~(f + 1 <= f)
      OBVIOUS
    <3> QED
      BY <1>6, <3>1 DEF NthOf
  <2>5. Carries(events', c + Len(local) + Len(hand), f) /\ Len(events') = Len(events) + 1
    BY <1>4, <1>7, <2>3, <2>4, CarriesNext DEF Piped
  <2>6. Shipped(c)' = f + 1
    <3>1. Shipped(c)' = c + Len(local) + Len(hand) + (Len(events) + 1)
      BY <1>4, <2>5 DEF Shipped
    <3> QED
      BY <1>1, <1>6, <3>1
  <2>7. emitted[run] = f /\ f # f + 1
    BY <1>1, <2>1
  <2>8. Piped(c, f)'
    BY <1>4, <1>5, <2>1, <2>5, <2>6, <2>7 DEF Piped
  <2> QED
    BY <2>8
<1> QED
  BY <1>8, <1>9, <1>10

\* Events become items, and items go to the local channel, in their order.
LEMMA PipeSend ==
  ASSUME ShellTypes, InPipe, NEW c \in Nat, NEW f \in Nat, Piped(c, f), TakeEvent \/ SendOutput
  PROVE  Piped(c, f)'
<1>1. /\ Len(local) \in Nat /\ Len(hand) \in Nat /\ Len(events) \in Nat
      /\ c + Len(local) \in Nat
      /\ events \in Seq(AnyItem) /\ local \in Seq(AnyItem) /\ hand \in Seq(AnyItem)
  BY PipeNumbers DEF ShellTypes
<1>2. UNCHANGED <<run, seen, inbox, line, sink, flight, proc, emitted, unread>>
  BY DEF TakeEvent, SendOutput, hostVars, feedVars, lineVars, shellVars
<1>3. Taken' = Taken /\ Arrived' = Arrived
  BY <1>2 DEF Taken, Arrived
<1>4. Len(<<>>) = 0
  BY EmptySeq
<1>5. CASE TakeEvent
  <2>1. hand = <<>> /\ events # <<>> /\ hand' = <<Head(events)>> /\ events' = Tail(events) /\ local' = local
    BY <1>5 DEF TakeEvent, feedVars
  <2>2. c + Len(local) + Len(hand) = c + Len(local) /\ Len(hand) = 0
    BY <1>1, <1>4, <2>1
  <2>3. Carries(events, c + Len(local), f)
    BY <2>2 DEF Piped
  <2>4. /\ Head(events) \in AnyItem /\ Len(events') = Len(events) - 1 /\ Len(events) >= 1
        /\ Head(events).n = NthOf(c + Len(local) + 1, f) /\ Carries(events', c + Len(local) + 1, f)
    BY <1>1, <2>1, <2>3, CarriesTail
  <2>5. Len(hand') = 1 /\ DOMAIN hand' = {1} /\ hand'[1] = Head(events)
    BY <2>1, <2>4, Single
  <2>6. Carries(hand', c + Len(local), f)
    BY <2>4, <2>5 DEF Carries
  <2>7. Shipped(c)' = Shipped(c)
    <3>1. Shipped(c)' = c + Len(local) + 1 + (Len(events) - 1)
      BY <2>1, <2>4, <2>5 DEF Shipped
    <3>2. Shipped(c) = c + Len(local) + 0 + Len(events)
      BY <2>2 DEF Shipped
    <3> QED
      BY <1>1, <3>1, <3>2
  <2> QED
    BY <1>2, <1>3, <2>1, <2>4, <2>5, <2>6, <2>7 DEF Piped
<1>6. CASE SendOutput
  <2>1. hand' = <<>> /\ local' = local \o hand /\ events' = events
    BY <1>6 DEF SendOutput
  <2>2. Carries(local', c, f) /\ Len(local') = Len(local) + Len(hand)
    BY <1>1, <2>1, CarriesBoth DEF Piped
  <2>3. c + Len(local') + Len(hand') = c + Len(local) + Len(hand)
    BY <1>1, <1>4, <2>1, <2>2
  <2>4. Shipped(c)' = Shipped(c)
    BY <2>1, <2>3 DEF Shipped
  <2> QED
    BY <1>2, <1>3, <2>1, <2>2, <2>3, <2>4, CarriesNone DEF Piped
<1> QED
  BY <1>5, <1>6

\* The steps that leave the output where it is.
LEMMA PipeRests ==
  ASSUME ShellTypes, InPipe, feed = "open", FlightInv, NEW c \in Nat, NEW f \in Nat, Piped(c, f),
         [Next]_vars, UNCHANGED <<run, seen, inbox, line, local, hand, events>>,
         ~ReadPiece, ~ReadExit, ~(TakeCommand /\ calls[Head(commands)] = "run")
  PROVE  Piped(c, f)'
<1>1. CASE UNCHANGED shellVars
  BY <1>1, ShellMoves DEF Piped, shellVars
<1>2. CASE StartRun \/ StartWait \/ StartOther \/ Kill \/ Stopped \/ OtherAnswered \/ TakeItem \/ SeeQuiet \/ SeeExit
           \/ Deadline
  BY <1>1, <1>2 DEF StartRun, StartWait, StartOther, Kill, Stopped, OtherAnswered, TakeItem, SeeQuiet, SeeExit, Deadline
<1>3. CASE HostReads \/ CancelFeed \/ Serve \/ WorkerWrites \/ SomeoneAsks \/ UNCHANGED vars
  BY <1>1, <1>3 DEF HostReads, CancelFeed, Serve, WorkerWrites, Pump, AnswerCancel, Answer, SomeoneAsks, Ask, vars
<1>4. CASE TakeCommand
  <2>1. UNCHANGED <<flight, emitted, unread>> /\ (sink' => sink) /\ (proc' = "alive" => proc = "alive")
    BY <1>4 DEF TakeCommand, Signal, RunUnwatched, shellVars
  <2> QED
    BY <2>1, ShellMoves DEF Piped
<1>5. CASE Closed \/ QuietElapsed \/ Abandoned \/ TakeEvent \/ SendOutput \/ FinishWait
  BY <1>1, <1>5 DEF Closed, QuietElapsed, Abandoned, TakeEvent, SendOutput, FinishWait
<1>6. CASE Capture \/ ReadEof \/ Reap \/ ProcessEnds
  <2>1. /\ UNCHANGED <<sink, emitted, unread>> /\ flight' \in {0, flight}
        /\ proc' = "alive" => proc = "alive"
    BY <1>6 DEF Capture, ReadEof, Reap, ProcessEnds
  <2> QED
    BY <2>1, ShellMoves DEF Piped
<1>7. CASE WritePiece
  <2>1. proc = "alive" /\ flight = run /\ unread' = unread + 1 /\ UNCHANGED <<sink, flight, proc>>
        /\ emitted' = [emitted EXCEPT ![run] = @ + 1]
    BY <1>7 DEF WritePiece, FlightInv
  <2>2. Shipped(c) = f /\ emitted[run] \in Nat /\ unread \in Nat /\ run \in Run
    BY <2>1, PipeNumbers DEF Piped
  <2>3. emitted'[run] = emitted[run] + 1
    BY <2>1, <2>2 DEF ShellTypes
  <2>4. sink => emitted[run] = f + unread
    BY <2>2 DEF Piped
  <2>5. f # f + 1 /\ (sink => emitted[run] + 1 = f + (unread + 1))
    BY <2>2, <2>4
  <2> QED
    BY <2>1, <2>2, <2>3, <2>5, ShellMoves
<1> QED
  BY <1>2, <1>3, <1>4, <1>5, <1>6, <1>7
     DEF Next, HostStarts, HostGoesOn, ActorStep, ProcessStep, StopShell, Interrupt, GiveUp

\* A run that starts has an empty way before it.
LEMMA PipeStarts ==
  ASSUME ShellTypes, CallInv, BeginInv, FlightInv, TakeCommand, calls[Head(commands)] = "run"
  PROVE  /\ run # 0 /\ verdict[run] # "done" /\ flight' = run /\ Piped(0, 0)'
         /\ UNCHANGED <<run, seen, verdict, feed, emitted>>
<1>1. PICK e : e = Head(commands)
  OBVIOUS
<1>2. e \in Call /\ Awaited(e) /\ RunOf(e) = run /\ calls[e] = "run"
  BY <1>1, CommandAwaited, LastRun
<1>3. /\ run # 0 /\ verdict[run] # "done" /\ seen[run] = <<>> /\ emitted[run] = 0
      /\ flight = 0 /\ inbox = <<>> /\ local = <<>> /\ hand = <<>> /\ events = <<>> /\ NoItems
  BY <1>2 DEF BeginInv, Rest
<1>4. Start(e) /\ UNCHANGED <<actorVars, hostVars, feedVars, lineVars>>
  BY <1>1, <1>2 DEF TakeCommand
<1>5. flight' = run /\ unread' = 0 /\ emitted' = emitted
  BY <1>2, <1>3, <1>4 DEF Start
<1>6. UNCHANGED <<run, seen, verdict, feed, inbox, local, line, hand, events>>
  BY <1>4 DEF actorVars, hostVars, feedVars, lineVars
<1>7. (NoItems /\ inbox = <<>> /\ local = <<>> /\ hand = <<>> /\ events = <<>>
       /\ seen[run] = <<>> /\ emitted[run] = 0 /\ unread = 0)'
  BY <1>3, <1>5, <1>6 DEF NoItems
<1>8. (NoItems /\ inbox = <<>> /\ local = <<>> /\ hand = <<>> /\ events = <<>>
       /\ seen[run] = <<>> /\ emitted[run] = 0 /\ unread = 0 => Piped(0, 0))'
  BY EmptyPipe, PTL
<1> QED
  BY <1>3, <1>5, <1>6, <1>7, <1>8

\* Every step keeps the output in its places, or the shell at rest.
LEMMA PipeKeeps ==
  ASSUME ShellTypes, HostInv, CallInv, BeginInv, FlightInv, PipeInv, [Next]_vars, HostInv'
  PROVE  PipeInv'
<1> SUFFICES ASSUME feed' = "open"
             PROVE  IF InPipe' THEN \E c, f \in Nat : Piped(c, f)' ELSE Rest'
  BY DEF PipeInv
<1>1. CASE TakeItem \/ Deadline
  <2>1. PipeInv'
    BY <1>1, HostTakes
  <2> QED
    BY <2>1 DEF PipeInv
<1>2. feed = "open" /\ (~(TakeItem \/ Deadline) => verdict' = verdict)
  BY DEF Next, HostStarts, HostGoesOn, StopShell, Interrupt, GiveUp, Stopped, StartRun, StartWait, StartOther,
     Kill, OtherAnswered, SeeQuiet, SeeExit, TakeItem, Deadline,
     HostReads, CancelFeed, Serve, WorkerWrites, Pump, AnswerCancel, Answer, SomeoneAsks, Ask, ActorStep,
     TakeCommand, Closed, ReadPiece, ReadExit, Capture, ReadEof, QuietElapsed, Abandoned, TakeEvent,
     SendOutput, FinishWait, Reap, ProcessStep, WritePiece, ProcessEnds, vars, hostVars, feedVars
<1>3. CASE StartRun
  <2>1. ~InPipe /\ run' = run + 1 /\ run' \in Run /\ run' # 0 /\ UNCHANGED <<seen, emitted, verdict>>
    <3>1. ~InPipe /\ run < MaxRuns /\ run' = run + 1 /\ UNCHANGED <<seen, emitted, verdict>>
      BY <1>2, <1>3 DEF StartRun, HostInv, InPipe, shellVars
    <3>2. run \in Nat /\ MaxRuns \in Nat
      BY RunNumbers, ShellAssumption DEF ShellAssumption
    <3>3. run + 1 \in Run /\ run + 1 # 0
      BY <3>1, <3>2 DEF Run
    <3> QED
      BY <3>1, <3>3
  <2>2. Rest
    BY <1>2, <2>1 DEF PipeInv
  <2>3. UNCHANGED <<inbox, local, hand, events, line, unread>>
    BY <1>3 DEF StartRun, feedVars, actorVars, shellVars
  <2>4. seen[run'] = <<>> /\ emitted[run'] = 0 /\ verdict[run'] = "open"
    <3>1. run' > run
      BY <2>1, RunNumbers
    <3> QED
      BY <2>1, <3>1 DEF HostInv
  <2>5. (NoItems /\ inbox = <<>> /\ local = <<>> /\ hand = <<>> /\ events = <<>>
         /\ seen[run] = <<>> /\ emitted[run] = 0 /\ unread = 0)'
    BY <2>1, <2>2, <2>3, <2>4 DEF NoItems, Rest
  <2>6. (NoItems /\ inbox = <<>> /\ local = <<>> /\ hand = <<>> /\ events = <<>>
         /\ seen[run] = <<>> /\ emitted[run] = 0 /\ unread = 0 => Piped(0, 0))'
    BY EmptyPipe, PTL
  <2>7. Piped(0, 0)' /\ InPipe'
    BY <2>1, <2>4, <2>5, <2>6 DEF InPipe
  <2>8. 0 \in Nat
    OBVIOUS
  <2> QED
    BY <2>7, <2>8
<1>4. CASE ~(StartRun \/ TakeItem \/ Deadline)
  <2>1. run' = run /\ verdict' = verdict
    BY <1>2, <1>4 DEF Next, HostStarts, HostGoesOn, StopShell, Interrupt, GiveUp, Stopped, StartWait, StartOther,
       Kill, OtherAnswered, SeeQuiet, SeeExit,
       HostReads, CancelFeed, Serve, WorkerWrites, Pump, AnswerCancel, Answer, SomeoneAsks, Ask, ActorStep,
       TakeCommand, Closed, ReadPiece, ReadExit, Capture, ReadEof, QuietElapsed, Abandoned, TakeEvent,
       SendOutput, FinishWait, Reap, ProcessStep, WritePiece, ProcessEnds, vars, hostVars
  <2>2. InPipe' <=> InPipe
    BY <2>1 DEF InPipe
  <2>3. CASE ~InPipe
    <3>1. Rest
      BY <1>2, <2>3 DEF PipeInv
    <3>2. ~(TakeCommand /\ calls[Head(commands)] = "run")
      <4> SUFFICES ASSUME TakeCommand, calls[Head(commands)] = "run" PROVE FALSE
        OBVIOUS
      <4>1. run # 0 /\ verdict[run] # "done" /\ run \in Run
        BY PipeStarts, RunNumbers
      <4>2. verdict[run] # "killed" /\ verdict[run] \in {"open", "done", "killed"}
        BY <1>2, <4>1 DEF HostInv, ShellTypes
      <4> QED
        BY <2>3, <4>1, <4>2 DEF InPipe
    <3>3. Rest'
      BY <3>1, <3>2, RestStays
    <3> QED
      BY <2>2, <2>3, <3>3
  <2>4. CASE InPipe
    <3>1. PICK c : \E f \in Nat : c \in Nat /\ Piped(c, f)
      BY <1>2, <2>4 DEF PipeInv
    <3>2. PICK f \in Nat : c \in Nat /\ Piped(c, f)
      BY <3>1
    <3>3. CASE HostReads
      BY <1>2, <2>2, <2>4, <3>2, <3>3, PipeHost
    <3>4. CASE Pump
      <4>1. Piped(c + 1, f)' /\ c + 1 \in Nat
        BY <2>4, <3>2, <3>4, PipePump
      <4> QED
        BY <2>2, <2>4, <3>2, <4>1
    <3>5. CASE AnswerCancel \/ \E d \in Call : Answer(d)
      <4>1. Piped(c, f)'
        BY <3>2, <3>5, PipeFrames
      <4> QED
        BY <2>2, <2>4, <3>2, <4>1
    <3>6. CASE ReadPiece \/ ReadExit
      <4>1. \E g \in Nat : Piped(c, g)'
        BY <2>4, <3>2, <3>6, PipeRead
      <4> QED
        BY <2>2, <2>4, <3>2, <4>1
    <3>7. CASE TakeEvent \/ SendOutput
      <4>1. Piped(c, f)'
        BY <2>4, <3>2, <3>7, PipeSend
      <4> QED
        BY <2>2, <2>4, <3>2, <4>1
    <3>8. CASE TakeCommand /\ calls[Head(commands)] = "run"
      <4>1. Piped(0, 0)' /\ 0 \in Nat
        BY <3>8, PipeStarts
      <4> QED
        BY <2>2, <2>4, <4>1
    <3>9. CASE ~(\/ HostReads \/ Pump \/ AnswerCancel \/ (\E d \in Call : Answer(d)) \/ ReadPiece \/ ReadExit
                 \/ TakeEvent \/ SendOutput \/ (TakeCommand /\ calls[Head(commands)] = "run"))
      <4>1. UNCHANGED <<run, seen, inbox, line, local, hand, events>>
        BY <1>2, <1>4, <3>9 DEF Next, HostStarts, HostGoesOn, StopShell, Interrupt, GiveUp, Stopped, StartWait, StartOther,
           Kill, OtherAnswered, SeeQuiet, SeeExit, CancelFeed, Serve, WorkerWrites, SomeoneAsks, Ask,
           ActorStep, TakeCommand, Closed, SenderClosed, Capture, ReadEof, QuietElapsed, Abandoned, FinishWait, Reap,
           ProcessStep, WritePiece, ProcessEnds, vars, hostVars, feedVars, lineVars, actorVars
      <4>2. Piped(c, f)'
        BY <1>2, <2>4, <3>2, <3>9, <4>1, PipeRests
      <4> QED
        BY <2>2, <2>4, <3>2, <4>2
    <3> QED
      BY <3>3, <3>4, <3>5, <3>6, <3>7, <3>8, <3>9
  <2> QED
    BY <2>3, <2>4
<1> QED
  BY <1>1, <1>3, <1>4
-----------------------------------------------------------------------------
(* What is done stays done.                                                *)

\* A run becomes done with its marker, and no later step adds to its output.
LEMMA DoneKeeps ==
  ASSUME ShellTypes, HostInv, CallInv, BeginInv, FlightInv, PipeInv, DoneIsReal, [Next]_vars
  PROVE  DoneIsReal'
<1>1. CASE TakeItem \/ Deadline
  <2>1. /\ InPipe /\ run \in Run
        /\ \/ verdict' = verdict
           \/ /\ verdict' = [verdict EXCEPT ![run] = "done"]
              /\ seen'[run] = [i \in 1..emitted[run] |-> i] /\ proc # "alive"
        /\ \A r \in Run : r # run => seen'[r] = seen[r]
    BY <1>1, HostTakes
  <2>2. UNCHANGED <<emitted, proc, flight>>
    BY <1>1 DEF TakeItem, Deadline, shellVars
  <2>3. ASSUME NEW r \in Run, verdict'[r] = "done", r # run
        PROVE  seen'[r] = [i \in 1..emitted'[r] |-> i] /\ (proc' # "alive" \/ flight' # r)
    <3>1. verdict[r] = "done"
      BY <2>1, <2>3 DEF ShellTypes
    <3> QED
      BY <2>1, <2>2, <2>3, <3>1 DEF DoneIsReal
  <2>4. ASSUME verdict'[run] = "done"
        PROVE  seen'[run] = [i \in 1..emitted'[run] |-> i] /\ proc' # "alive"
    <3>1. verdict[run] # "done"
      BY <2>1 DEF InPipe
    <3> QED
      BY <2>1, <2>2, <2>4, <3>1
  <2> QED
    BY <2>1, <2>3, <2>4 DEF DoneIsReal
<1>2. CASE Stopped
  <2>1. \A r \in Run : verdict'[r] = "done" => verdict[r] = "done"
    BY <1>2 DEF Stopped, ShellTypes
  <2> QED
    BY <1>2, <2>1 DEF Stopped, shellVars, DoneIsReal
<1>3. CASE TakeCommand /\ calls[Head(commands)] = "run"
  <2>1. run # 0 /\ verdict[run] # "done" /\ flight' = run /\ UNCHANGED <<seen, verdict, emitted>>
    BY <1>3, PipeStarts
  <2> QED
    BY <2>1 DEF DoneIsReal
<1>4. CASE WritePiece
  <2>1. /\ proc = "alive" /\ UNCHANGED <<seen, verdict, flight, proc>>
        /\ emitted' = [emitted EXCEPT ![flight] = @ + 1]
    BY <1>4 DEF WritePiece, hostVars
  <2>2. ASSUME NEW r \in Run, verdict[r] = "done" PROVE r # flight /\ emitted'[r] = emitted[r]
    <3>1. r # flight
      BY <2>1, <2>2 DEF DoneIsReal
    <3> QED
      BY <2>1, <3>1 DEF ShellTypes
  <2> QED
    BY <2>1, <2>2 DEF DoneIsReal
<1>5. CASE ~(TakeItem \/ Deadline \/ Stopped \/ WritePiece \/ (TakeCommand /\ calls[Head(commands)] = "run"))
  <2>1. UNCHANGED <<seen, verdict, emitted>>
    BY <1>5 DEF Next, HostStarts, HostGoesOn, StopShell, Interrupt, GiveUp, StartRun, StartWait, StartOther,
       Kill, OtherAnswered, SeeQuiet, SeeExit,
       HostReads, CancelFeed, Serve, WorkerWrites, Pump, AnswerCancel, Answer, SomeoneAsks, Ask, ActorStep,
       TakeCommand, Closed, ReadPiece, ReadExit, Capture, ReadEof, QuietElapsed, Abandoned, TakeEvent,
       SendOutput, FinishWait, Reap, ProcessStep, ProcessEnds, Signal, RunUnwatched, vars, hostVars, shellVars
  <2>2. (proc' = "alive" => proc = "alive") /\ flight' \in {0, flight}
    BY <1>5 DEF Next, HostStarts, HostGoesOn, StopShell, Interrupt, GiveUp, StartRun, StartWait, StartOther,
       Kill, OtherAnswered, SeeQuiet, SeeExit,
       HostReads, CancelFeed, Serve, WorkerWrites, Pump, AnswerCancel, Answer, SomeoneAsks, Ask, ActorStep,
       TakeCommand, Closed, ReadPiece, ReadExit, TakenAtExit, Capture, ReadEof, QuietElapsed, Abandoned, TakeEvent,
       SendOutput, FinishWait, Reap, ProcessStep, ProcessEnds, Signal, RunUnwatched, vars, shellVars
  <2>3. 0 \notin Run
    BY RunNumbers
  <2> QED
    BY <2>1, <2>2, <2>3 DEF DoneIsReal
<1> QED
  BY <1>1, <1>2, <1>3, <1>4, <1>5

\* The invariant is inductive.
LEMMA ShellKeeps == ASSUME ShellInv, [Next]_vars PROVE ShellInv'
<1>1. ShellTypes /\ HostInv /\ CallInv /\ BeginInv /\ FlightInv /\ PipeInv /\ DoneIsReal
  BY DEF ShellInv
<1>2. ShellTypes' /\ HostInv'
  BY <1>1, TypesKeep, HostKeeps
<1>3. FlightInv' /\ BeginInv' /\ DoneIsReal'
  BY <1>1, FlightKeeps, BeginKeeps, DoneKeeps
<1>4. PipeInv'
  BY <1>1, <1>2, PipeKeeps
<1>5. CallInv'
  <2>1. CASE StartRun
    BY <1>1, <2>1, MakeCalls DEF StartRun, Kind, taskVars
  <2>2. CASE StartWait
    BY <1>1, <2>2, MakeCalls DEF StartWait, Kind, taskVars
  <2>3. CASE StartOther
    BY <1>1, <2>3, MakeCalls DEF StartOther, Kind, taskVars
  <2>4. CASE Kill
    BY <1>1, <2>4, MakeCalls DEF Kill, Kind, Dropped, taskVars
  <2> QED
    BY <1>1, <2>1, <2>2, <2>3, <2>4, CallKeeps
<1> QED
  BY <1>2, <1>3, <1>4, <1>5 DEF ShellInv

\* A run that the host reports as done has exited, and the host has read every piece of its
\* output, once and in order, whatever waits were cut short by a deadline, an interrupt or a
\* cancel before, and whatever else the line carried between the pieces.
THEOREM OutputIsComplete == Spec => []DoneIsReal
<1>1. Init => ShellInv
  BY ShellStarts
<1>2. ShellInv /\ [Next]_vars => ShellInv'
  BY ShellKeeps
<1>3. ShellInv => DoneIsReal
  BY DEF ShellInv
<1> QED
  BY <1>1, <1>2, <1>3, PTL DEF Spec
=============================================================================
