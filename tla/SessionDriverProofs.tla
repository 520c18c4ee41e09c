----------------------- MODULE SessionDriverProofs -----------------------
(* Theorems about SessionDriver, and about ProviderCache with the          *)
(* configuration under it, for every value of their constants.             *)
EXTENDS SessionDriver, ProviderCache, SequenceTheorems, FiniteSetTheorems, WellFoundedInduction, TLAPS

\* A set of numbers that is not empty has a first one.
LEMMA FirstOf ==
  ASSUME NEW S, S \subseteq Nat, S # {}
  PROVE  \E k \in S : \A j \in S : k <= j
<1> DEFINE Less == {ss \in Nat \X Nat : ss[1] < ss[2]}
<1>0. IsWellFoundedOn(Less, Nat)
  BY NatLessThanWellFounded DEF OpToRel
<1> HIDE DEF Less
<1>1. PICK x \in S : \A y \in S : ~(<<y, x>> \in Less)
  BY <1>0, WFMin, Zenon
<1>2. ASSUME NEW j \in S PROVE x <= j
  <2>1. x \in Nat /\ j \in Nat
    OBVIOUS
  <2>2. ~(j < x)
    BY <1>1, <2>1 DEF Less
  <2> QED
    BY <2>1, <2>2
<1> QED
  BY <1>1, <1>2

\* Taking an element out of a sequence leaves a sequence.
LEMMA RemoveAtType ==
  ASSUME NEW S, NEW q \in Seq(S), NEW k \in DOMAIN q
  PROVE  RemoveAt(q, k) \in Seq(S)
<1>1. k \in 1..Len(q) /\ Len(q) \in Nat
  BY LenProperties
<1>2. SubSeq(q, 1, k - 1) \in Seq(S)
  BY <1>1, SubSeqProperties
<1>3. SubSeq(q, k + 1, Len(q)) \in Seq(S)
  BY <1>1, SubSeqProperties
<1> QED
  BY <1>2, <1>3, ConcatProperties DEF RemoveAt
-----------------------------------------------------------------------------
(* A command lives in a turn only. *)

\* No command runs at the start.
LEMMA ShellInit == Init => ShellIsStopped
BY DEF Init, ShellIsStopped

\* The stages in which a command may run are entered from each other, or from
\* the gate, and are left through WrapUp, which stops it.
LEMMA ShellStep == ShellIsStopped /\ [Next]_vars => ShellIsStopped'
<1> SUFFICES ASSUME ShellIsStopped, [Next]_vars PROVE ShellIsStopped'
  OBVIOUS
<1>1. CASE User
  <2>1. CASE UserInput \/ UserInterrupts \/ UserSelects \/ Shutdown
    BY <2>1 DEF ShellIsStopped, UserInput, UserInterrupts, UserSelects, Shutdown, toolVars
  <2>2. CASE Approve
    BY <2>2 DEF ShellIsStopped, Approve
  <2>3. CASE Deny
    BY <2>3 DEF ShellIsStopped, Deny
  <2> QED
    BY <1>1, <2>1, <2>2, <2>3 DEF User
<1>2. CASE Take \/ Receive \/ NoticeShutdown \/ Stop
  BY <1>2 DEF ShellIsStopped, Take, Receive, NoticeShutdown, Stop, toolVars
<1>3. CASE Fetch \/ RecordPrompt
  BY <1>3 DEF ShellIsStopped, Fetch, RecordPrompt, Done, toolVars
<1>4. CASE Ask \/ RequestFails \/ StreamEnds \/ SaveExchange \/ EventFails
  BY <1>4 DEF ShellIsStopped, Ask, RequestFails, StreamEnds, SaveExchange, EventFails
<1>5. CASE Answered \/ StartBatch \/ AskUser \/ StartWait
  BY <1>5 DEF ShellIsStopped, Answered, StartBatch, AskUser, StartWait
<1>6. CASE Execute \/ GateInterrupted \/ CallEnds
  BY <1>6 DEF ShellIsStopped, Execute, GateInterrupted, CallEnds, Settle
<1>7. CASE SaveResults
  BY <1>7 DEF ShellIsStopped, SaveResults
<1>8. CASE WrapUp
  BY <1>8 DEF ShellIsStopped, WrapUp
<1>9. CASE SelectFails \/ CopyChat \/ SwitchChat
  BY <1>9 DEF ShellIsStopped, SelectFails, CopyChat, SwitchChat, Done, toolVars
<1>10. CASE UNCHANGED vars
  BY <1>10 DEF ShellIsStopped, vars, toolVars
<1> QED
  BY <1>1, <1>2, <1>3, <1>4, <1>5, <1>6, <1>7, <1>8, <1>9, <1>10 DEF Next, Driver

\* No command outlives the turn that ran it (stop_shell in turn, driver.rs),
\* however the turn ends and whatever fails in it.
THEOREM ShellStops == Spec => []ShellIsStopped
BY ShellInit, ShellStep, PTL DEF Spec
-----------------------------------------------------------------------------
(* A pause holds prompts back. *)

\* The channel and the queue are sequences of messages.
QueueOK ==
  /\ sent \in 0..MaxInputs
  /\ inbox \in Seq(Message) /\ queued \in Seq(Message)

\* Prompts are held in a pause only; and a prompt that is handled, and was not
\* cancelled, is not held.
PauseInv ==
  /\ ~paused => held = {}
  /\ Handling /\ ~cancelled /\ work.kind = "prompt" => work.n \notin held

HoldInv == QueueOK /\ PauseInv

\* Nothing is queued and nothing is held.
LEMMA HoldInit == Init => HoldInv
<1> SUFFICES ASSUME Init PROVE HoldInv
  OBVIOUS
<1>1. MaxInputs \in Nat
  BY DriverAssumption
<1>2. <<>> \in Seq(Message)
  BY EmptySeq
<1> QED
  BY <1>1, <1>2 DEF Init, HoldInv, QueueOK, PauseInv, Handling

\* What leaves the loop alone, and begins no handling, keeps the invariant.
LEMMA HoldFrozen ==
  ASSUME HoldInv, UNCHANGED <<sent, inbox, queued, paused, held, work, cancelled>>,
         Handling' => Handling
  PROVE  HoldInv'
BY DEF HoldInv, QueueOK, PauseInv

\* A message put into the channel keeps it too.
LEMMA HoldSend ==
  ASSUME HoldInv, NEW message \in Message, Send(message), sent' \in 0..MaxInputs,
         UNCHANGED <<queued, paused, held, work, cancelled>>, Handling' => Handling
  PROVE  HoldInv'
<1>1. inbox' \in Seq(Message)
  BY AppendProperties DEF HoldInv, QueueOK, Send
<1> QED
  BY <1>1 DEF HoldInv, QueueOK, PauseInv

\* A prompt is taken only when nothing is paused, and then nothing is held.
LEMMA HoldTake == HoldInv /\ Take => HoldInv'
<1> SUFFICES ASSUME HoldInv, Take PROVE HoldInv'
  OBVIOUS
<1> DEFINE first == CHOOSE k \in Runnable : \A j \in Runnable : k <= j
<1>1. Runnable \subseteq DOMAIN queued /\ DOMAIN queued \subseteq Nat /\ Runnable # {}
  <2>1. queued \in Seq(Message)
    BY DEF HoldInv, QueueOK
  <2>2. DOMAIN queued \subseteq Nat
    BY <2>1, LenProperties
  <2>3. Runnable \subseteq DOMAIN queued
    BY DEF Runnable
  <2>4. Runnable # {}
    BY DEF Take
  <2> QED
    BY <2>2, <2>3, <2>4
<1>2. \E k \in Runnable : \A j \in Runnable : k <= j
  <2>1. Runnable \subseteq Nat
    BY <1>1
  <2> QED
    BY <1>1, <2>1, FirstOf
<1>3. first \in Runnable
  BY <1>2
<1>4. work' = queued[first] /\ queued' = RemoveAt(queued, first)
  BY DEF Take
<1>5. UNCHANGED <<sent, inbox, paused, held>>
  BY DEF Take, userVars
<1> HIDE DEF first
<1>6. queued' \in Seq(Message)
  BY <1>1, <1>3, <1>4, RemoveAtType DEF HoldInv, QueueOK
<1>7. work'.kind = "prompt" => held = {}
  BY <1>3, <1>4 DEF Runnable, HoldInv, PauseInv
<1> QED
  BY <1>5, <1>6, <1>7 DEF HoldInv, QueueOK, PauseInv

\* An interrupt cancels what is handled, and a prompt ends the pause.
LEMMA HoldReceive == HoldInv /\ Receive => HoldInv'
<1> SUFFICES ASSUME HoldInv, Receive PROVE HoldInv'
  OBVIOUS
<1> DEFINE message == Head(inbox)
<1>1. message \in Message /\ inbox' \in Seq(Message)
  BY HeadTailProperties DEF HoldInv, QueueOK, Receive
<1>2. queued' \in Seq(Message)
  <2>1. queued' = queued \/ queued' = Append(queued, message)
    BY DEF Receive
  <2> QED
    BY <1>1, <2>1, AppendProperties DEF HoldInv, QueueOK
<1>3. QueueOK'
  BY <1>1, <1>2 DEF HoldInv, QueueOK, Receive, userVars
<1>4. UNCHANGED <<work, at>>
  BY DEF Receive
<1>5. PauseInv'
  <2>1. CASE message.kind = "interrupt"
    <3>1. paused' /\ (Handling => cancelled')
      BY <2>1 DEF Receive
    <3> QED
      BY <1>4, <3>1 DEF PauseInv, Handling
  <2>2. CASE message.kind = "prompt"
    <3>1. held' = {}
      BY <2>2 DEF Receive
    <3> QED
      BY <3>1 DEF PauseInv
  <2>3. CASE message.kind \notin {"interrupt", "prompt"}
    <3>1. paused' = paused /\ held' = held
      BY <2>3 DEF Receive
    <3>2. cancelled => cancelled'
      BY DEF Receive
    <3> QED
      BY <1>4, <3>1, <3>2 DEF HoldInv, PauseInv, Handling
  <2> QED
    BY <2>1, <2>2, <2>3
<1> QED
  BY <1>3, <1>5 DEF HoldInv

\* Users only send.
LEMMA HoldUser == HoldInv /\ User => HoldInv'
<1> SUFFICES ASSUME HoldInv, User PROVE HoldInv'
  OBVIOUS
<1>1. MaxInputs \in Nat /\ sent \in 0..MaxInputs
  BY DriverAssumption DEF HoldInv, QueueOK
<1>2. CASE UserInput
  <2>1. PICK kind \in {"prompt", "use"} : Send(Item(kind, sent + 1))
    BY <1>2 DEF UserInput
  <2>2. Item(kind, sent + 1) \in Message /\ sent' \in 0..MaxInputs
    BY <1>1, <1>2, <2>1 DEF UserInput, Item, Message
  <2> QED
    BY <1>2, <2>1, <2>2, HoldSend DEF UserInput, workVars, Handling
<1>3. CASE UserInterrupts
  <2>1. Item("interrupt", 0) \in Message
    BY <1>1 DEF Item, Message
  <2> QED
    BY <1>1, <1>3, <2>1, HoldSend DEF UserInterrupts, workVars, Handling
<1>4. CASE UserSelects
  <2>1. PICK kind \in {"select", "list"} : Send(Item(kind, 0))
    BY <1>4 DEF UserSelects
  <2>2. Item(kind, 0) \in Message
    BY <1>1, <2>1 DEF Item, Message
  <2> QED
    BY <1>1, <1>4, <2>1, <2>2, HoldSend DEF UserSelects, workVars, Handling
<1>5. CASE Shutdown
  BY <1>5, HoldFrozen DEF Shutdown, userVars, workVars, Handling
<1>6. CASE Approve
  BY <1>6, HoldFrozen DEF Approve, userVars, loopVars, workVars, Handling
<1>7. CASE Deny
  <2>1. Handling
    BY <1>7 DEF Deny, Handling
  <2>2. UNCHANGED <<queued, paused, held, work, cancelled>>
    BY <1>7 DEF Deny, workVars
  <2>3. CASE Redirect
    <3>1. Item("prompt", sent + 1) \in Message /\ sent' \in 0..MaxInputs
      BY <1>1, <2>3 DEF Redirect, Item, Message
    <3> QED
      BY <2>1, <2>2, <2>3, <3>1, HoldSend DEF Redirect
  <2>4. CASE UNCHANGED <<sent, inbox>>
    BY <2>1, <2>2, <2>4, HoldFrozen
  <2> QED
    BY <1>7, <2>3, <2>4 DEF Deny
<1> QED
  BY <1>2, <1>3, <1>4, <1>5, <1>6, <1>7 DEF User

\* The handling of an input leaves the loop's variables alone.
LEMMA HoldHandling ==
  ASSUME HoldInv, Driver, ~Take, ~Receive
  PROVE  HoldInv'
<1>1. CASE NoticeShutdown
  BY <1>1 DEF NoticeShutdown, HoldInv, QueueOK, PauseInv, userVars, loopVars, Handling
<1>2. CASE Stop
  BY <1>2, HoldFrozen DEF Stop, userVars, loopVars, workVars, Handling
<1>3. CASE Fetch \/ RecordPrompt \/ Ask
  BY <1>3, HoldFrozen DEF Fetch, RecordPrompt, Ask, userVars, loopVars, workVars, Handling
<1>4. CASE RequestFails \/ StreamEnds \/ SaveExchange \/ EventFails
  BY <1>4, HoldFrozen DEF RequestFails, StreamEnds, SaveExchange, EventFails, userVars, loopVars,
                          workVars, Handling
<1>5. CASE Answered \/ StartBatch \/ AskUser \/ StartWait
  BY <1>5, HoldFrozen DEF Answered, StartBatch, AskUser, StartWait, userVars, loopVars, workVars,
                          Handling
<1>6. CASE Execute \/ GateInterrupted \/ CallEnds
  BY <1>6, HoldFrozen DEF Execute, GateInterrupted, CallEnds, Settle, userVars, loopVars,
                          workVars, Handling
<1>7. CASE SaveResults \/ WrapUp
  BY <1>7, HoldFrozen DEF SaveResults, WrapUp, userVars, loopVars, workVars, Handling
<1>8. CASE SelectFails \/ CopyChat \/ SwitchChat
  BY <1>8, HoldFrozen DEF SelectFails, CopyChat, SwitchChat, userVars, loopVars, workVars, Handling
<1> QED
  BY <1>1, <1>2, <1>3, <1>4, <1>5, <1>6, <1>7, <1>8 DEF Driver

\* Every step keeps the invariant.
LEMMA HoldStep == HoldInv /\ [Next]_vars => HoldInv'
<1> SUFFICES ASSUME HoldInv, [Next]_vars PROVE HoldInv'
  OBVIOUS
<1>1. CASE UNCHANGED vars
  BY <1>1, HoldFrozen DEF vars, userVars, loopVars, workVars, Handling
<1> QED
  BY <1>1, HoldUser, HoldTake, HoldReceive, HoldHandling DEF Next

\* "The host ... waits for new user input to resume" (session-runtime.md): no
\* request is made for a prompt the driver had received when it received an
\* interrupt, before it has received a newer prompt.
THEOREM InterruptsHold == Spec => []InterruptHolds
<1>1. HoldInv => InterruptHolds
  BY DEF HoldInv, PauseInv, InterruptHolds, Handling
<1> QED
  BY HoldInit, HoldStep, <1>1, PTL DEF Spec
-----------------------------------------------------------------------------
(* Sequences, and what is picked from them.                                *)

\* Induction over sequences: what holds of the empty one, and is kept by every
\* element that is appended, holds of all.
LEMMA SnocInduction ==
  ASSUME NEW S, NEW Good, <<>> \in Good,
         \A r \in Seq(S) : \A e \in S : r \in Good => Append(r, e) \in Good
  PROVE  Seq(S) \subseteq Good
<1> SUFFICES ASSUME ~(Seq(S) \subseteq Good) PROVE FALSE
  OBVIOUS
<1> DEFINE Lens == {Len(s) : s \in Seq(S) \ Good}
<1>1. Lens \subseteq Nat /\ Lens # {}
  <2>1. \A s \in Seq(S) : Len(s) \in Nat
    BY LenProperties
  <2> QED
    BY <2>1
<1>2. PICK n \in Lens : \A m \in Lens : n <= m
  BY <1>1, FirstOf
<1>3. PICK s \in Seq(S) \ Good : n = Len(s)
  BY <1>2
<1>4. PICK r \in Seq(S), e \in S : s = Append(r, e)
  BY <1>3, SequenceEmptyOrAppend
<1>5. r \notin Good
  BY <1>3, <1>4
<1>6. Len(r) \in Lens
  BY <1>4, <1>5
<1>7. Len(r) \in Nat /\ Len(s) = Len(r) + 1
  BY <1>4, LenProperties, AppendProperties
<1>8. n <= Len(r)
  BY <1>2, <1>6
<1> QED
  BY <1>3, <1>7, <1>8

\* The function that picks: after k items, what is in S among them.
Picks(items, S, f) ==
  f = [k \in 0..Len(items) |->
         IF k = 0 THEN <<>>
         ELSE IF items[k] \in S THEN Append(f[k - 1], items[k]) ELSE f[k - 1]]

\* Picked is that function, at the end.
LEMMA PickedIs == \A items, S : Picked(items, S) = (CHOOSE f : Picks(items, S, f))[Len(items)]
BY DEF Picked, Picks

\* It does not change behind the items it has seen.
LEMMA PicksAgree ==
  ASSUME NEW T, NEW S, NEW s \in Seq(T), NEW e \in T, NEW f, NEW g,
         Picks(s, S, f), Picks(Append(s, e), S, g)
  PROVE  \A k \in 0..Len(s) : f[k] = g[k]
<1> DEFINE Differing == {k \in 0..Len(s) : f[k] # g[k]}
<1> SUFFICES ASSUME Differing # {} PROVE FALSE
  OBVIOUS
<1>0. Len(s) \in Nat
  BY LenProperties
<1>1. Differing \subseteq Nat
  BY <1>0
<1>2. PICK k \in Differing : \A j \in Differing : k <= j
  BY <1>1, FirstOf
<1>3. Len(Append(s, e)) = Len(s) + 1
  BY AppendProperties
<1>4. k \in 0..Len(s) /\ k \in 0..Len(Append(s, e)) /\ f[k] # g[k]
  BY <1>0, <1>2, <1>3
<1>5. f[k] = IF k = 0 THEN <<>> ELSE IF s[k] \in S THEN Append(f[k - 1], s[k]) ELSE f[k - 1]
  BY <1>4 DEF Picks
<1>6. g[k] = IF k = 0 THEN <<>>
             ELSE IF Append(s, e)[k] \in S THEN Append(g[k - 1], Append(s, e)[k]) ELSE g[k - 1]
  BY <1>4 DEF Picks
<1>7. CASE k = 0
  BY <1>4, <1>5, <1>6, <1>7
<1>8. CASE k # 0
  <2>1. k \in 1..Len(s) /\ k - 1 \in 0..Len(s) /\ ~(k <= k - 1)
    BY <1>0, <1>4, <1>8
  <2>2. Append(s, e)[k] = s[k]
    BY <2>1, AppendProperties
  <2>3. k - 1 \notin Differing
    BY <1>2, <2>1
  <2>4. f[k - 1] = g[k - 1]
    BY <2>1, <2>3
  <2> QED
    BY <1>4, <1>5, <1>6, <1>8, <2>2, <2>4
<1> QED
  BY <1>7, <1>8

\* It can be continued by one item.
LEMMA PicksExtend ==
  ASSUME NEW T, NEW S, NEW s \in Seq(T), NEW e \in T, NEW f, Picks(s, S, f)
  PROVE  \E g : Picks(Append(s, e), S, g)
<1> DEFINE n == Len(s)
<1> DEFINE tail == IF e \in S THEN Append(f[n], e) ELSE f[n]
<1> DEFINE g == [k \in 0..(n + 1) |-> IF k = n + 1 THEN tail ELSE f[k]]
<1>0. n \in Nat
  BY LenProperties
<1>1. Len(Append(s, e)) = n + 1 /\ Append(s, e)[n + 1] = e
  BY AppendProperties
<1>2. ASSUME NEW k \in 0..(n + 1)
      PROVE  g[k] = IF k = 0 THEN <<>>
             ELSE IF Append(s, e)[k] \in S THEN Append(g[k - 1], Append(s, e)[k]) ELSE g[k - 1]
  <2>1. CASE k = n + 1
    <3>1. k # 0 /\ k - 1 = n /\ n \in 0..(n + 1) /\ n # n + 1
      BY <1>0, <2>1
    <3>2. g[k - 1] = f[n]
      BY <3>1
    <3>3. g[k] = tail
      BY <2>1
    <3> HIDE DEF g
    <3> QED
      BY <1>1, <2>1, <3>1, <3>2, <3>3
  <2>2. CASE k # n + 1
    <3>1. k \in 0..n
      BY <1>0, <2>2
    <3>2. g[k] = f[k]
      BY <2>2
    <3>3. f[k] = IF k = 0 THEN <<>> ELSE IF s[k] \in S THEN Append(f[k - 1], s[k]) ELSE f[k - 1]
      BY <3>1 DEF Picks
    <3>4. CASE k = 0
      <4> HIDE DEF g
      <4> QED
        BY <3>2, <3>3, <3>4
    <3>5. CASE k # 0
      <4>1. k \in 1..n /\ k - 1 \in 0..(n + 1) /\ k - 1 # n + 1
        BY <1>0, <3>1, <3>5
      <4>2. Append(s, e)[k] = s[k]
        BY <4>1, AppendProperties
      <4>3. g[k - 1] = f[k - 1]
        BY <4>1
      <4> HIDE DEF g
      <4> QED
        BY <3>2, <3>3, <3>5, <4>2, <4>3
    <3> QED
      BY <3>4, <3>5
  <2> QED
    BY <2>1, <2>2
<1>3. g = [k \in 0..(n + 1) |->
             IF k = 0 THEN <<>>
             ELSE IF Append(s, e)[k] \in S THEN Append(g[k - 1], Append(s, e)[k]) ELSE g[k - 1]]
  <2>1. g = [k \in 0..(n + 1) |-> g[k]]
    OBVIOUS
  <2> HIDE DEF g
  <2> QED
    BY <1>2, <2>1
<1>4. Picks(Append(s, e), S, g)
  <2> HIDE DEF g
  <2> QED
    BY <1>1, <1>3 DEF Picks
<1> QED
  BY <1>4

\* So there is one for every sequence of items.
LEMMA PicksExist ==
  ASSUME NEW T, NEW S
  PROVE  \A s \in Seq(T) : \E f : Picks(s, S, f)
<1> DEFINE Good == {s \in Seq(T) : \E f : Picks(s, S, f)}
<1>1. <<>> \in Good
  <2> DEFINE f == [k \in 0..0 |-> <<>>]
  <2>1. \A k \in 0..0 : k = 0
    OBVIOUS
  <2>2. f = [k \in 0..0 |->
         IF k = 0 THEN <<>>
         ELSE IF <<>>[k] \in S THEN Append(f[k - 1], <<>>[k]) ELSE f[k - 1]]
    BY <2>1
  <2>3. Len(<<>>) = 0 /\ <<>> \in Seq(T)
    BY EmptySeq
  <2>4. Picks(<<>>, S, f)
    <3> HIDE DEF f
    <3> QED
      BY <2>2, <2>3 DEF Picks
  <2> QED
    BY <2>3, <2>4
<1>2. ASSUME NEW r \in Seq(T), NEW e \in T, r \in Good PROVE Append(r, e) \in Good
  <2>1. PICK f : Picks(r, S, f)
    BY <1>2
  <2>2. \E g : Picks(Append(r, e), S, g)
    BY <2>1, PicksExtend
  <2>3. Append(r, e) \in Seq(T)
    BY AppendProperties
  <2> QED
    BY <2>2, <2>3
<1>3. Seq(T) \subseteq Good
  <2> HIDE DEF Good
  <2> QED
    BY <1>1, <1>2, SnocInduction
<1> QED
  BY <1>3

\* What is picked of no items, and of one more.
LEMMA PickedEmpty == \A S : Picked(<<>>, S) = <<>>
<1> SUFFICES ASSUME NEW S PROVE Picked(<<>>, S) = <<>>
  OBVIOUS
<1> DEFINE f == CHOOSE f : Picks(<<>>, S, f)
<1>1. <<>> \in Seq({}) /\ Len(<<>>) = 0
  BY EmptySeq
<1>2. \E g : Picks(<<>>, S, g)
  BY <1>1, PicksExist
<1>3. Picks(<<>>, S, f)
  BY <1>2
<1>4. Picked(<<>>, S) = f[0]
  BY <1>1, PickedIs
<1> HIDE DEF f
<1>5. f = [k \in 0..0 |-> IF k = 0 THEN <<>>
                          ELSE IF <<>>[k] \in S THEN Append(f[k - 1], <<>>[k]) ELSE f[k - 1]]
  BY <1>1, <1>3 DEF Picks
<1>6. f[0] = <<>>
  <2>1. 0 \in 0..0
    OBVIOUS
  <2> QED
    BY <1>5, <2>1
<1> QED
  BY <1>4, <1>6

\* One more item is picked, or is not.
LEMMA PickedAppend ==
  ASSUME NEW T, NEW S, NEW s \in Seq(T), NEW e \in T
  PROVE  Picked(Append(s, e), S) = IF e \in S THEN Append(Picked(s, S), e) ELSE Picked(s, S)
<1> DEFINE f == CHOOSE h : Picks(s, S, h)
<1> DEFINE g == CHOOSE h : Picks(Append(s, e), S, h)
<1> DEFINE n == Len(s)
<1>0. n \in Nat /\ Len(Append(s, e)) = n + 1 /\ Append(s, e)[n + 1] = e /\ Append(s, e) \in Seq(T)
  BY LenProperties, AppendProperties
<1>1. Picks(s, S, f) /\ Picks(Append(s, e), S, g)
  BY <1>0, PicksExist
<1>2. Picked(s, S) = f[n] /\ Picked(Append(s, e), S) = g[n + 1]
  BY <1>0, PickedIs
<1> HIDE DEF f, g
<1>3. \A k \in 0..n : f[k] = g[k]
  BY <1>1, PicksAgree
<1>4. f[n] = g[n]
  <2>1. n \in 0..n
    BY <1>0
  <2> QED
    BY <1>3, <2>1
<1>5. g = [k \in 0..(n + 1) |->
             IF k = 0 THEN <<>>
             ELSE IF Append(s, e)[k] \in S THEN Append(g[k - 1], Append(s, e)[k]) ELSE g[k - 1]]
  BY <1>0, <1>1 DEF Picks
<1>6. n + 1 \in 0..(n + 1) /\ n + 1 # 0 /\ (n + 1) - 1 = n
  BY <1>0
<1> HIDE DEF n
<1>7. g[n + 1] = IF e \in S THEN Append(g[n], e) ELSE g[n]
  <2>1. g[n + 1] = IF n + 1 = 0 THEN <<>>
             ELSE IF Append(s, e)[n + 1] \in S THEN Append(g[(n + 1) - 1], Append(s, e)[n + 1])
                  ELSE g[(n + 1) - 1]
    BY <1>5, <1>6, Zenon
  <2> QED
    BY <1>0, <1>6, <2>1, Zenon
<1> QED
  BY <1>2, <1>4, <1>7

\* A sequence of one element.
LEMMA Single ==
  ASSUME NEW S, NEW e \in S
  PROVE  <<e>> \in Seq(S) /\ Range(<<e>>) = {e}
<1>1. <<e>> \in Seq(S) /\ Len(<<e>>) = 1 /\ <<e>>[1] = e
  OBVIOUS
<1>2. DOMAIN <<e>> = {1}
  BY <1>1
<1> QED
  BY <1>1, <1>2 DEF Range

\* Sequences of fewer things are sequences of more.
LEMMA SeqSubset == ASSUME NEW S, NEW T, S \subseteq T PROVE Seq(S) \subseteq Seq(T)
OBVIOUS

\* An element appended is in the range.
LEMMA RangeAppend ==
  ASSUME NEW S, NEW s \in Seq(S), NEW e \in S
  PROVE  Range(Append(s, e)) = Range(s) \union {e}
<1>1. Append(s, e) = s \o <<e>>
  BY AppendIsConcat
<1>2. <<e>> \in Seq(S) /\ Range(<<e>>) = {e}
  BY Single
<1>3. Range(s \o <<e>>) = Range(s) \union Range(<<e>>)
  BY <1>2, RangeConcatenation
<1> QED
  BY <1>1, <1>2, <1>3

\* A sequence with nothing in it is empty.
LEMMA RangeNone ==
  ASSUME NEW S, NEW s \in Seq(S), Range(s) = {}
  PROVE  s = <<>>
<1>1. Len(s) \in Nat /\ DOMAIN s = 1..Len(s)
  BY LenProperties
<1>2. CASE Len(s) = 0
  BY <1>2, EmptySeq
<1>3. CASE Len(s) # 0
  <2>1. 1 \in DOMAIN s
    BY <1>1, <1>3
  <2>2. s[1] \in Range(s)
    BY <2>1 DEF Range
  <2> QED
    BY <2>2
<1> QED
  BY <1>2, <1>3

\* A function on the first numbers is a sequence.
LEMMA MapIsSeq ==
  ASSUME NEW S, NEW n \in Nat, NEW f, f = [k \in 1..n |-> f[k]], \A k \in 1..n : f[k] \in S
  PROVE  f \in Seq(S) /\ Len(f) = n
OBVIOUS

\* What is picked is a sequence of what was there and is in the set.
LEMMA PickedType ==
  ASSUME NEW T, NEW S
  PROVE  \A s \in Seq(T) : Picked(s, S) \in Seq(S \cap T)
<1> DEFINE Good == {s \in Seq(T) : Picked(s, S) \in Seq(S \cap T)}
<1>1. <<>> \in Good
  BY PickedEmpty, EmptySeq
<1>2. ASSUME NEW r \in Seq(T), NEW e \in T, r \in Good PROVE Append(r, e) \in Good
  <2>1. Append(r, e) \in Seq(T)
    BY AppendProperties
  <2>2. Picked(Append(r, e), S) = IF e \in S THEN Append(Picked(r, S), e) ELSE Picked(r, S)
    BY PickedAppend
  <2>3. e \in S => Append(Picked(r, S), e) \in Seq(S \cap T)
    BY <1>2, AppendProperties
  <2> QED
    BY <1>2, <2>1, <2>2, <2>3
<1>3. Seq(T) \subseteq Good
  <2> HIDE DEF Good
  <2> QED
    BY <1>1, <1>2, SnocInduction
<1> QED
  BY <1>3

\* Appending to a concatenation.
LEMMA AppendConcat ==
  ASSUME NEW T, NEW s \in Seq(T), NEW t \in Seq(T), NEW e \in T
  PROVE  s \o Append(t, e) = Append(s \o t, e)
<1>1. Append(t, e) = t \o <<e>> /\ Append(s \o t, e) = (s \o t) \o <<e>> /\ <<e>> \in Seq(T)
  BY AppendIsConcat, ConcatProperties, Single
<1> QED
  BY <1>1, ConcatAssociative

\* What is picked of a concatenation.
LEMMA PickedConcat ==
  ASSUME NEW T, NEW S, NEW s \in Seq(T)
  PROVE  \A t \in Seq(T) : Picked(s \o t, S) = Picked(s, S) \o Picked(t, S)
<1> DEFINE Good == {t \in Seq(T) : Picked(s \o t, S) = Picked(s, S) \o Picked(t, S)}
<1>0. \A t \in Seq(T) : Picked(t, S) \in Seq(T)
  <2>1. Seq(S \cap T) \subseteq Seq(T)
    BY SeqSubset
  <2> QED
    BY <2>1, PickedType
<1>1. <<>> \in Good
  BY <1>0, PickedEmpty, EmptySeq, ConcatEmptySeq
<1>2. ASSUME NEW r \in Seq(T), NEW e \in T, r \in Good PROVE Append(r, e) \in Good
  <2>1. Append(r, e) \in Seq(T) /\ s \o r \in Seq(T)
    BY AppendProperties, ConcatProperties
  <2>2. s \o Append(r, e) = Append(s \o r, e)
    BY AppendConcat
  <2>3. Picked(Append(s \o r, e), S) = IF e \in S THEN Append(Picked(s \o r, S), e) ELSE Picked(s \o r, S)
    <3>1. PICK q \in Seq(T) : q = s \o r
      BY <2>1
    <3>2. Picked(Append(q, e), S) = IF e \in S THEN Append(Picked(q, S), e) ELSE Picked(q, S)
      BY PickedAppend
    <3> QED
      BY <3>1, <3>2
  <2>4. Picked(Append(r, e), S) = IF e \in S THEN Append(Picked(r, S), e) ELSE Picked(r, S)
    BY PickedAppend
  <2>5. Picked(s, S) \o Append(Picked(r, S), e) = Append(Picked(s, S) \o Picked(r, S), e)
    BY <1>0, AppendConcat
  <2> QED
    BY <1>2, <2>1, <2>2, <2>3, <2>4, <2>5
<1>3. Seq(T) \subseteq Good
  <2> HIDE DEF Good
  <2> QED
    BY <1>1, <1>2, SnocInduction
<1> QED
  BY <1>3

\* What is in the picked items.
LEMMA PickedRange ==
  ASSUME NEW T, NEW S
  PROVE  \A s \in Seq(T) : Range(Picked(s, S)) = Range(s) \cap S
<1> DEFINE Good == {s \in Seq(T) : Range(Picked(s, S)) = Range(s) \cap S}
<1>0. Range(<<>>) = {}
  BY EmptySeq DEF Range
<1>1. <<>> \in Good
  BY <1>0, PickedEmpty, EmptySeq
<1>2. ASSUME NEW r \in Seq(T), NEW e \in T, r \in Good PROVE Append(r, e) \in Good
  <2>1. Append(r, e) \in Seq(T)
    BY AppendProperties
  <2>2. Picked(Append(r, e), S) = IF e \in S THEN Append(Picked(r, S), e) ELSE Picked(r, S)
    BY PickedAppend
  <2>3. Range(Append(r, e)) = Range(r) \union {e}
    BY RangeAppend
  <2>4. Picked(r, S) \in Seq(S \cap T)
    BY PickedType
  <2>5. e \in S => Range(Append(Picked(r, S), e)) = Range(Picked(r, S)) \union {e}
    BY <2>4, RangeAppend
  <2>6. CASE e \in S
    BY <1>2, <2>1, <2>2, <2>3, <2>5, <2>6
  <2>7. CASE e \notin S
    BY <1>2, <2>1, <2>2, <2>3, <2>7
  <2> QED
    BY <2>6, <2>7
<1>3. Seq(T) \subseteq Good
  <2> HIDE DEF Good
  <2> QED
    BY <1>1, <1>2, SnocInduction
<1> QED
  BY <1>3

-----------------------------------------------------------------------------
(* The inputs among items.                                                 *)

\* Inputs are spoken, and what is spoken is an item.
LEMMA Kinds == InputItems \subseteq Spoken /\ Spoken \subseteq Items
BY DEF InputItems, Spoken, Items, SpokenKinds

\* What Item makes.
LEMMA ItemType ==
  ASSUME NEW kind \in SpokenKinds \union {"system"}, NEW n \in Nat
  PROVE  Item(kind, n) \in Items /\ (Item(kind, n) \in InputItems <=> kind \in InputKinds)
BY DEF Item, Items, InputItems

\* Numbers goes through the items one by one.
LEMMA NumbersAppend ==
  ASSUME NEW s \in Seq(Items), NEW e \in Items
  PROVE  Numbers(s) \in Seq(Nat) /\ Numbers(Append(s, e)) = Append(Numbers(s), e.n)
<1>1. Append(s, e) \in Seq(Items) /\ Len(Append(s, e)) = Len(s) + 1 /\ Len(s) \in Nat
      /\ Append(s, e)[Len(s) + 1] = e
      /\ \A k \in 1..Len(s) : Append(s, e)[k] = s[k] /\ s[k] \in Items
  BY AppendProperties, LenProperties, ElementOfSeq
<1>2. \A i \in Items : i.n \in Nat
  BY DEF Items
<1>3. DOMAIN s = 1..Len(s) /\ DOMAIN Append(s, e) = 1..(Len(s) + 1)
  BY <1>1, LenProperties
<1>4. Numbers(s) \in Seq(Nat) /\ Len(Numbers(s)) = Len(s)
  BY <1>1, <1>2, <1>3, MapIsSeq DEF Numbers
<1>5. Append(Numbers(s), e.n) \in Seq(Nat) /\ Len(Append(Numbers(s), e.n)) = Len(s) + 1
      /\ Append(Numbers(s), e.n)[Len(s) + 1] = e.n
      /\ \A k \in 1..Len(s) : Append(Numbers(s), e.n)[k] = Numbers(s)[k]
  BY <1>2, <1>4, AppendProperties
<1>6. Numbers(Append(s, e)) = [k \in 1..(Len(s) + 1) |-> Append(s, e)[k].n]
  BY <1>3 DEF Numbers
<1>7. Numbers(Append(s, e)) \in Seq(Nat) /\ Len(Numbers(Append(s, e))) = Len(s) + 1
  BY <1>1, <1>2, <1>6, MapIsSeq
<1>8. ASSUME NEW k \in 1..(Len(s) + 1) PROVE Numbers(Append(s, e))[k] = Append(Numbers(s), e.n)[k]
  <2>1. Numbers(Append(s, e))[k] = Append(s, e)[k].n
    BY <1>6
  <2>2. CASE k = Len(s) + 1
    BY <1>1, <1>5, <2>1, <2>2
  <2>3. CASE k \in 1..Len(s)
    <3>1. Numbers(s)[k] = s[k].n
      BY <1>3, <2>3 DEF Numbers
    <3> QED
      BY <1>1, <1>5, <2>1, <2>3, <3>1
  <2>4. Len(s) \in Nat
    BY <1>1
  <2>5. k = Len(s) + 1 \/ k \in 1..Len(s)
    BY <2>4
  <2> QED
    BY <2>2, <2>3, <2>5
<1>9. Numbers(Append(s, e)) = Append(Numbers(s), e.n)
  BY <1>5, <1>7, <1>8, SeqEqual
<1> QED
  BY <1>4, <1>9

\* No items, no inputs.
LEMMA InputsEmpty == Inputs(<<>>) = <<>>
<1>1. Numbers(<<>>) = <<>>
  BY DEF Numbers
<1> QED
  BY <1>1, PickedEmpty DEF Inputs

\* One more item is one more input, if it is one.
LEMMA InputsAppend ==
  ASSUME NEW s \in Seq(Items), NEW e \in Items
  PROVE  Inputs(Append(s, e)) = IF e \in InputItems THEN Append(Inputs(s), e.n) ELSE Inputs(s)
<1>1. Picked(s, InputItems) \in Seq(Items)
  <2>1. Seq(InputItems \cap Items) \subseteq Seq(Items)
    BY SeqSubset
  <2> QED
    BY <2>1, PickedType
<1>2. Picked(Append(s, e), InputItems)
        = IF e \in InputItems THEN Append(Picked(s, InputItems), e) ELSE Picked(s, InputItems)
  BY PickedAppend
<1>3. Numbers(Append(Picked(s, InputItems), e)) = Append(Numbers(Picked(s, InputItems)), e.n)
  BY <1>1, NumbersAppend
<1> QED
  BY <1>2, <1>3 DEF Inputs

\* Inputs are numbers.
LEMMA InputsType == \A s \in Seq(Items) : Inputs(s) \in Seq(Nat)
<1> SUFFICES ASSUME NEW s \in Seq(Items) PROVE Inputs(s) \in Seq(Nat)
  OBVIOUS
<1>1. Picked(s, InputItems) \in Seq(Items)
  <2>1. Seq(InputItems \cap Items) \subseteq Seq(Items)
    BY SeqSubset
  <2> QED
    BY <2>1, PickedType
<1>2. Item("user", 0) \in Items
  BY ItemType DEF SpokenKinds, InputKinds
<1>3. Numbers(Picked(s, InputItems)) \in Seq(Nat)
  BY <1>1, <1>2, NumbersAppend
<1> QED
  BY <1>3 DEF Inputs

\* The inputs of a concatenation.
LEMMA InputsConcat ==
  ASSUME NEW s \in Seq(Items)
  PROVE  \A t \in Seq(Items) : Inputs(s \o t) = Inputs(s) \o Inputs(t)
<1> DEFINE Good == {t \in Seq(Items) : Inputs(s \o t) = Inputs(s) \o Inputs(t)}
<1>1. <<>> \in Good
  BY InputsEmpty, InputsType, EmptySeq, ConcatEmptySeq
<1>2. ASSUME NEW r \in Seq(Items), NEW e \in Items, r \in Good PROVE Append(r, e) \in Good
  <2>1. Append(r, e) \in Seq(Items)
    BY AppendProperties
  <2>2. PICK q \in Seq(Items) : q = s \o r
    BY ConcatProperties
  <2>3. s \o Append(r, e) = Append(q, e)
    BY <2>2, AppendConcat
  <2>4. Inputs(Append(q, e)) = IF e \in InputItems THEN Append(Inputs(q), e.n) ELSE Inputs(q)
    BY InputsAppend
  <2>5. Inputs(Append(r, e)) = IF e \in InputItems THEN Append(Inputs(r), e.n) ELSE Inputs(r)
    BY InputsAppend
  <2>6. Inputs(s) \o Append(Inputs(r), e.n) = Append(Inputs(s) \o Inputs(r), e.n)
    <3>1. e.n \in Nat
      BY DEF Items
    <3>2. Inputs(s) \in Seq(Nat) /\ Inputs(r) \in Seq(Nat)
      BY InputsType
    <3> QED
      BY <3>1, <3>2, AppendConcat
  <2> QED
    BY <1>2, <2>1, <2>2, <2>3, <2>4, <2>5, <2>6
<1>3. Seq(Items) \subseteq Good
  <2> HIDE DEF Good
  <2> QED
    BY <1>1, <1>2, SnocInduction
<1> QED
  BY <1>3

\* Where no item is an input there are no inputs.
LEMMA InputsNone ==
  ASSUME NEW s \in Seq(Items), Range(s) \cap InputItems = {}
  PROVE  Inputs(s) = <<>>
<1>1. Range(Picked(s, InputItems)) = {} /\ Picked(s, InputItems) \in Seq(InputItems \cap Items)
  BY PickedRange, PickedType
<1>2. Picked(s, InputItems) = <<>>
  BY <1>1, RangeNone
<1>3. Numbers(<<>>) = <<>>
  BY DEF Numbers
<1> QED
  BY <1>2, <1>3 DEF Inputs

\* What a request records of its inputs are all of them.
LEMMA InputsSpoken == \A s \in Seq(Items) : Inputs(Picked(s, Spoken)) = Inputs(s)
<1> DEFINE Good == {s \in Seq(Items) : Inputs(Picked(s, Spoken)) = Inputs(s)}
<1>1. <<>> \in Good
  BY PickedEmpty, EmptySeq
<1>2. ASSUME NEW r \in Seq(Items), NEW e \in Items, r \in Good PROVE Append(r, e) \in Good
  <2>1. Append(r, e) \in Seq(Items)
    BY AppendProperties
  <2>2. PICK q \in Seq(Items) : q = Picked(r, Spoken)
    <3>1. Seq(Spoken \cap Items) \subseteq Seq(Items)
      BY SeqSubset
    <3> QED
      BY <3>1, PickedType
  <2>3. Picked(Append(r, e), Spoken) = IF e \in Spoken THEN Append(q, e) ELSE q
    BY <2>2, PickedAppend
  <2>4. Inputs(Append(q, e)) = IF e \in InputItems THEN Append(Inputs(q), e.n) ELSE Inputs(q)
    BY InputsAppend
  <2>5. Inputs(Append(r, e)) = IF e \in InputItems THEN Append(Inputs(r), e.n) ELSE Inputs(r)
    BY InputsAppend
  <2>6. e \in InputItems => e \in Spoken
    BY Kinds
  <2> QED
    BY <1>2, <2>1, <2>2, <2>3, <2>4, <2>5, <2>6
<1>3. Seq(Items) \subseteq Good
  <2> HIDE DEF Good
  <2> QED
    BY <1>1, <1>2, SnocInduction
<1> QED
  BY <1>3

\* replace_mcp copies items as text.
CopiedItems(s) == [k \in DOMAIN s |-> AsText(s[k])]

\* As text an item is an item, an input as before, and no call.
LEMMA AsTextType ==
  ASSUME NEW e \in Items
  PROVE  /\ AsText(e) \in Items /\ AsText(e).kind # "call" /\ AsText(e).n = e.n
         /\ AsText(e) \in InputItems <=> e \in InputItems
<1>1. e = [kind |-> e.kind, n |-> e.n] /\ e.n \in Nat /\ e.kind \in SpokenKinds \union {"system"}
  BY DEF Items
<1> QED
  BY <1>1 DEF AsText, Item, Items, InputItems, SpokenKinds, InputKinds

\* Copying goes item by item.
LEMMA CopiedAppend ==
  ASSUME NEW s \in Seq(Items), NEW e \in Items
  PROVE  CopiedItems(s) \in Seq(Items) /\ CopiedItems(Append(s, e)) = Append(CopiedItems(s), AsText(e))
<1>1. Append(s, e) \in Seq(Items) /\ Len(Append(s, e)) = Len(s) + 1 /\ Len(s) \in Nat
      /\ Append(s, e)[Len(s) + 1] = e
      /\ \A k \in 1..Len(s) : Append(s, e)[k] = s[k] /\ s[k] \in Items
  BY AppendProperties, LenProperties, ElementOfSeq
<1>2. \A i \in Items : AsText(i) \in Items
  BY AsTextType
<1>3. DOMAIN s = 1..Len(s) /\ DOMAIN Append(s, e) = 1..(Len(s) + 1)
  BY <1>1, LenProperties
<1>4. CopiedItems(s) \in Seq(Items) /\ Len(CopiedItems(s)) = Len(s)
  BY <1>1, <1>2, <1>3, MapIsSeq DEF CopiedItems
<1>5. Append(CopiedItems(s), AsText(e)) \in Seq(Items)
      /\ Len(Append(CopiedItems(s), AsText(e))) = Len(s) + 1
      /\ Append(CopiedItems(s), AsText(e))[Len(s) + 1] = AsText(e)
      /\ \A k \in 1..Len(s) : Append(CopiedItems(s), AsText(e))[k] = CopiedItems(s)[k]
  BY <1>2, <1>4, AppendProperties
<1>6. CopiedItems(Append(s, e)) = [k \in 1..(Len(s) + 1) |-> AsText(Append(s, e)[k])]
  BY <1>3 DEF CopiedItems
<1>7. CopiedItems(Append(s, e)) \in Seq(Items) /\ Len(CopiedItems(Append(s, e))) = Len(s) + 1
  BY <1>1, <1>2, <1>6, MapIsSeq
<1>8. ASSUME NEW k \in 1..(Len(s) + 1)
      PROVE  CopiedItems(Append(s, e))[k] = Append(CopiedItems(s), AsText(e))[k]
  <2>1. CopiedItems(Append(s, e))[k] = AsText(Append(s, e)[k])
    BY <1>6
  <2>2. CASE k = Len(s) + 1
    BY <1>1, <1>5, <2>1, <2>2
  <2>3. CASE k \in 1..Len(s)
    <3>1. CopiedItems(s)[k] = AsText(s[k])
      BY <1>3, <2>3 DEF CopiedItems
    <3> QED
      BY <1>1, <1>5, <2>1, <2>3, <3>1
  <2>4. Len(s) \in Nat
    BY <1>1
  <2>5. k = Len(s) + 1 \/ k \in 1..Len(s)
    BY <2>4
  <2> QED
    BY <2>2, <2>3, <2>5
<1>9. CopiedItems(Append(s, e)) = Append(CopiedItems(s), AsText(e))
  BY <1>5, <1>7, <1>8, SeqEqual
<1> QED
  BY <1>4, <1>9

\* As text, a result is an input still, and a call is none.
LEMMA InputsCopied == \A s \in Seq(Items) : Inputs(CopiedItems(s)) = Inputs(s)
<1> DEFINE Good == {s \in Seq(Items) : Inputs(CopiedItems(s)) = Inputs(s)}
<1>1. <<>> \in Good
  <2>1. CopiedItems(<<>>) = <<>>
    BY DEF CopiedItems
  <2> QED
    BY <2>1, EmptySeq
<1>2. ASSUME NEW r \in Seq(Items), NEW e \in Items, r \in Good PROVE Append(r, e) \in Good
  <2>1. Append(r, e) \in Seq(Items)
    BY AppendProperties
  <2>2. PICK q \in Seq(Items) : q = CopiedItems(r)
    BY CopiedAppend
  <2>3. PICK d \in Items : d = AsText(e) /\ d.n = e.n /\ (d \in InputItems <=> e \in InputItems)
    BY AsTextType
  <2>4. CopiedItems(Append(r, e)) = Append(q, d)
    BY <2>2, <2>3, CopiedAppend
  <2>5. Inputs(Append(q, d)) = IF d \in InputItems THEN Append(Inputs(q), d.n) ELSE Inputs(q)
    BY InputsAppend
  <2>6. Inputs(Append(r, e)) = IF e \in InputItems THEN Append(Inputs(r), e.n) ELSE Inputs(r)
    BY InputsAppend
  <2> QED
    BY <1>2, <2>1, <2>2, <2>3, <2>4, <2>5, <2>6
<1>3. Seq(Items) \subseteq Good
  <2> HIDE DEF Good
  <2> QED
    BY <1>1, <1>2, SnocInduction
<1> QED
  BY <1>3

-----------------------------------------------------------------------------
(* The inputs that wait.                                                   *)

\* A call is recorded with the answer; it never waits.
CanWait == {e \in Items : e.kind # "call"}
Slots == [value : CanWait, persisted : BOOLEAN]
Kept == [value : Spoken, persisted : BOOLEAN]
ToWrite == [value : Spoken, persisted : {FALSE}]

\* The inputs among slots: all, and those not marked as persisted.
Waiting(p) == Inputs(Values(p))
Unwritten(p) == Inputs(Values(Picked(p, NotMarked)))

\* What a slot holds, and which sets it is in.
LEMMA SlotType ==
  ASSUME NEW x \in Slots
  PROVE  /\ x.value \in Items /\ x.value.kind # "call" /\ x.persisted \in BOOLEAN
         /\ x \in Kept <=> x.value \in Spoken
         /\ x \in NotMarked <=> x.persisted = FALSE
         /\ x \in ToWrite <=> x.value \in Spoken /\ x.persisted = FALSE
<1>1. x = [value |-> x.value, persisted |-> x.persisted] /\ x.value \in CanWait /\ x.persisted \in BOOLEAN
  BY DEF Slots
<1>2. x.value \in Items /\ x.value.kind # "call"
  BY <1>1 DEF CanWait
<1> QED
  BY <1>1, <1>2 DEF Kept, NotMarked, ToWrite

\* What Unsaved makes.
LEMMA UnsavedType ==
  ASSUME NEW e \in CanWait
  PROVE  Unsaved(e) \in Slots /\ Unsaved(e).value = e /\ Unsaved(e).persisted = FALSE
BY DEF Unsaved, Slots

\* What is picked of slots are slots.
LEMMA PickedSlots == \A S : \A p \in Seq(Slots) : Picked(p, S) \in Seq(Slots)
<1> SUFFICES ASSUME NEW S, NEW p \in Seq(Slots) PROVE Picked(p, S) \in Seq(Slots)
  OBVIOUS
<1>1. Seq(S \cap Slots) \subseteq Seq(Slots)
  BY SeqSubset
<1> QED
  BY <1>1, PickedType

\* No slots, no values.
LEMMA ValuesEmpty == Values(<<>>) = <<>>
BY DEF Values

\* The values of slots are items.
LEMMA ValuesType ==
  ASSUME NEW s \in Seq(Slots)
  PROVE  /\ Values(s) \in Seq(Items) /\ Len(Values(s)) = Len(s)
         /\ \A k \in 1..Len(s) : Values(s)[k] = s[k].value
<1>1. Len(s) \in Nat /\ DOMAIN s = 1..Len(s) /\ \A k \in 1..Len(s) : s[k] \in Slots
  BY LenProperties, ElementOfSeq
<1>2. \A x \in Slots : x.value \in Items
  BY SlotType
<1> QED
  BY <1>1, <1>2, MapIsSeq DEF Values

\* The values of one more slot.
LEMMA ValuesAppend ==
  ASSUME NEW s \in Seq(Slots), NEW x \in Slots
  PROVE  Values(Append(s, x)) = Append(Values(s), x.value)
<1>1. PICK t \in Seq(Slots) : t = Append(s, x) /\ Len(t) = Len(s) + 1 /\ t[Len(s) + 1] = x
                              /\ \A k \in 1..Len(s) : t[k] = s[k]
  <2>1. /\ Append(s, x) \in Seq(Slots) /\ Len(Append(s, x)) = Len(s) + 1
        /\ Append(s, x)[Len(s) + 1] = x /\ \A k \in 1..Len(s) : Append(s, x)[k] = s[k]
    BY AppendProperties
  <2> QED
    BY <2>1, Zenon
<1>2. Len(s) \in Nat
  BY LenProperties
<1>3. PICK v \in Seq(Items) : v = Values(s) /\ Len(v) = Len(s)
                              /\ \A k \in 1..Len(s) : v[k] = s[k].value
  BY ValuesType
<1>4. PICK w \in Seq(Items) : w = Values(t) /\ Len(w) = Len(t)
                              /\ \A k \in 1..Len(t) : w[k] = t[k].value
  BY ValuesType
<1>5. x.value \in Items
  BY SlotType
<1>6. PICK u \in Seq(Items) : u = Append(v, x.value) /\ Len(u) = Len(v) + 1 /\ u[Len(v) + 1] = x.value
                              /\ \A k \in 1..Len(v) : u[k] = v[k]
  <2>1. /\ Append(v, x.value) \in Seq(Items) /\ Len(Append(v, x.value)) = Len(v) + 1
        /\ Append(v, x.value)[Len(v) + 1] = x.value
        /\ \A k \in 1..Len(v) : Append(v, x.value)[k] = v[k]
    BY <1>5, AppendProperties
  <2> QED
    BY <2>1, Zenon
<1>7. ASSUME NEW k \in 1..Len(w) PROVE w[k] = u[k]
  <2>1. k = Len(s) + 1 \/ k \in 1..Len(s)
    BY <1>1, <1>2, <1>4
  <2>2. CASE k = Len(s) + 1
    BY <1>1, <1>3, <1>4, <1>6, <2>2
  <2>3. CASE k \in 1..Len(s)
    BY <1>1, <1>3, <1>4, <1>6, <2>3
  <2> QED
    BY <2>1, <2>2, <2>3
<1>8. w = u
  BY <1>1, <1>3, <1>4, <1>6, <1>7, SeqEqual
<1> QED
  BY <1>1, <1>3, <1>4, <1>6, <1>8

\* Nothing waits in no slots.
LEMMA WaitingEmpty == Waiting(<<>>) = <<>>
BY ValuesEmpty, InputsEmpty DEF Waiting

\* One more slot is one more input that waits, if it is one.
LEMMA WaitingAppend ==
  ASSUME NEW s \in Seq(Slots), NEW x \in Slots
  PROVE  Waiting(Append(s, x))
           = IF x.value \in InputItems THEN Append(Waiting(s), x.value.n) ELSE Waiting(s)
<1>1. Values(s) \in Seq(Items) /\ x.value \in Items
  BY ValuesType, SlotType
<1>2. Inputs(Append(Values(s), x.value))
        = IF x.value \in InputItems THEN Append(Inputs(Values(s)), x.value.n) ELSE Inputs(Values(s))
  BY <1>1, InputsAppend
<1> QED
  BY <1>2, ValuesAppend DEF Waiting

\* What waits, or is unwritten, are numbers.
LEMMA WaitingType == \A s \in Seq(Slots) : Waiting(s) \in Seq(Nat) /\ Unwritten(s) \in Seq(Nat)
<1> SUFFICES ASSUME NEW s \in Seq(Slots) PROVE Waiting(s) \in Seq(Nat) /\ Unwritten(s) \in Seq(Nat)
  OBVIOUS
<1>1. \A p \in Seq(Slots) : Inputs(Values(p)) \in Seq(Nat)
  BY ValuesType, InputsType
<1> QED
  BY <1>1, PickedSlots DEF Waiting, Unwritten

\* What waits in a concatenation.
LEMMA WaitingConcat ==
  ASSUME NEW s \in Seq(Slots)
  PROVE  \A t \in Seq(Slots) : Waiting(s \o t) = Waiting(s) \o Waiting(t)
<1> DEFINE Good == {t \in Seq(Slots) : Waiting(s \o t) = Waiting(s) \o Waiting(t)}
<1>1. <<>> \in Good
  BY WaitingEmpty, WaitingType, EmptySeq, ConcatEmptySeq
<1>2. ASSUME NEW r \in Seq(Slots), NEW e \in Slots, r \in Good PROVE Append(r, e) \in Good
  <2>1. Append(r, e) \in Seq(Slots)
    BY AppendProperties
  <2>2. PICK q \in Seq(Slots) : q = s \o r
    BY ConcatProperties
  <2>3. s \o Append(r, e) = Append(q, e)
    BY <2>2, AppendConcat
  <2>4. Waiting(Append(q, e)) = IF e.value \in InputItems THEN Append(Waiting(q), e.value.n) ELSE Waiting(q)
    BY WaitingAppend
  <2>5. Waiting(Append(r, e)) = IF e.value \in InputItems THEN Append(Waiting(r), e.value.n) ELSE Waiting(r)
    BY WaitingAppend
  <2>6. Waiting(s) \o Append(Waiting(r), e.value.n) = Append(Waiting(s) \o Waiting(r), e.value.n)
    <3>1. e.value.n \in Nat
      BY SlotType DEF Items
    <3>2. Waiting(s) \in Seq(Nat) /\ Waiting(r) \in Seq(Nat)
      BY WaitingType
    <3> QED
      BY <3>1, <3>2, AppendConcat
  <2> QED
    BY <1>2, <2>1, <2>2, <2>3, <2>4, <2>5, <2>6
<1>3. Seq(Slots) \subseteq Good
  <2> HIDE DEF Good
  <2> QED
    BY <1>1, <1>2, SnocInduction
<1> QED
  BY <1>3

\* Nothing is unwritten in no slots.
LEMMA UnwrittenEmpty == Unwritten(<<>>) = <<>>
BY PickedEmpty, WaitingEmpty DEF Unwritten, Waiting

\* One more slot is unwritten if it is not marked.
LEMMA UnwrittenAppend ==
  ASSUME NEW s \in Seq(Slots), NEW x \in Slots
  PROVE  Unwritten(Append(s, x))
           = IF x.value \in InputItems /\ x.persisted = FALSE THEN Append(Unwritten(s), x.value.n)
             ELSE Unwritten(s)
<1>1. PICK q \in Seq(Slots) : q = Picked(s, NotMarked)
  BY PickedSlots
<1>2. Picked(Append(s, x), NotMarked) = IF x \in NotMarked THEN Append(q, x) ELSE q
  BY <1>1, PickedAppend
<1>3. Waiting(Append(q, x)) = IF x.value \in InputItems THEN Append(Waiting(q), x.value.n) ELSE Waiting(q)
  BY WaitingAppend
<1>4. x \in NotMarked <=> x.persisted = FALSE
  BY SlotType
<1>5. Unwritten(s) = Waiting(q) /\ Unwritten(Append(s, x)) = Waiting(Picked(Append(s, x), NotMarked))
  BY <1>1 DEF Unwritten, Waiting
<1> QED
  BY <1>2, <1>3, <1>4, <1>5

\* What is unwritten in a concatenation.
LEMMA UnwrittenConcat ==
  ASSUME NEW s \in Seq(Slots)
  PROVE  \A t \in Seq(Slots) : Unwritten(s \o t) = Unwritten(s) \o Unwritten(t)
<1> SUFFICES ASSUME NEW t \in Seq(Slots) PROVE Unwritten(s \o t) = Unwritten(s) \o Unwritten(t)
  OBVIOUS
<1>1. Picked(s \o t, NotMarked) = Picked(s, NotMarked) \o Picked(t, NotMarked)
  BY PickedConcat
<1>2. Picked(s, NotMarked) \in Seq(Slots) /\ Picked(t, NotMarked) \in Seq(Slots)
  BY PickedSlots
<1>3. Waiting(Picked(s, NotMarked) \o Picked(t, NotMarked))
        = Waiting(Picked(s, NotMarked)) \o Waiting(Picked(t, NotMarked))
  BY <1>2, WaitingConcat
<1>4. \A p : Unwritten(p) = Waiting(Picked(p, NotMarked))
  BY DEF Unwritten, Waiting
<1> QED
  BY <1>1, <1>3, <1>4

\* What is retried are all inputs, marked as they were.
LEMMA RetryKeeps == \A s \in Seq(Slots) : Waiting(Retry(s)) = Waiting(s) /\ Unwritten(Retry(s)) = Unwritten(s)
<1> DEFINE Good == {s \in Seq(Slots) : /\ Waiting(Picked(s, Kept)) = Waiting(s)
                                       /\ Unwritten(Picked(s, Kept)) = Unwritten(s)}
<1>1. <<>> \in Good
  BY PickedEmpty, EmptySeq
<1>2. ASSUME NEW r \in Seq(Slots), NEW e \in Slots, r \in Good PROVE Append(r, e) \in Good
  <2>1. Append(r, e) \in Seq(Slots)
    BY AppendProperties
  <2>2. PICK q \in Seq(Slots) : q = Picked(r, Kept)
    BY PickedSlots
  <2>3. Picked(Append(r, e), Kept) = IF e \in Kept THEN Append(q, e) ELSE q
    BY <2>2, PickedAppend
  <2>4. \A p \in Seq(Slots) :
          /\ Waiting(Append(p, e)) = IF e.value \in InputItems THEN Append(Waiting(p), e.value.n) ELSE Waiting(p)
          /\ Unwritten(Append(p, e)) = IF e.value \in InputItems /\ e.persisted = FALSE
                                       THEN Append(Unwritten(p), e.value.n) ELSE Unwritten(p)
    BY WaitingAppend, UnwrittenAppend
  <2>5. e.value \in InputItems => e \in Kept
    BY Kinds, SlotType
  <2> HIDE DEF Kept
  <2> QED
    BY <1>2, <2>1, <2>2, <2>3, <2>4, <2>5
<1>3. Seq(Slots) \subseteq Good
  <2> HIDE DEF Good
  <2> QED
    BY <1>1, <1>2, SnocInduction
<1> QED
  BY <1>3 DEF Retry, Kept

\* The rows that are written hold the inputs that were not.
LEMMA RowsHold == \A s \in Seq(Slots) : Waiting(Picked(s, ToWrite)) = Unwritten(s)
<1> DEFINE Good == {s \in Seq(Slots) : Waiting(Picked(s, ToWrite)) = Unwritten(s)}
<1>1. <<>> \in Good
  BY PickedEmpty, EmptySeq, WaitingEmpty, UnwrittenEmpty
<1>2. ASSUME NEW r \in Seq(Slots), NEW e \in Slots, r \in Good PROVE Append(r, e) \in Good
  <2>1. Append(r, e) \in Seq(Slots)
    BY AppendProperties
  <2>2. PICK q \in Seq(Slots) : q = Picked(r, ToWrite)
    BY PickedSlots
  <2>3. Picked(Append(r, e), ToWrite) = IF e \in ToWrite THEN Append(q, e) ELSE q
    BY <2>2, PickedAppend
  <2>4. Waiting(Append(q, e)) = IF e.value \in InputItems THEN Append(Waiting(q), e.value.n) ELSE Waiting(q)
    BY WaitingAppend
  <2>5. Unwritten(Append(r, e)) = IF e.value \in InputItems /\ e.persisted = FALSE
                                  THEN Append(Unwritten(r), e.value.n) ELSE Unwritten(r)
    BY UnwrittenAppend
  <2>6. e \in ToWrite <=> e.value \in Spoken /\ e.persisted = FALSE
    BY SlotType
  <2>7. e.value \in InputItems => e.value \in Spoken
    BY Kinds
  <2> QED
    BY <1>2, <2>1, <2>2, <2>3, <2>4, <2>5, <2>6, <2>7
<1>3. Seq(Slots) \subseteq Good
  <2> HIDE DEF Good
  <2> QED
    BY <1>1, <1>2, SnocInduction
<1> QED
  BY <1>3

-----------------------------------------------------------------------------
(* The operations of a chat.                                               *)

Chats == [row : BOOLEAN, pending : Seq(Slots), prims : Seq(Items), wire : Seq(Items)]

\* The fields of a chat.
LEMMA ChatType ==
  ASSUME NEW c \in Chats
  PROVE  c.row \in BOOLEAN /\ c.pending \in Seq(Slots) /\ c.prims \in Seq(Items) /\ c.wire \in Seq(Items)
BY DEF Chats

\* What is said by slots is what their values are.
LEMMA ValuesRange == \A p \in Seq(Slots) : Range(Values(p)) = {x.value : x \in Range(p)}
<1> SUFFICES ASSUME NEW p \in Seq(Slots) PROVE Range(Values(p)) = {x.value : x \in Range(p)}
  OBVIOUS
<1> QED
  BY DEF Values, Range

\* No call is among the values of slots.
LEMMA NoCallWaits == \A p \in Seq(Slots) : \A e \in Range(Values(p)) : e \in Items /\ e.kind # "call"
<1> SUFFICES ASSUME NEW p \in Seq(Slots) PROVE \A e \in Range(Values(p)) : e \in Items /\ e.kind # "call"
  OBVIOUS
<1>1. Range(p) \subseteq Slots
  BY RangeOfSeq
<1>2. \A x \in Slots : x.value \in Items /\ x.value.kind # "call"
  BY SlotType
<1>3. Range(Values(p)) = {x.value : x \in Range(p)}
  BY ValuesRange
<1> QED
  BY <1>1, <1>2, <1>3

\* An element put into a sequence goes between its two parts.
Parts(T, s, k, x) ==
  \E a \in Seq(T) : \E b \in Seq(T) : s = a \o b /\ InsertAt(s, k + 1, x) = (a \o <<x>>) \o b

\* InsertAt splits a sequence in two.
LEMMA Inserted ==
  ASSUME NEW T
  PROVE  \A s \in Seq(T) : \A x \in T : \A k \in 0..Len(s) : Parts(T, s, k, x)
<1> SUFFICES ASSUME NEW s \in Seq(T), NEW x \in T, NEW k \in 0..Len(s)
    PROVE  \E a \in Seq(T) : \E b \in Seq(T) : s = a \o b /\ InsertAt(s, k + 1, x) = (a \o <<x>>) \o b
  BY DEF Parts
<1>0. Len(s) \in Nat
  BY LenProperties
<1>1. PICK a \in Seq(T) : /\ a = SubSeq(s, 1, k) /\ Len(a) = k /\ \A i \in 1..k : a[i] = s[i]
  <2>1. \A i \in 1..Len(s) : s[i] \in T
    BY ElementOfSeq
  <2>2. \A i \in 1..k : i \in 1..Len(s)
    BY <1>0
  <2>3. k \in Int /\ 1 \in Int /\ (IF 1 <= k THEN k - 1 + 1 ELSE 0) = k
    BY <1>0
  <2>4. SubSeq(s, 1, k) \in Seq(T) /\ Len(SubSeq(s, 1, k)) = k
        /\ \A i \in 1..k : SubSeq(s, 1, k)[i] = s[i]
    BY <1>0, <2>1, <2>2, <2>3, SubSeqProperties
  <2> QED
    BY <2>4, Zenon
<1>2. PICK b \in Seq(T) : /\ b = SubSeq(s, k + 1, Len(s)) /\ Len(b) = Len(s) - k
                          /\ \A i \in 1..(Len(s) - k) : b[i] = s[k + i]
  <2>1. \A i \in 1..Len(s) : s[i] \in T
    BY ElementOfSeq
  <2>2. \A i \in (k + 1)..Len(s) : i \in 1..Len(s)
    BY <1>0
  <2>3. k + 1 \in Int /\ Len(s) \in Int
        /\ (IF k + 1 <= Len(s) THEN Len(s) - (k + 1) + 1 ELSE 0) = Len(s) - k
    BY <1>0
  <2>4. SubSeq(s, k + 1, Len(s)) \in Seq(T) /\ Len(SubSeq(s, k + 1, Len(s))) = Len(s) - k
        /\ \A i \in 1..(Len(s) - k) : SubSeq(s, k + 1, Len(s))[i] = s[(k + 1) + i - 1]
    BY <1>0, <2>1, <2>2, <2>3, SubSeqProperties
  <2>5. \A i \in 1..(Len(s) - k) : (k + 1) + i - 1 = k + i
    BY <1>0
  <2> QED
    BY <2>4, <2>5, Zenon
<1>3. s = a \o b
  <2>1. a \o b \in Seq(T) /\ Len(a \o b) = Len(s)
    BY <1>0, <1>1, <1>2, ConcatProperties
  <2>2. \A i \in 1..Len(s) : (a \o b)[i] = IF i <= k THEN a[i] ELSE b[i - k]
    <3>1. \A i \in 1..(Len(a) + Len(b)) : (a \o b)[i] = IF i <= Len(a) THEN a[i] ELSE b[i - Len(a)]
      BY ConcatProperties
    <3>2. Len(a) = k /\ Len(b) = Len(s) - k /\ k \in Nat
      BY <1>0, <1>1, <1>2
    <3>3. Len(a) + Len(b) = Len(s)
      BY <1>0, <3>2
    <3> QED
      BY <3>1, <3>2, <3>3
  <2>3. ASSUME NEW i \in 1..Len(s) PROVE s[i] = (a \o b)[i]
    <3>1. CASE i <= k
      BY <1>1, <2>2, <3>1
    <3>2. CASE ~(i <= k)
      <4>1. i - k \in 1..(Len(s) - k) /\ k + (i - k) = i
        BY <1>0, <3>2
      <4> QED
        BY <1>2, <2>2, <3>2, <4>1
    <3> QED
      BY <3>1, <3>2
  <2> QED
    BY <2>1, <2>3, SeqEqual
<1>4. InsertAt(s, k + 1, x) = (a \o <<x>>) \o b
  <2>1. (k + 1) - 1 = k
    OBVIOUS
  <2> QED
    BY <1>1, <1>2, <2>1 DEF InsertAt
<1> QED
  BY <1>3, <1>4

\* A set of numbers up to some has a last one.
LEMMA LastOf ==
  ASSUME NEW n \in Nat, NEW S, S \subseteq 1..n, S # {}
  PROVE  \E k \in S : \A j \in S : j <= k
<1> DEFINE Behind == {n - k : k \in S}
<1>1. Behind \subseteq Nat /\ Behind # {}
  <2>1. \A k \in S : k \in Nat /\ k <= n
    OBVIOUS
  <2>2. \A k \in S : n - k \in Nat
    BY <2>1
  <2> QED
    BY <2>2
<1>2. PICK m \in Behind : \A j \in Behind : m <= j
  BY <1>1, FirstOf
<1>3. PICK k \in S : m = n - k
  BY <1>2
<1>4. ASSUME NEW j \in S PROVE j <= k
  <2>1. n - k <= n - j
    BY <1>2, <1>3
  <2>2. j \in 1..n /\ k \in 1..n
    OBVIOUS
  <2> QED
    BY <2>1, <2>2
<1> QED
  BY <1>4

\* A system input is an item, and no input of the user.
LEMMA SystemType == System \in Items /\ System \notin InputItems /\ System.kind = "system"
BY ItemType DEF System, Item, InputKinds

\* A system input put in says nothing new.
LEMMA PushSystemKeeps ==
  ASSUME NEW c \in Chats
  PROVE  /\ PushSystem(c) \in Chats
         /\ PushSystem(c).prims = c.prims /\ PushSystem(c).wire = c.wire
         /\ Waiting(PushSystem(c).pending) = Waiting(c.pending)
         /\ Unwritten(PushSystem(c).pending) = Unwritten(c.pending)
         /\ Range(Values(c.pending)) \subseteq Range(Values(PushSystem(c).pending))
<1> DEFINE SystemAt == {k \in DOMAIN c.pending : IsSystem(c.pending[k].value)}
<1> DEFINE pos == IF SystemAt = {} THEN 0 ELSE CHOOSE k \in SystemAt : \A j \in SystemAt : j <= k
<1> DEFINE x == Unsaved(System)
<1>0. c.pending \in Seq(Slots) /\ Len(c.pending) \in Nat /\ DOMAIN c.pending = 1..Len(c.pending)
  BY ChatType, LenProperties
<1>1. pos \in 0..Len(c.pending)
  <2>1. CASE SystemAt = {}
    BY <1>0, <2>1
  <2>2. CASE SystemAt # {}
    <3>1. SystemAt \subseteq 1..Len(c.pending)
      BY <1>0
    <3>2. \E k \in SystemAt : \A j \in SystemAt : j <= k
      BY <1>0, <2>2, <3>1, LastOf
    <3>3. pos \in SystemAt
      <4> HIDE DEF SystemAt
      <4> QED
        BY <2>2, <3>2
    <3> QED
      BY <1>0, <3>1, <3>3
  <2> QED
    BY <2>1, <2>2
<1>2. x \in Slots /\ x.value = System
  <2>1. System \in CanWait
    BY SystemType DEF CanWait
  <2> QED
    BY <2>1, UnsavedType
<1>3. PushSystem(c) = [c EXCEPT !.pending = InsertAt(c.pending, pos + 1, x)]
  BY DEF PushSystem
<1> HIDE DEF pos, x
<1>4. PICK a \in Seq(Slots) : \E b \in Seq(Slots) :
        c.pending = a \o b /\ InsertAt(c.pending, pos + 1, x) = (a \o <<x>>) \o b
  <2>1. PICK q \in Seq(Slots) : q = c.pending
    BY <1>0
  <2>2. pos \in 0..Len(q) /\ x \in Slots
    BY <1>1, <1>2, <2>1
  <2>3. \E a \in Seq(Slots) : \E b \in Seq(Slots) :
          q = a \o b /\ InsertAt(q, pos + 1, x) = (a \o <<x>>) \o b
    <3>1. Parts(Slots, q, pos, x)
      BY <2>2, Inserted
    <3> QED
      BY <3>1 DEF Parts
  <2> QED
    BY <2>1, <2>3
<1>5. PICK b \in Seq(Slots) :
        c.pending = a \o b /\ InsertAt(c.pending, pos + 1, x) = (a \o <<x>>) \o b
  BY <1>4
<1>6. PICK d \in Seq(Slots) : d = Append(a, x) /\ d = a \o <<x>>
  BY <1>2, AppendProperties, AppendIsConcat
<1>7. PushSystem(c) = [c EXCEPT !.pending = d \o b] /\ d \o b \in Seq(Slots)
  BY <1>3, <1>5, <1>6, ConcatProperties
<1>8. PushSystem(c) \in Chats /\ PushSystem(c).prims = c.prims /\ PushSystem(c).wire = c.wire
      /\ PushSystem(c).pending = d \o b
  BY <1>7 DEF Chats
<1>9. Waiting(d) = Waiting(a) /\ Unwritten(d) = Unwritten(a)
  BY <1>2, <1>6, WaitingAppend, UnwrittenAppend, SystemType
<1>10. Waiting(d \o b) = Waiting(a \o b) /\ Unwritten(d \o b) = Unwritten(a \o b)
  <2>1. Waiting(d \o b) = Waiting(d) \o Waiting(b) /\ Waiting(a \o b) = Waiting(a) \o Waiting(b)
    BY WaitingConcat
  <2>2. Unwritten(d \o b) = Unwritten(d) \o Unwritten(b) /\ Unwritten(a \o b) = Unwritten(a) \o Unwritten(b)
    BY UnwrittenConcat
  <2> QED
    BY <1>9, <2>1, <2>2
<1>11. Range(Values(a \o b)) \subseteq Range(Values(d \o b))
  <2>1. Range(a \o b) = Range(a) \union Range(b) /\ Range(d \o b) = Range(d) \union Range(b)
    BY RangeConcatenation
  <2>2. Range(d) = Range(a) \union {x}
    <3>1. Range(Append(a, x)) = Range(a) \union {x}
      BY <1>2, RangeAppend
    <3> QED
      BY <1>6, <3>1
  <2>3. a \o b \in Seq(Slots) /\ d \o b \in Seq(Slots)
    BY ConcatProperties
  <2>4. Range(Values(a \o b)) = {y.value : y \in Range(a \o b)}
        /\ Range(Values(d \o b)) = {y.value : y \in Range(d \o b)}
    BY <2>3, ValuesRange
  <2> QED
    BY <2>1, <2>2, <2>4
<1> QED
  BY <1>5, <1>8, <1>10, <1>11

\* An item pushed is the last that waits.
LEMMA PushKeeps ==
  ASSUME NEW c \in Chats, NEW kind \in InputKinds, NEW n \in Nat
  PROVE  /\ Push(c, Item(kind, n)) \in Chats
         /\ Push(c, Item(kind, n)).prims = c.prims /\ Push(c, Item(kind, n)).wire = c.wire
         /\ Waiting(Push(c, Item(kind, n)).pending) = Append(Waiting(c.pending), n)
         /\ Unwritten(Push(c, Item(kind, n)).pending) = Append(Unwritten(c.pending), n)
         /\ Range(Values(Push(c, Item(kind, n)).pending)) = Range(Values(c.pending)) \union {Item(kind, n)}
<1> DEFINE x == Unsaved(Item(kind, n))
<1>1. Item(kind, n) \in Items /\ Item(kind, n) \in InputItems /\ Item(kind, n).n = n
  BY ItemType DEF SpokenKinds, Item
<1>2. x \in Slots /\ x.value = Item(kind, n) /\ x.persisted = FALSE
  <2>1. Item(kind, n) \in CanWait
    BY <1>1 DEF CanWait, Item, InputKinds
  <2> QED
    BY <2>1, UnsavedType
<1>3. Push(c, Item(kind, n)) = [c EXCEPT !.pending = Append(c.pending, x)]
  BY DEF Push
<1> HIDE DEF x
<1>4. PICK p \in Seq(Slots) : p = c.pending
  BY ChatType
<1>5. PICK q \in Seq(Slots) : q = Append(p, x)
  BY <1>2, AppendProperties
<1>6. /\ Push(c, Item(kind, n)) \in Chats
      /\ Push(c, Item(kind, n)).prims = c.prims /\ Push(c, Item(kind, n)).wire = c.wire
      /\ Push(c, Item(kind, n)).pending = q
  BY <1>3, <1>4, <1>5 DEF Chats
<1>7. Waiting(q) = Append(Waiting(p), n) /\ Unwritten(q) = Append(Unwritten(p), n)
  BY <1>1, <1>2, <1>5, WaitingAppend, UnwrittenAppend
<1>8. Values(q) = Append(Values(p), Item(kind, n)) /\ Values(p) \in Seq(Items)
  BY <1>2, <1>5, ValuesAppend, ValuesType
<1>9. Range(Values(q)) = Range(Values(p)) \union {Item(kind, n)}
  BY <1>1, <1>8, RangeAppend
<1> QED
  BY <1>4, <1>6, <1>7, <1>9

\* Writing what waits moves what is not marked into the rows, and marks it.
LEMMA PersistKeeps ==
  ASSUME NEW c \in Chats
  PROVE  /\ PersistPending(c) \in Chats
         /\ PersistPending(c).wire = c.wire
         /\ Inputs(PersistPending(c).prims) = Inputs(c.prims) \o Unwritten(c.pending)
         /\ Values(PersistPending(c).pending) = Values(c.pending)
         /\ Waiting(PersistPending(c).pending) = Waiting(c.pending)
         /\ Unwritten(PersistPending(c).pending) = <<>>
<1>1. PICK p \in Seq(Slots) : p = c.pending /\ Len(p) \in Nat /\ DOMAIN p = 1..Len(p)
                              /\ \A k \in 1..Len(p) : p[k] \in Slots
  BY ChatType, LenProperties, ElementOfSeq
<1> DEFINE marked == [k \in DOMAIN p |-> [p[k] EXCEPT !.persisted = TRUE]]
<1>2. \A y \in Slots : [y EXCEPT !.persisted = TRUE] \in Slots
                       /\ [y EXCEPT !.persisted = TRUE].value = y.value
                       /\ [y EXCEPT !.persisted = TRUE].persisted = TRUE
  BY DEF Slots
<1>3. marked \in Seq(Slots)
  BY <1>1, <1>2, MapIsSeq
<1>4. Values(marked) = Values(p)
  BY <1>1, <1>2 DEF Values
<1>5. Range(marked) \cap NotMarked = {}
  <2>1. \A y \in Range(marked) : y.persisted = TRUE
    BY <1>1, <1>2 DEF Range
  <2>2. \A y \in NotMarked : y.persisted = FALSE
    BY DEF NotMarked
  <2> HIDE DEF marked
  <2> QED
    BY <2>1, <2>2
<1>6. PICK new \in Seq(Items) : new = NewRows(c) /\ Inputs(new) = Unwritten(p)
  <2>1. Picked(p, ToWrite) \in Seq(Slots)
    BY PickedSlots
  <2>2. NewRows(c) = Values(Picked(p, ToWrite))
    BY <1>1 DEF NewRows, ToWrite
  <2>3. Values(Picked(p, ToWrite)) \in Seq(Items)
    BY <2>1, ValuesType
  <2>4. Inputs(Values(Picked(p, ToWrite))) = Unwritten(p)
    BY RowsHold DEF Waiting
  <2> QED
    BY <2>2, <2>3, <2>4
<1>7. PersistPending(c) = [row |-> TRUE, pending |-> marked, prims |-> c.prims \o new, wire |-> c.wire]
  <2>2. PICK e \in Chats : e = EnsureRow(c) /\ e.row = TRUE /\ e.pending = p /\ e.prims = c.prims
                           /\ e.wire = c.wire
    <3>1. EnsureRow(c) \in Chats /\ EnsureRow(c).row = TRUE /\ EnsureRow(c).pending = p
          /\ EnsureRow(c).prims = c.prims /\ EnsureRow(c).wire = c.wire
      BY <1>1 DEF Chats, EnsureRow
    <3> QED
      BY <3>1
  <2>4. e = [row |-> TRUE, pending |-> p, prims |-> c.prims, wire |-> c.wire]
    BY <2>2 DEF Chats
  <2>3. PersistPending(c) = [EnsureRow(c) EXCEPT !.prims = @ \o new, !.pending = marked]
    <3>1. EnsureRow(c).pending = p
      BY <2>2
    <3> QED
      BY <1>6, <3>1 DEF PersistPending
  <2>5. PersistPending(c) = [e EXCEPT !.prims = e.prims \o new, !.pending = marked]
    BY <2>2, <2>3
  <2> HIDE DEF marked
  <2> QED
    BY <2>2, <2>4, <2>5
<1> HIDE DEF marked
<1>8. c.prims \in Seq(Items) /\ c.prims \o new \in Seq(Items) /\ c.wire \in Seq(Items)
  BY ChatType, ConcatProperties
<1>9. Inputs(c.prims \o new) = Inputs(c.prims) \o Inputs(new)
  BY <1>8, InputsConcat
<1>10. Waiting(marked) = Waiting(p)
  BY <1>4 DEF Waiting
<1>11. Unwritten(marked) = <<>>
  <2>1. Range(Picked(marked, NotMarked)) = {} /\ Picked(marked, NotMarked) \in Seq(Slots)
    BY <1>3, <1>5, PickedRange, PickedSlots
  <2>2. Picked(marked, NotMarked) = <<>>
    BY <2>1, RangeNone
  <2> QED
    BY <2>2, WaitingEmpty DEF Unwritten, Waiting
<1>12. PersistPending(c) \in Chats
  BY <1>3, <1>7, <1>8 DEF Chats
<1> QED
  BY <1>1, <1>4, <1>6, <1>7, <1>9, <1>10, <1>11, <1>12

\* A row changes nothing else.
LEMMA RowKeeps ==
  ASSUME NEW c \in Chats, NEW d \in NotSaved(c)
  PROVE  d \in Chats /\ d.pending = c.pending /\ d.prims = c.prims /\ d.wire = c.wire
BY DEF NotSaved, EnsureRow, Chats

\* Taking what is pending leaves the rest.
LEMMA DrainKeeps ==
  ASSUME NEW c \in Chats
  PROVE  Drain(c) \in Chats /\ Drain(c).pending = <<>> /\ Drain(c).prims = c.prims /\ Drain(c).wire = c.wire
<1>1. <<>> \in Seq(Slots)
  BY EmptySeq
<1> QED
  BY <1>1 DEF Drain, Chats

\* The inputs of a failed request wait again, in front.
LEMMA RestoreKeeps ==
  ASSUME NEW c \in Chats, NEW d \in Seq(Slots)
  PROVE  /\ Restore(c, d) \in Chats
         /\ Restore(c, d).prims = c.prims /\ Restore(c, d).wire = c.wire
         /\ Waiting(Restore(c, d).pending) = Waiting(d) \o Waiting(c.pending)
         /\ Unwritten(Restore(c, d).pending) = Unwritten(d) \o Unwritten(c.pending)
         /\ Range(Values(c.pending)) \union (Range(Values(d)) \cap Spoken)
              \subseteq Range(Values(Restore(c, d).pending))
<1>1. PICK p \in Seq(Slots) : p = c.pending
  BY ChatType
<1>2. PICK r \in Seq(Slots) : r = Retry(d) /\ Range(r) = Range(d) \cap Kept
  BY PickedSlots, PickedRange DEF Retry, Kept
<1>3. PICK q \in Seq(Slots) : q = r \o p
  BY ConcatProperties
<1>4. /\ Restore(c, d) \in Chats
      /\ Restore(c, d).prims = c.prims /\ Restore(c, d).wire = c.wire
      /\ Restore(c, d).pending = q
  <2>1. Restore(c, d) = [c EXCEPT !.pending = q]
    BY <1>1, <1>2, <1>3 DEF Restore
  <2> QED
    BY <2>1 DEF Chats
<1>5. Waiting(q) = Waiting(r) \o Waiting(p) /\ Unwritten(q) = Unwritten(r) \o Unwritten(p)
  BY <1>3, WaitingConcat, UnwrittenConcat
<1>6. Waiting(r) = Waiting(d) /\ Unwritten(r) = Unwritten(d)
  BY <1>2, RetryKeeps
<1>7. Range(Values(p)) \union (Range(Values(d)) \cap Spoken) \subseteq Range(Values(q))
  <2>1. Range(q) = Range(r) \union Range(p)
    BY <1>3, RangeConcatenation
  <2>2. /\ Range(Values(p)) = {y.value : y \in Range(p)} /\ Range(Values(d)) = {y.value : y \in Range(d)}
        /\ Range(Values(q)) = {y.value : y \in Range(q)}
    BY ValuesRange
  <2>3. \A y \in Range(d) : y.value \in Spoken => y \in Kept
    <3>1. Range(d) \subseteq Slots
      BY RangeOfSeq
    <3> QED
      BY <3>1, SlotType
  <2> QED
    BY <1>2, <2>1, <2>2, <2>3
<1> QED
  BY <1>1, <1>4, <1>5, <1>6, <1>7

\* An answered request moves its inputs into the wire history.
LEMMA RecordKeeps ==
  ASSUME NEW c \in Chats, NEW d \in Seq(Slots), NEW calls \in Seq(Items),
         Range(calls) \cap InputItems = {}
  PROVE  /\ Record(c, d, calls) \in Chats /\ Record(c, d, calls).pending = c.pending
         /\ Inputs(Record(c, d, calls).prims) = Inputs(c.prims)
         /\ Inputs(Record(c, d, calls).wire) = Inputs(c.wire) \o Waiting(d)
         /\ Range(Record(c, d, calls).wire)
              = (Range(c.wire) \union (Range(Values(d)) \cap Spoken)) \union Range(calls)
<1>1. PICK prims \in Seq(Items) : prims = c.prims
  BY ChatType
<1>2. PICK wire \in Seq(Items) : wire = c.wire
  BY ChatType
<1>3. PICK v \in Seq(Items) : v = Values(d)
  BY ValuesType
<1>4. PICK w \in Seq(Items) : w = Picked(v, Spoken) /\ Range(w) = Range(v) \cap Spoken
  <2>1. Seq(Spoken \cap Items) \subseteq Seq(Items)
    BY SeqSubset
  <2> QED
    BY <2>1, PickedType, PickedRange
<1>5. PICK u \in Seq(Items) : u = wire \o w
  BY ConcatProperties
<1>6. PICK t \in Seq(Items) : t = u \o calls
  BY ConcatProperties
<1>7. PICK s \in Seq(Items) : s = prims \o calls
  BY ConcatProperties
<1>8. /\ Record(c, d, calls) \in Chats /\ Record(c, d, calls).pending = c.pending
      /\ Record(c, d, calls).prims = s /\ Record(c, d, calls).wire = t
  <2>1. Record(c, d, calls) = [c EXCEPT !.wire = t, !.prims = s]
    BY <1>1, <1>2, <1>3, <1>4, <1>5, <1>6, <1>7 DEF Record
  <2> QED
    BY <2>1 DEF Chats
<1>9. Inputs(calls) = <<>>
  BY InputsNone
<1>10. Inputs(s) = Inputs(prims)
  <2>1. Inputs(s) = Inputs(prims) \o Inputs(calls)
    BY <1>7, InputsConcat
  <2>2. Inputs(prims) \o <<>> = Inputs(prims)
    BY InputsType, ConcatEmptySeq
  <2> QED
    BY <1>9, <2>1, <2>2
<1>11. Inputs(t) = Inputs(u)
  <2>1. Inputs(t) = Inputs(u) \o Inputs(calls)
    BY <1>6, InputsConcat
  <2>2. Inputs(u) \o <<>> = Inputs(u)
    BY InputsType, ConcatEmptySeq
  <2> QED
    BY <1>9, <2>1, <2>2
<1>12. Inputs(u) = Inputs(wire) \o Waiting(d)
  <2>1. Inputs(w) = Inputs(v)
    BY <1>4, InputsSpoken
  <2>2. Inputs(u) = Inputs(wire) \o Inputs(w)
    BY <1>5, InputsConcat
  <2> QED
    BY <1>3, <2>1, <2>2 DEF Waiting
<1>13. Range(t) = (Range(wire) \union Range(w)) \union Range(calls)
  <2>1. Range(u) = Range(wire) \union Range(w)
    BY <1>5, RangeConcatenation
  <2>2. Range(t) = Range(u) \union Range(calls)
    BY <1>6, RangeConcatenation
  <2> QED
    BY <2>1, <2>2
<1> QED
  BY <1>1, <1>2, <1>3, <1>4, <1>8, <1>10, <1>11, <1>12, <1>13

\* Unsaved slots are not written.
LEMMA AllUnwritten ==
  ASSUME NEW p \in Seq(Slots), \A k \in DOMAIN p : p[k].persisted = FALSE
  PROVE  Unwritten(p) = Waiting(p)
<1> DEFINE New == {x \in Slots : x.persisted = FALSE}
<1> DEFINE Good == {s \in Seq(New) : Unwritten(s) = Waiting(s)}
<1>0. New \subseteq Slots /\ Seq(New) \subseteq Seq(Slots)
  BY SeqSubset
<1>1. <<>> \in Good
  BY UnwrittenEmpty, WaitingEmpty, EmptySeq
<1>2. ASSUME NEW r \in Seq(New), NEW e \in New, r \in Good PROVE Append(r, e) \in Good
  <2>1. Append(r, e) \in Seq(New)
    BY AppendProperties
  <2>2. r \in Seq(Slots) /\ e \in Slots /\ e.persisted = FALSE
    BY <1>0
  <2>3. Waiting(Append(r, e)) = IF e.value \in InputItems THEN Append(Waiting(r), e.value.n) ELSE Waiting(r)
    BY <2>2, WaitingAppend
  <2>4. Unwritten(Append(r, e)) = IF e.value \in InputItems /\ e.persisted = FALSE
                                  THEN Append(Unwritten(r), e.value.n) ELSE Unwritten(r)
    BY <2>2, UnwrittenAppend
  <2>5. Unwritten(r) = Waiting(r)
    BY <1>2
  <2>6. Unwritten(Append(r, e)) = Waiting(Append(r, e))
    BY <2>2, <2>3, <2>4, <2>5
  <2> QED
    BY <2>1, <2>6
<1>3. Seq(New) \subseteq Good
  <2> HIDE DEF Good, New
  <2> QED
    BY <1>1, <1>2, SnocInduction
<1>4. p \in Seq(New)
  <2>1. \A k \in 1..Len(p) : p[k] \in New
    BY ElementOfSeq, LenProperties
  <2>2. Len(p) \in Nat /\ p = [k \in 1..Len(p) |-> p[k]]
    BY LenProperties
  <2> HIDE DEF New
  <2> QED
    BY <2>1, <2>2, MapIsSeq
<1> QED
  BY <1>3, <1>4

\* A fresh chat has been told nothing.
LEMMA FreshKeeps ==
  /\ Fresh \in Chats /\ Fresh.wire = <<>>
  /\ Inputs(Fresh.prims) = <<>> /\ Waiting(Fresh.pending) = <<>> /\ Unwritten(Fresh.pending) = <<>>
<1>1. <<>> \in Seq(Slots) /\ <<>> \in Seq(Items)
  BY EmptySeq
<1> QED
  BY <1>1, InputsEmpty, WaitingEmpty, UnwrittenEmpty DEF Fresh, Chats

\* The copy of a chat has its inputs, as rows and to be sent anew.
LEMMA CopyKeeps ==
  ASSUME NEW s \in Seq(Items)
  PROVE  /\ PersistPending(CopyOf(s)) \in Chats /\ PersistPending(CopyOf(s)).wire = <<>>
         /\ Inputs(PersistPending(CopyOf(s)).prims) = Inputs(s)
         /\ Waiting(PersistPending(CopyOf(s)).pending) = Inputs(s)
         /\ Unwritten(PersistPending(CopyOf(s)).pending) = <<>>
<1> DEFINE p == [k \in DOMAIN s |-> Unsaved(AsText(s[k]))]
<1>1. Len(s) \in Nat /\ DOMAIN s = 1..Len(s) /\ \A k \in 1..Len(s) : s[k] \in Items
  BY LenProperties, ElementOfSeq
<1>2. \A e \in Items : Unsaved(AsText(e)) \in Slots /\ Unsaved(AsText(e)).value = AsText(e)
                       /\ Unsaved(AsText(e)).persisted = FALSE
  <2>1. \A e \in Items : AsText(e) \in CanWait
    BY AsTextType DEF CanWait
  <2> QED
    BY <2>1, UnsavedType
<1>3. p \in Seq(Slots)
  BY <1>1, <1>2, MapIsSeq
<1>4. \A k \in DOMAIN p : p[k].persisted = FALSE
  BY <1>1, <1>2
<1>5. Values(p) = CopiedItems(s)
  BY <1>1, <1>2 DEF Values, CopiedItems
<1>6. CopyOf(s) = [Fresh EXCEPT !.pending = p]
  BY DEF CopyOf
<1> HIDE DEF p
<1>7. CopyOf(s) \in Chats /\ CopyOf(s).prims = <<>> /\ CopyOf(s).wire = <<>> /\ CopyOf(s).pending = p
  <2>1. <<>> \in Seq(Items)
    BY EmptySeq
  <2> QED
    BY <1>3, <1>6, <2>1 DEF Fresh, Chats
<1>8. Waiting(p) = Inputs(s) /\ Unwritten(p) = Inputs(s)
  BY <1>3, <1>4, <1>5, InputsCopied, AllUnwritten DEF Waiting
<1>9. Inputs(<<>>) \o Inputs(s) = Inputs(s)
  BY InputsEmpty, InputsType, ConcatEmptySeq
<1> QED
  BY <1>7, <1>8, <1>9, PersistKeeps

-----------------------------------------------------------------------------
(* Nothing the chat is told is lost or written twice.                      *)

\* What is written or is to be; what was sent, is with a request, and waits.
Rows(c) == Inputs(c.prims) \o Unwritten(c.pending)
Sends(c, d) == (Inputs(c.wire) \o Waiting(d)) \o Waiting(c.pending)

\* What is told is a sequence of numbers in each part of a chat.
LEMMA ChatParts ==
  ASSUME NEW c \in Chats
  PROVE  /\ Inputs(c.prims) \in Seq(Nat) /\ Inputs(c.wire) \in Seq(Nat)
         /\ Waiting(c.pending) \in Seq(Nat) /\ Unwritten(c.pending) \in Seq(Nat)
BY ChatType, InputsType, WaitingType

\* What is pushed is told, in the rows and to the model.
LEMMA PushSays ==
  ASSUME NEW c \in Chats, NEW d \in Seq(Slots), NEW kind \in InputKinds, NEW n \in Nat
  PROVE  /\ Rows(Push(c, Item(kind, n))) = Append(Rows(c), n)
         /\ Sends(Push(c, Item(kind, n)), d) = Append(Sends(c, d), n)
<1>1. Inputs(c.wire) \o Waiting(d) \in Seq(Nat)
  BY ChatParts, WaitingType, ConcatProperties
<1>2. Inputs(c.prims) \o Append(Unwritten(c.pending), n) = Append(Rows(c), n)
  BY ChatParts, AppendConcat DEF Rows
<1>3. PICK s \in Seq(Nat) : s = Inputs(c.wire) \o Waiting(d)
  BY <1>1
<1>4. PICK t \in Seq(Nat) : t = Waiting(c.pending)
  BY ChatParts
<1>5. s \o Append(t, n) = Append(s \o t, n)
  BY AppendConcat
<1> QED
  BY <1>2, <1>3, <1>4, <1>5, PushKeeps DEF Rows, Sends

\* A system input tells nothing.
LEMMA PushSystemSays ==
  ASSUME NEW c \in Chats, NEW d
  PROVE  Rows(PushSystem(c)) = Rows(c) /\ Sends(PushSystem(c), d) = Sends(c, d)
BY PushSystemKeeps DEF Rows, Sends

\* Writing tells nothing new, and leaves nothing to write.
LEMMA PersistSays ==
  ASSUME NEW c \in Chats, NEW d
  PROVE  /\ Rows(PersistPending(c)) = Rows(c) /\ Sends(PersistPending(c), d) = Sends(c, d)
         /\ Inputs(PersistPending(c).prims) = Rows(c)
<1>1. Rows(c) \in Seq(Nat)
  BY ChatParts, ConcatProperties DEF Rows
<1>2. Rows(c) \o <<>> = Rows(c)
  BY <1>1, ConcatEmptySeq
<1> QED
  BY <1>2, PersistKeeps DEF Rows, Sends

\* A chat that is written, or was to be, is as good as it was.
Saved(c) == NotSaved(c) \union {PersistPending(c)}

\* Nor does a write that has failed.
LEMMA SavedSays ==
  ASSUME NEW c \in Chats, NEW d \in Saved(c), NEW x
  PROVE  /\ d \in Chats /\ Rows(d) = Rows(c) /\ Sends(d, x) = Sends(c, x)
         /\ d.wire = c.wire /\ Values(d.pending) = Values(c.pending)
<1>1. CASE d \in NotSaved(c)
  BY <1>1, RowKeeps DEF Rows, Sends
<1>2. CASE d = PersistPending(c)
  BY <1>2, PersistSays, PersistKeeps
<1> QED
  BY <1>1, <1>2 DEF Saved

Tasks == [kind : CallKinds, n : Nat]

\* An interrupt is not queued.
Queueable == {m \in Message : m.kind # "interrupt"}

\* The chat, its copy and what a request has taken are what they should be.
ChatTypes ==
  /\ work \in Message /\ queued \in Seq(Queueable)
  /\ chat \in Chats /\ copy \in Chats /\ drained \in Seq(Slots)
  /\ todo \in Seq(Tasks) /\ told \in Seq(Nat) /\ made \in Nat

\* The rows, and what is pending and not marked, are all the chat was told; what
\* a request has taken is marked; and a copy holds all of it, to be sent again.
RowsInv ==
  /\ Rows(chat) = told
  /\ Unwritten(drained) = <<>>
  /\ at = "copied" =>
       /\ copy.wire = <<>>
       /\ Inputs(copy.prims) = told /\ Unwritten(copy.pending) = <<>>
       /\ Waiting(copy.pending) = told

\* Only a request under way has taken inputs, and it has taken them all; unless
\* one was dropped, what was sent, is taken, and waits is all the chat was told.
InputsInv ==
  /\ at \notin {"asking", "saving"} => drained = <<>>
  /\ at \in {"asking", "saving"} => chat.pending = <<>>
  /\ ~lost => Sends(chat, drained) = told

\* The calls that may be without a result: those of the answer that is recorded.
Open == IF at = "saving" THEN {} ELSE {todo[k].n : k \in DOMAIN todo}
Answers == (Range(chat.wire) \union Range(Values(drained))) \union Range(Values(chat.pending))

\* Unless one was dropped, a recorded call is open or has its result.
BatchInv ==
  /\ at \notin {"saving", "replied", "tools", "gate", "running"} => todo = <<>>
  /\ at \in {"tools", "gate", "running"} => todo # <<>>
  /\ ~lost => \A item \in Range(chat.wire) :
                item.kind = "call" => item.n \in Open \/ Item("result", item.n) \in Answers

DriverInv == HoldInv /\ ChatTypes /\ RowsInv /\ InputsInv /\ BatchInv

\* Nothing has been said.
LEMMA DriverInit == Init => DriverInv
<1> SUFFICES ASSUME Init PROVE DriverInv
  OBVIOUS
<1>1. chat = Fresh /\ copy = Fresh /\ drained = <<>> /\ todo = <<>> /\ told = <<>> /\ made = 0
      /\ at = "idle" /\ work = Item("interrupt", 0)
  BY DEF Init
<1>2. MaxInputs \in Nat
  BY DriverAssumption
<1>3. work \in Message
  BY <1>1, <1>2 DEF Item, Message
<1>4. <<>> \in Seq(Slots) /\ <<>> \in Seq(Tasks) /\ <<>> \in Seq(Nat) /\ <<>> \in Seq(Queueable)
  BY EmptySeq
<1>10. queued = <<>>
  BY DEF Init
<1>5. ChatTypes
  BY <1>10, <1>1, <1>3, <1>4, FreshKeeps DEF ChatTypes
<1>6. <<>> \o <<>> = <<>>
  BY <1>4, ConcatEmptySeq
<1>7. RowsInv
  BY <1>1, <1>6, FreshKeeps, UnwrittenEmpty DEF RowsInv, Rows
<1>8. InputsInv
  BY <1>1, <1>6, FreshKeeps, InputsEmpty, WaitingEmpty DEF InputsInv, Sends
<1>9. BatchInv
  <2>1. Range(<<>>) = {}
    BY EmptySeq DEF Range
  <2> QED
    BY <1>1, <2>1, FreshKeeps DEF BatchInv
<1> QED
  BY <1>5, <1>7, <1>8, <1>9, HoldInit DEF DriverInv

\* What leaves the chat and the calls alone, and keeps between the stages of a
\* turn that hold the same, keeps the invariant.
LEMMA ChatFrozen ==
  ASSUME DriverInv, HoldInv', work' \in Message, queued' \in Seq(Queueable),
         UNCHANGED <<chat, copy, drained, told, todo, made, lost>>,
         at' = "copied" => at = "copied",
         (at \in {"asking", "saving"}) <=> (at' \in {"asking", "saving"}),
         at = "saving" <=> at' = "saving",
         at' \notin {"saving", "replied", "tools", "gate", "running"} => todo = <<>>,
         at' \in {"tools", "gate", "running"} => todo # <<>>
  PROVE  DriverInv'
<1>1. ChatTypes'
  BY DEF DriverInv, ChatTypes
<1>2. RowsInv'
  BY DEF DriverInv, RowsInv
<1>3. InputsInv'
  BY DEF DriverInv, InputsInv
<1>4. BatchInv'
  BY DEF DriverInv, BatchInv, Open, Answers
<1> QED
  BY <1>1, <1>2, <1>3, <1>4 DEF DriverInv

\* What the invariant says of the types.
LEMMA DriverFacts ==
  ASSUME DriverInv
  PROVE  /\ work \in Message /\ queued \in Seq(Queueable)
         /\ chat \in Chats /\ copy \in Chats /\ drained \in Seq(Slots)
         /\ todo \in Seq(Tasks) /\ told \in Seq(Nat) /\ made \in Nat
         /\ work.n \in Nat
<1>1. MaxInputs \in Nat
  BY DriverAssumption
<1> QED
  BY <1>1 DEF DriverInv, ChatTypes, Message

\* Users leave the chat alone, unless they deny a call.
LEMMA DriverUser ==
  ASSUME DriverInv, HoldInv', User, ~Deny
  PROVE  DriverInv'
<1>0. work \in Message /\ queued \in Seq(Queueable)
  BY DriverFacts
<1>1. CASE UserInput
  BY <1>0, <1>1, ChatFrozen DEF UserInput, workVars, chatVars, callVars, DriverInv, BatchInv
<1>2. CASE UserInterrupts
  BY <1>0, <1>2, ChatFrozen DEF UserInterrupts, workVars, chatVars, callVars, DriverInv, BatchInv
<1>3. CASE UserSelects
  BY <1>0, <1>3, ChatFrozen DEF UserSelects, workVars, chatVars, callVars, DriverInv, BatchInv
<1>4. CASE Shutdown
  BY <1>0, <1>4, ChatFrozen DEF Shutdown, workVars, chatVars, callVars, DriverInv, BatchInv
<1>5. CASE Approve
  BY <1>0, <1>5, ChatFrozen DEF Approve, loopVars, workVars, chatVars, callVars, DriverInv, BatchInv
<1> QED
  BY <1>1, <1>2, <1>3, <1>4, <1>5 DEF User

\* So does the loop, and what only moves a turn on.
LEMMA DriverTake ==
  ASSUME DriverInv, HoldInv', Take
  PROVE  DriverInv'
<1> DEFINE first == CHOOSE k \in Runnable : \A j \in Runnable : k <= j
<1>1. PICK q \in Seq(Queueable) : q = queued
  BY DriverFacts
<1>2. Runnable \subseteq DOMAIN q /\ Runnable # {} /\ DOMAIN q \subseteq Nat
  <2>1. DOMAIN q \subseteq Nat
    BY LenProperties
  <2> QED
    BY <1>1, <2>1 DEF Runnable, Take
<1>3. \E k \in Runnable : \A j \in Runnable : k <= j
  <2>1. Runnable \subseteq Nat
    BY <1>2
  <2> QED
    BY <1>2, <2>1, FirstOf
<1>4. first \in Runnable
  BY <1>3
<1>5. work' = queued[first] /\ queued' = RemoveAt(queued, first)
      /\ at' = FirstStage[queued[first].kind] /\ at = "idle"
  BY DEF Take
<1> HIDE DEF first
<1>6. PICK k \in DOMAIN q : k = first
  BY <1>2, <1>4
<1>7. q[k] \in Queueable
  BY ElementOfSeq, LenProperties
<1>8. queued' \in Seq(Queueable) /\ work' \in Message
  <2>1. RemoveAt(q, k) \in Seq(Queueable)
    BY RemoveAtType
  <2> QED
    BY <1>1, <1>5, <1>6, <1>7, <2>1 DEF Queueable
<1>9. at' \in {"record", "fetch", "connect"}
  <2>1. q[k].kind \in {"prompt", "use", "list", "select"}
    BY <1>7 DEF Queueable, Message
  <2> QED
    BY <1>1, <1>5, <1>6, <2>1 DEF FirstStage
<1>10. UNCHANGED <<chat, copy, drained, told, todo, made, lost>>
  BY DEF Take, chatVars, callVars
<1>11. todo = <<>>
  BY <1>5 DEF DriverInv, BatchInv
<1> QED
  BY <1>5, <1>8, <1>9, <1>10, <1>11, ChatFrozen

\* Receiving queues what is no interrupt.
LEMMA DriverReceive ==
  ASSUME DriverInv, HoldInv', Receive
  PROVE  DriverInv'
<1>1. PICK q \in Seq(Queueable) : q = queued
  BY DriverFacts
<1>2. Head(inbox) \in Message
  BY HeadTailProperties DEF DriverInv, HoldInv, QueueOK, Receive
<1>3. \/ queued' = queued
      \/ queued' = Append(queued, Head(inbox)) /\ Head(inbox).kind # "interrupt"
  BY DEF Receive
<1>4. queued' \in Seq(Queueable)
  BY <1>1, <1>2, <1>3, AppendProperties DEF Queueable
<1>5. UNCHANGED <<work, at, chat, copy, drained, told, todo, made, lost>>
  BY DEF Receive, chatVars, callVars
<1>6. work' \in Message
  BY <1>5, DriverFacts
<1> QED
  BY <1>4, <1>5, <1>6, ChatFrozen DEF DriverInv, BatchInv

\* These steps only move a turn on.
LEMMA DriverMoves ==
  ASSUME DriverInv, HoldInv',
         NoticeShutdown \/ Stop \/ Fetch \/ Answered \/ StartBatch \/ AskUser \/ StartWait \/ SelectFails
  PROVE  DriverInv'
<1>0. work \in Message /\ queued \in Seq(Queueable)
  BY DriverFacts
<1>1. CASE NoticeShutdown
  BY <1>0, <1>1, ChatFrozen DEF NoticeShutdown, loopVars, chatVars, callVars, DriverInv, BatchInv
<1>2. CASE Stop
  BY <1>0, <1>2, ChatFrozen DEF Stop, loopVars, workVars, chatVars, callVars, DriverInv, BatchInv
<1>3. CASE Fetch
  BY <1>0, <1>3, ChatFrozen DEF Fetch, Done, loopVars, workVars, chatVars, callVars, DriverInv, BatchInv
<1>4. CASE Answered
  BY <1>0, <1>4, ChatFrozen DEF Answered, loopVars, workVars, chatVars, callVars, DriverInv, BatchInv
<1>5. CASE StartBatch
  BY <1>0, <1>5, ChatFrozen DEF StartBatch, loopVars, workVars, chatVars, callVars, DriverInv, BatchInv
<1>6. CASE AskUser
  BY <1>0, <1>6, ChatFrozen DEF AskUser, loopVars, workVars, chatVars, callVars, DriverInv, BatchInv
<1>7. CASE StartWait
  BY <1>0, <1>7, ChatFrozen DEF StartWait, loopVars, workVars, chatVars, callVars, DriverInv, BatchInv
<1>8. CASE SelectFails
  BY <1>0, <1>8, ChatFrozen DEF SelectFails, Done, loopVars, workVars, chatVars, callVars, DriverInv,
                                BatchInv
<1> QED
  BY <1>1, <1>2, <1>3, <1>4, <1>5, <1>6, <1>7, <1>8

\* A chat that is written where no request is under way keeps the invariant.
LEMMA ChatSaved ==
  ASSUME DriverInv, HoldInv', work' \in Message, queued' \in Seq(Queueable), chat' \in Saved(chat),
         UNCHANGED <<drained, told, todo, made, lost>>, copy' \in Chats,
         at \notin {"asking", "saving"}, at' \notin {"asking", "saving"},
         at' = "copied" =>
           /\ copy'.wire = <<>>
           /\ Inputs(copy'.prims) = told /\ Unwritten(copy'.pending) = <<>>
           /\ Waiting(copy'.pending) = told,
         at' \notin {"saving", "replied", "tools", "gate", "running"} => todo = <<>>,
         at' \in {"tools", "gate", "running"} => todo # <<>>
  PROVE  DriverInv'
<1>1. PICK c \in Chats : c = chat
  BY DriverFacts
<1>2. PICK d \in Saved(c) : d = chat'
  BY <1>1
<1>3. /\ d \in Chats /\ Rows(d) = Rows(c) /\ Sends(d, drained) = Sends(c, drained)
      /\ d.wire = c.wire /\ Values(d.pending) = Values(c.pending)
  BY SavedSays
<1>4. ChatTypes'
  BY <1>2, <1>3, DriverFacts DEF ChatTypes
<1>5. RowsInv'
  BY <1>1, <1>2, <1>3 DEF DriverInv, RowsInv
<1>6. InputsInv'
  BY <1>1, <1>2, <1>3 DEF DriverInv, InputsInv
<1>7. BatchInv'
  <2>1. Answers' = Answers /\ Open' = Open
    BY <1>1, <1>2, <1>3 DEF Answers, Open
  <2> QED
    BY <1>1, <1>2, <1>3, <2>1 DEF DriverInv, BatchInv
<1> QED
  BY <1>4, <1>5, <1>6, <1>7 DEF DriverInv

\* SaveResults and WrapUp write the chat.
LEMMA DriverSaves ==
  ASSUME DriverInv, HoldInv', SaveResults \/ WrapUp
  PROVE  DriverInv'
<1>0. work \in Message /\ queued \in Seq(Queueable) /\ copy \in Chats
  BY DriverFacts
<1>1. chat' \in Saved(chat)
  BY DEF SaveResults, WrapUp, Saved
<1>2. CASE SaveResults
  BY <1>0, <1>1, <1>2, ChatSaved DEF SaveResults, loopVars, workVars, callVars, DriverInv, BatchInv
<1>3. CASE WrapUp
  BY <1>0, <1>1, <1>3, ChatSaved DEF WrapUp, Done, loopVars, workVars, callVars, DriverInv, BatchInv
<1> QED
  BY <1>2, <1>3

\* What the chat is told is pushed, and, as far as it comes to that, written.
LEMMA ChatTold ==
  ASSUME DriverInv, HoldInv', work' \in Message, queued' \in Seq(Queueable),
         NEW kind \in InputKinds, NEW n \in Nat,
         chat' \in Saved(Push(chat, Item(kind, n))), told' = Append(told, n),
         UNCHANGED <<copy, drained, made, lost>>, todo' \in Seq(Tasks),
         at \notin {"asking", "saving"}, at' \notin {"asking", "saving", "copied"},
         \A m \in Open : m \in Open' \/ (kind = "result" /\ m = n),
         at' \notin {"saving", "replied", "tools", "gate", "running"} => todo' = <<>>,
         at' \in {"tools", "gate", "running"} => todo' # <<>>
  PROVE  DriverInv'
<1>1. PICK c \in Chats : c = chat
  BY DriverFacts
<1>2. PICK p \in Chats : p = Push(c, Item(kind, n)) /\ p.wire = c.wire
                         /\ Range(Values(p.pending)) = Range(Values(c.pending)) \union {Item(kind, n)}
  <2>1. /\ Push(c, Item(kind, n)) \in Chats /\ Push(c, Item(kind, n)).wire = c.wire
        /\ Range(Values(Push(c, Item(kind, n)).pending)) = Range(Values(c.pending)) \union {Item(kind, n)}
    BY PushKeeps
  <2> QED
    BY <2>1, Zenon
<1>3. \A x \in Seq(Slots) : Rows(p) = Append(Rows(c), n) /\ Sends(p, x) = Append(Sends(c, x), n)
  BY <1>2, PushSays
<1>4. PICK d \in Saved(p) : d = chat'
  BY <1>1, <1>2
<1>5. /\ d \in Chats /\ Rows(d) = Rows(p) /\ Sends(d, drained) = Sends(p, drained)
      /\ d.wire = p.wire /\ Values(d.pending) = Values(p.pending)
  BY SavedSays
<1>6. drained \in Seq(Slots) /\ told \in Seq(Nat) /\ told' \in Seq(Nat) /\ made \in Nat /\ copy \in Chats
  BY DriverFacts, AppendProperties
<1>7. ChatTypes'
  BY <1>4, <1>5, <1>6 DEF ChatTypes
<1>8. RowsInv'
  BY <1>1, <1>3, <1>4, <1>5, <1>6 DEF DriverInv, RowsInv
<1>9. InputsInv'
  BY <1>1, <1>3, <1>4, <1>5, <1>6 DEF DriverInv, InputsInv
<1>10. BatchInv'
  <2>1. Answers' = Answers \union {Item(kind, n)}
    BY <1>1, <1>2, <1>4, <1>5 DEF Answers
  <2>2. \A m \in Open : m \in Open' \/ Item("result", m) \in Answers'
    BY <2>1
  <2>3. Answers \subseteq Answers'
    BY <2>1
  <2>4. Range(chat'.wire) = Range(chat.wire)
    BY <1>1, <1>2, <1>4, <1>5
  <2> HIDE DEF Answers, Open
  <2> QED
    BY <2>2, <2>3, <2>4 DEF DriverInv, BatchInv
<1> QED
  BY <1>7, <1>8, <1>9, <1>10 DEF DriverInv

\* RecordPrompt tells the chat a prompt.
LEMMA DriverRecords ==
  ASSUME DriverInv, HoldInv', RecordPrompt
  PROVE  DriverInv'
<1>1. work \in Message /\ queued \in Seq(Queueable) /\ work.n \in Nat /\ todo \in Seq(Tasks)
  BY DriverFacts
<1>2. at = "record" /\ todo = <<>>
  BY DEF RecordPrompt, DriverInv, BatchInv
<1>3. chat' \in Saved(Push(chat, Item("user", work.n))) /\ told' = Append(told, work.n)
  BY DEF RecordPrompt, Saved
<1>4. UNCHANGED <<work, queued, copy, drained, todo, made, lost>>
  BY DEF RecordPrompt, workVars, loopVars, callVars
<1>5. at' \in {"check", "idle", "over"}
  BY DEF RecordPrompt, Done
<1>6. "user" \in InputKinds
  BY DEF InputKinds
<1>7. Open' = Open
  BY <1>2, <1>4, <1>5 DEF Open
<1> QED
  BY <1>1, <1>2, <1>3, <1>4, <1>5, <1>6, <1>7, ChatTold

\* A call that is settled has its result.
LEMMA DriverSettles ==
  ASSUME DriverInv, HoldInv', at \in {"tools", "gate", "running"},
         chat' = Push(chat, Item("result", Call.n)), told' = Append(told, Call.n),
         todo' = Tail(todo), at' = IF Tail(todo) = <<>> THEN "results" ELSE "tools",
         UNCHANGED <<work, queued, copy, drained, made, lost>>
  PROVE  DriverInv'
<1>1. work \in Message /\ queued \in Seq(Queueable)
  BY DriverFacts
<1>2. PICK t \in Seq(Tasks) : t = todo /\ t # <<>>
  BY DriverFacts DEF DriverInv, BatchInv
<1>3. /\ Head(t) \in Tasks /\ Tail(t) \in Seq(Tasks) /\ Len(Tail(t)) = Len(t) - 1 /\ Head(t) = t[1]
      /\ \A k \in 1..Len(Tail(t)) : Tail(t)[k] = t[k + 1]
  BY <1>2, HeadTailProperties
<1>4. Call.n \in Nat
  BY <1>2, <1>3 DEF Call, Tasks
<1>5. \A m \in Open : m \in Open' \/ m = Call.n
  <2>1. Len(t) \in Nat /\ DOMAIN t = 1..Len(t) /\ DOMAIN Tail(t) = 1..Len(Tail(t))
    BY <1>3, LenProperties
  <2>2. Open = {t[k].n : k \in DOMAIN t} /\ Open' = {Tail(t)[k].n : k \in DOMAIN Tail(t)}
    BY <1>2 DEF Open
  <2>3. ASSUME NEW k \in DOMAIN t PROVE t[k].n = Call.n \/ t[k].n \in {Tail(t)[j].n : j \in DOMAIN Tail(t)}
    <3>1. CASE k = 1
      BY <1>2, <1>3, <3>1 DEF Call
    <3>2. CASE k # 1
      <4>1. k - 1 \in DOMAIN Tail(t) /\ (k - 1) + 1 = k
        BY <1>3, <2>1, <3>2
      <4>2. Tail(t)[k - 1] = t[k]
        BY <1>3, <2>1, <4>1
      <4> QED
        BY <4>1, <4>2
    <3> QED
      BY <3>1, <3>2
  <2> QED
    BY <2>2, <2>3
<1>6. "result" \in InputKinds
  BY DEF InputKinds
<1>7. chat' \in Saved(Push(chat, Item("result", Call.n)))
  BY DEF Saved, NotSaved
<1>8. todo' \in Seq(Tasks) /\ (at' = "tools" => todo' # <<>>) /\ (at' # "tools" => todo' = <<>>)
      /\ at' \in {"tools", "results"}
  BY <1>2, <1>3
<1> HIDE DEF Call
<1> QED
  BY <1>1, <1>4, <1>5, <1>6, <1>7, <1>8, ChatTold

\* Every way a call ends settles it.
LEMMA DriverCalls ==
  ASSUME DriverInv, HoldInv', Execute \/ GateInterrupted \/ CallEnds \/ Deny
  PROVE  DriverInv'
<1>1. CASE Execute
  BY <1>1, DriverSettles DEF Execute, Settle, loopVars, workVars
<1>2. CASE GateInterrupted
  BY <1>2, DriverSettles DEF GateInterrupted, Settle, loopVars, workVars
<1>3. CASE CallEnds
  BY <1>3, DriverSettles DEF CallEnds, Settle, loopVars, workVars
<1>4. CASE Deny
  BY <1>4, DriverSettles DEF Deny, workVars
<1> QED
  BY <1>1, <1>2, <1>3, <1>4

\* Empty parts, and brackets, do not matter.
LEMMA EmptyParts ==
  ASSUME NEW T, NEW a \in Seq(T), NEW b \in Seq(T), NEW c \in Seq(T)
  PROVE  /\ <<>> \in Seq(T) /\ a \o <<>> = a /\ <<>> \o b = b
         /\ (a \o <<>>) \o b = a \o b /\ (a \o b) \o <<>> = a \o b
         /\ a \o (b \o c) = (a \o b) \o c
<1>1. a \o b \in Seq(T)
  BY ConcatProperties
<1>2. \A s \in Seq(T) : s \o <<>> = s /\ <<>> \o s = s
  BY ConcatEmptySeq
<1>3. a \o (b \o c) = (a \o b) \o c
  BY ConcatAssociative
<1>4. <<>> \in Seq(T)
  BY EmptySeq
<1> QED
  BY <1>1, <1>2, <1>3, <1>4

\* A request takes what waits, and that is written.
LEMMA DriverAsks ==
  ASSUME DriverInv, HoldInv', Ask
  PROVE  DriverInv'
<1>0. /\ work \in Message /\ queued \in Seq(Queueable) /\ copy \in Chats /\ drained \in Seq(Slots)
      /\ told \in Seq(Nat) /\ made \in Nat /\ todo \in Seq(Tasks)
  BY DriverFacts
<1>1. at = "check" /\ todo = <<>> /\ drained = <<>> /\ UNCHANGED <<work, queued, copy, told, todo, made, lost>>
  BY DEF Ask, loopVars, workVars, callVars, DriverInv, BatchInv, InputsInv
<1>2. PICK c \in Chats : c = chat
  BY DriverFacts
<1>3. PICK f \in Chats : /\ f = PushSystem(c) /\ f.wire = c.wire /\ f.prims = c.prims
                         /\ Range(Values(c.pending)) \subseteq Range(Values(f.pending))
                         /\ Rows(f) = Rows(c) /\ \A x : Sends(f, x) = Sends(c, x)
  BY PushSystemKeeps, PushSystemSays
<1>4. CASE cancelled
  BY <1>0, <1>1, <1>4, ChatFrozen DEF Ask
<1>5. ASSUME ~cancelled, at' = "asking", chat' = Drain(PersistPending(f)),
             drained' = PersistPending(f).pending
      PROVE  DriverInv'
  <2>1. PICK e \in Chats : /\ e = PersistPending(f) /\ e.wire = f.wire
                           /\ Inputs(e.prims) = Rows(f) /\ Unwritten(e.pending) = <<>>
                           /\ Values(e.pending) = Values(f.pending)
                           /\ Sends(e, <<>>) = Sends(f, <<>>)
    BY PersistKeeps, PersistSays
  <2>2. /\ chat' \in Chats /\ chat'.pending = <<>> /\ chat'.prims = e.prims /\ chat'.wire = e.wire
        /\ drained' = e.pending /\ e.pending \in Seq(Slots)
    BY <1>5, <2>1, DrainKeeps, ChatType
  <2>3. /\ Inputs(e.prims) \o <<>> = Inputs(e.prims)
        /\ (Inputs(e.wire) \o <<>>) \o Waiting(e.pending) = (Inputs(e.wire) \o Waiting(e.pending)) \o <<>>
    BY ChatParts, EmptyParts
  <2>4. ChatTypes'
    BY <1>0, <1>1, <2>2 DEF ChatTypes
  <2>5. RowsInv'
    BY <1>1, <1>2, <1>3, <1>5, <2>1, <2>2, <2>3, UnwrittenEmpty DEF DriverInv, RowsInv, Rows
  <2>6. Sends(chat', drained') = Sends(chat, drained)
    BY <1>1, <1>2, <1>3, <2>1, <2>2, <2>3, WaitingEmpty DEF Sends
  <2>7. InputsInv'
    BY <1>1, <1>5, <2>2, <2>6 DEF DriverInv, InputsInv
  <2>8. BatchInv'
    <3>1. Answers \subseteq Answers'
      <4>1. Range(Values(chat.pending)) \subseteq Range(Values(drained')) /\ chat'.wire = chat.wire
        BY <1>2, <1>3, <2>1, <2>2
      <4>2. Range(Values(drained)) = {}
        BY <1>1, ValuesEmpty, EmptySeq DEF Range
      <4> QED
        BY <4>1, <4>2 DEF Answers
    <3>2. Open' = Open
      BY <1>1, <1>5 DEF Open
    <3>3. chat'.wire = chat.wire
      BY <1>2, <1>3, <2>1, <2>2
    <3> HIDE DEF Answers, Open
    <3> QED
      BY <1>1, <1>5, <3>1, <3>2, <3>3 DEF DriverInv, BatchInv
  <2> QED
    BY <2>4, <2>5, <2>7, <2>8 DEF DriverInv
<1>6. ASSUME ~cancelled, at' = "wrap", chat' \in NotSaved(f), drained' = drained
      PROVE  DriverInv'
  <2>1. PICK e \in NotSaved(f) : e = chat'
    BY <1>6
  <2>2. e \in Chats /\ Rows(e) = Rows(f) /\ e.wire = f.wire /\ Values(e.pending) = Values(f.pending)
        /\ Sends(e, drained) = Sends(f, drained)
    BY SavedSays DEF Saved
  <2>3. ChatTypes'
    BY <1>0, <1>1, <1>6, <2>1, <2>2 DEF ChatTypes
  <2>4. RowsInv'
    BY <1>1, <1>2, <1>3, <1>6, <2>1, <2>2 DEF DriverInv, RowsInv
  <2>5. InputsInv'
    BY <1>1, <1>2, <1>3, <1>6, <2>1, <2>2 DEF DriverInv, InputsInv
  <2>6. BatchInv'
    <3>1. Answers \subseteq Answers'
      BY <1>2, <1>3, <1>6, <2>1, <2>2 DEF Answers
    <3>2. Open' = Open
      BY <1>1, <1>6 DEF Open
    <3>3. chat'.wire = chat.wire
      BY <1>2, <1>3, <2>1, <2>2
    <3> HIDE DEF Answers, Open
    <3> QED
      BY <1>1, <1>6, <3>1, <3>2, <3>3 DEF DriverInv, BatchInv
  <2> QED
    BY <2>3, <2>4, <2>5, <2>6 DEF DriverInv
<1>7. \/ cancelled
      \/ ~cancelled /\ at' = "asking" /\ chat' = Drain(PersistPending(f)) /\ drained' = PersistPending(f).pending
      \/ ~cancelled /\ at' = "wrap" /\ chat' \in NotSaved(f) /\ drained' = drained
  BY <1>2, <1>3 DEF Ask
<1> QED
  BY <1>4, <1>5, <1>6, <1>7

\* A request that fails gives back what it took.
LEMMA ChatRestored ==
  ASSUME DriverInv, HoldInv', at \in {"asking", "saving"}, at' = "wrap",
         chat' = Restore(chat, drained), drained' = <<>>, todo' = <<>>,
         UNCHANGED <<work, queued, copy, told, made, lost>>
  PROVE  DriverInv'
<1>0. /\ work \in Message /\ queued \in Seq(Queueable) /\ copy \in Chats /\ drained \in Seq(Slots)
      /\ told \in Seq(Nat) /\ made \in Nat
  BY DriverFacts
<1>1. PICK c \in Chats : c = chat
  BY DriverFacts
<1>2. PICK d \in Seq(Slots) : d = drained
  BY <1>0
<1>3. PICK e \in Chats : /\ e = Restore(c, d) /\ e.prims = c.prims /\ e.wire = c.wire
                         /\ Waiting(e.pending) = Waiting(d) \o Waiting(c.pending)
                         /\ Unwritten(e.pending) = Unwritten(d) \o Unwritten(c.pending)
                         /\ Range(Values(c.pending)) \union (Range(Values(d)) \cap Spoken)
                              \subseteq Range(Values(e.pending))
  BY RestoreKeeps
<1>4. chat' = e
  BY <1>1, <1>2, <1>3
<1>5. ChatTypes'
  <2>1. <<>> \in Seq(Slots) /\ <<>> \in Seq(Tasks)
    BY EmptySeq
  <2> QED
    BY <1>0, <1>4, <2>1 DEF ChatTypes
<1>6. RowsInv'
  <2>1. Unwritten(d) = <<>>
    BY <1>2 DEF DriverInv, RowsInv
  <2>2. <<>> \o Unwritten(c.pending) = Unwritten(c.pending)
    BY ChatParts, EmptyParts
  <2> QED
    BY <1>1, <1>3, <1>4, <2>1, <2>2, UnwrittenEmpty DEF DriverInv, RowsInv, Rows
<1>7. InputsInv'
  <2>1. /\ (Inputs(c.wire) \o <<>>) \o (Waiting(d) \o Waiting(c.pending))
             = Inputs(c.wire) \o (Waiting(d) \o Waiting(c.pending))
        /\ Inputs(c.wire) \o (Waiting(d) \o Waiting(c.pending))
             = (Inputs(c.wire) \o Waiting(d)) \o Waiting(c.pending)
    <3>1. PICK x \in Seq(Nat) : x = Inputs(c.wire)
      BY ChatParts
    <3>2. PICK y \in Seq(Nat) : y = Waiting(d)
      BY WaitingType
    <3>3. PICK z \in Seq(Nat) : z = Waiting(c.pending)
      BY ChatParts
    <3>4. x \o <<>> = x /\ x \o (y \o z) = (x \o y) \o z
      BY EmptyParts
    <3> QED
      BY <3>1, <3>2, <3>3, <3>4
  <2>2. Sends(e, <<>>) = Sends(c, d)
    BY <1>3, <2>1, WaitingEmpty DEF Sends
  <2> QED
    BY <1>1, <1>2, <1>4, <2>2 DEF DriverInv, InputsInv
<1>8. BatchInv'
  <2>1. chat'.wire = chat.wire
    BY <1>1, <1>3, <1>4
  <2>2. Open = {}
    <3>1. CASE at = "saving"
      BY <3>1 DEF Open
    <3>2. CASE at = "asking"
      <4>1. todo = <<>>
        BY <3>2 DEF DriverInv, BatchInv
      <4>2. DOMAIN <<>> = {}
        OBVIOUS
      <4> QED
        BY <4>1, <4>2 DEF Open
    <3> QED
      BY <3>1, <3>2
  <2>3. ASSUME NEW item \in Range(chat.wire), item.kind = "call", Item("result", item.n) \in Answers
        PROVE  Item("result", item.n) \in Answers'
    <3>1. item \in Items
      BY <1>1, ChatType, RangeOfSeq
    <3>2. Item("result", item.n) \in Spoken
      BY <3>1 DEF Item, Items, Spoken, SpokenKinds, InputKinds
    <3>3. \/ Item("result", item.n) \in Range(c.wire)
          \/ Item("result", item.n) \in Range(Values(d))
          \/ Item("result", item.n) \in Range(Values(c.pending))
      BY <1>1, <1>2, <2>3 DEF Answers
    <3>4. Item("result", item.n) \in Range(e.wire) \union Range(Values(e.pending))
      BY <1>3, <3>2, <3>3
    <3> QED
      BY <1>4, <3>4 DEF Answers
  <2> HIDE DEF Answers, Open
  <2> QED
    BY <2>1, <2>2, <2>3 DEF DriverInv, BatchInv
<1> QED
  BY <1>5, <1>6, <1>7, <1>8 DEF DriverInv

\* A request fails, or is answered.
LEMMA DriverRequest ==
  ASSUME DriverInv, HoldInv', RequestFails \/ StreamEnds
  PROVE  DriverInv'
<1>1. CASE RequestFails
  <2>1. todo = <<>> /\ todo' = todo
    BY <1>1 DEF RequestFails, callVars, DriverInv, BatchInv
  <2> QED
    BY <1>1, <2>1, ChatRestored DEF RequestFails, loopVars, workVars, callVars
<1>2. CASE StreamEnds
  <2>1. /\ at = "asking" /\ at' = "saving" /\ UNCHANGED <<work, queued, chat, copy, drained, told, lost>>
        /\ todo = <<>>
    BY <1>2 DEF StreamEnds, loopVars, workVars, chatVars, DriverInv, BatchInv
  <2>2. todo' \in Seq(Tasks) /\ made' \in Nat
    <3>1. MaxInputs \in Nat /\ made \in Nat
      BY DriverAssumption, DriverFacts
    <3>2. CASE todo' = <<>> /\ made' = made
      BY <3>1, <3>2, EmptySeq
    <3>3. ASSUME NEW kinds \in Batches,
                 todo' = [k \in DOMAIN kinds |-> Item(kinds[k], MaxInputs + made + k)],
                 made' = made + Len(kinds)
          PROVE  todo' \in Seq(Tasks) /\ made' \in Nat
      <4>1. kinds \in Seq(CallKinds)
        BY DriverAssumption
      <4>2. Len(kinds) \in Nat /\ DOMAIN kinds = 1..Len(kinds) /\ \A k \in 1..Len(kinds) : kinds[k] \in CallKinds
        BY <4>1, LenProperties, ElementOfSeq
      <4>3. \A k \in 1..Len(kinds) : MaxInputs + made + k \in Nat
        BY <3>1, <4>2
      <4>4. \A k \in 1..Len(kinds) : Item(kinds[k], MaxInputs + made + k) \in Tasks
        BY <4>2, <4>3 DEF Item, Tasks
      <4> DEFINE f == [k \in 1..Len(kinds) |-> Item(kinds[k], MaxInputs + made + k)]
      <4>5. f \in Seq(Tasks)
        <5>1. f = [k \in 1..Len(kinds) |-> f[k]] /\ \A k \in 1..Len(kinds) : f[k] \in Tasks
          BY <4>4
        <5> HIDE DEF f
        <5> QED
          BY <4>2, <5>1, MapIsSeq
      <4> QED
        BY <3>1, <3>3, <4>2, <4>5
    <3> QED
      BY <1>2, <3>2, <3>3 DEF StreamEnds
  <2>3. ChatTypes'
    BY <2>1, <2>2, DriverFacts DEF ChatTypes
  <2>4. RowsInv' /\ InputsInv'
    BY <2>1 DEF DriverInv, RowsInv, InputsInv
  <2>5. Open = {} /\ Open' = {} /\ Answers' = Answers
    <3>1. DOMAIN <<>> = {}
      OBVIOUS
    <3> QED
      BY <2>1, <3>1 DEF Open, Answers
  <2>6. BatchInv'
    BY <2>1, <2>5 DEF DriverInv, BatchInv
  <2> QED
    BY <2>3, <2>4, <2>6 DEF DriverInv
<1> QED
  BY <1>1, <1>2

\* An answered request is recorded with its inputs and its calls.
LEMMA DriverExchange ==
  ASSUME DriverInv, HoldInv', SaveExchange
  PROVE  DriverInv'
<1>0. /\ work \in Message /\ queued \in Seq(Queueable) /\ copy \in Chats /\ drained \in Seq(Slots)
      /\ told \in Seq(Nat) /\ made \in Nat /\ todo \in Seq(Tasks)
  BY DriverFacts
<1>1. /\ at = "saving" /\ drained' = <<>> /\ UNCHANGED <<work, queued, copy, told, made, lost>>
  BY DEF SaveExchange, loopVars, workVars
<1>2. CASE at' = "wrap" /\ chat' = Restore(chat, drained) /\ todo' = <<>>
  BY <1>1, <1>2, ChatRestored
<1>3. ASSUME at' = "replied", chat' = Record(chat, drained, CallsOf(todo)), todo' = todo
      PROVE  DriverInv'
  <2>1. PICK c \in Chats : c = chat
    BY DriverFacts
  <2>2. PICK d \in Seq(Slots) : d = drained
    BY <1>0
  <2>3. PICK calls \in Seq(Items) : /\ calls = CallsOf(todo)
                                    /\ Range(calls) = {Item("call", todo[k].n) : k \in DOMAIN todo}
    <3>1. PICK t \in Seq(Tasks) : t = todo /\ Len(t) \in Nat /\ DOMAIN t = 1..Len(t)
                                  /\ \A k \in 1..Len(t) : t[k] \in Tasks
      BY <1>0, LenProperties, ElementOfSeq
    <3>2. \A k \in 1..Len(t) : Item("call", t[k].n) \in Items
      BY <3>1 DEF Tasks, Item, Items, SpokenKinds
    <3>3. CallsOf(t) = [k \in 1..Len(t) |-> Item("call", t[k].n)]
      BY <3>1 DEF CallsOf
    <3>4. CallsOf(t) \in Seq(Items)
      BY <3>1, <3>2, <3>3, MapIsSeq
    <3>5. Range(CallsOf(t)) = {Item("call", t[k].n) : k \in DOMAIN t}
      BY <3>1, <3>3 DEF Range
    <3> QED
      BY <3>1, <3>4, <3>5
  <2>4. Range(calls) \cap InputItems = {}
    BY <2>3 DEF Item, InputItems, InputKinds
  <2>5. PICK e \in Chats : /\ e = Record(c, d, calls) /\ e.pending = c.pending
                           /\ Inputs(e.prims) = Inputs(c.prims)
                           /\ Inputs(e.wire) = Inputs(c.wire) \o Waiting(d)
                           /\ Range(e.wire) = (Range(c.wire) \union (Range(Values(d)) \cap Spoken))
                                                \union Range(calls)
    BY <2>4, RecordKeeps
  <2>6. chat' = e
    BY <1>3, <2>1, <2>2, <2>3, <2>5
  <2>7. ChatTypes'
    <3>1. <<>> \in Seq(Slots)
      BY EmptySeq
    <3> QED
      BY <1>0, <1>1, <1>3, <2>6, <3>1 DEF ChatTypes
  <2>8. RowsInv'
    BY <1>1, <1>3, <2>1, <2>5, <2>6, UnwrittenEmpty DEF DriverInv, RowsInv, Rows
  <2>9. Sends(e, <<>>) = Sends(c, d)
    <3>1. PICK x \in Seq(Nat) : x = Inputs(e.wire)
      BY ChatParts
    <3>2. x \o <<>> = x
      BY EmptyParts
    <3> QED
      BY <2>5, <3>1, <3>2, WaitingEmpty DEF Sends
  <2>10. InputsInv'
    BY <1>1, <1>3, <2>1, <2>2, <2>6, <2>9 DEF DriverInv, InputsInv
  <2>11. BatchInv'
    <3>1. ASSUME ~lost, NEW item \in Range(e.wire), item.kind = "call"
          PROVE  item.n \in Open' \/ Item("result", item.n) \in Answers'
      <4>1. CASE item \in Range(calls)
        <5>1. PICK k \in DOMAIN todo : item = Item("call", todo[k].n)
          BY <2>3, <4>1
        <5>2. item.n = todo[k].n
          BY <5>1 DEF Item
        <5>3. Open' = {todo[j].n : j \in DOMAIN todo}
          BY <1>3 DEF Open
        <5> QED
          BY <5>2, <5>3
      <4>2. CASE item \in Range(Values(d))
        BY <3>1, <4>2, NoCallWaits
      <4>3. CASE item \in Range(c.wire)
        <5>1. Open = {}
          BY <1>1 DEF Open
        <5>2. Item("result", item.n) \in Answers
          BY <2>1, <3>1, <4>3, <5>1 DEF DriverInv, BatchInv
        <5>3. item \in Items
          BY <4>3, ChatType, RangeOfSeq
        <5>4. Item("result", item.n) \in Spoken
          BY <5>3 DEF Item, Items, Spoken, SpokenKinds, InputKinds
        <5>5. \/ Item("result", item.n) \in Range(c.wire)
              \/ Item("result", item.n) \in Range(Values(d))
              \/ Item("result", item.n) \in Range(Values(c.pending))
          BY <2>1, <2>2, <5>2 DEF Answers
        <5>6. Item("result", item.n) \in Range(e.wire) \union Range(Values(e.pending))
          BY <2>5, <5>4, <5>5
        <5> QED
          BY <2>6, <5>6 DEF Answers
      <4> QED
        BY <2>5, <3>1, <4>1, <4>2, <4>3
    <3> HIDE DEF Open, Answers
    <3> QED
      BY <1>1, <1>3, <2>6, <3>1 DEF DriverInv, BatchInv
  <2> QED
    BY <2>7, <2>8, <2>10, <2>11 DEF DriverInv
<1> QED
  BY <1>2, <1>3 DEF SaveExchange

\* A request that is dropped, or its outcome, loses nothing or is counted as lost.
LEMMA DriverDrops ==
  ASSUME DriverInv, HoldInv', EventFails
  PROVE  DriverInv'
<1>0. /\ work \in Message /\ queued \in Seq(Queueable) /\ copy \in Chats
      /\ told \in Seq(Nat) /\ made \in Nat
  BY DriverFacts
<1>1. /\ at \in {"asking", "saving", "replied"} /\ at' = "wrap" /\ drained' = <<>> /\ todo' = <<>>
      /\ UNCHANGED <<work, queued, chat, copy, told, made>>
      /\ (~lost' => ~lost /\ Retry(drained) = <<>> /\ todo = <<>>)
  BY DEF EventFails, loopVars, workVars
<1>2. PICK c \in Chats : c = chat
  BY DriverFacts
<1>3. PICK d \in Seq(Slots) : d = drained
  BY DriverFacts
<1>4. ChatTypes'
  <2>1. <<>> \in Seq(Slots) /\ <<>> \in Seq(Tasks)
    BY EmptySeq
  <2> QED
    BY <1>0, <1>1, <1>2, <2>1 DEF ChatTypes
<1>5. RowsInv'
  BY <1>1, UnwrittenEmpty DEF DriverInv, RowsInv
<1>6. InputsInv'
  <2>1. ASSUME ~lost' PROVE Sends(chat, <<>>) = told
    <3>1. Waiting(d) = <<>>
      BY <1>1, <1>3, <2>1, RetryKeeps, WaitingEmpty
    <3>2. Sends(c, <<>>) = Sends(c, d)
      BY <3>1, WaitingEmpty DEF Sends
    <3> QED
      BY <1>1, <1>2, <1>3, <2>1, <3>2 DEF DriverInv, InputsInv
  <2> QED
    BY <1>1, <2>1 DEF InputsInv
<1>7. BatchInv'
  <2>1. ASSUME ~lost', NEW item \in Range(chat.wire), item.kind = "call"
        PROVE  Item("result", item.n) \in Answers'
    <3>1. Open = {}
      <4>1. DOMAIN <<>> = {}
        OBVIOUS
      <4> QED
        BY <1>1, <2>1, <4>1 DEF Open
    <3>2. Item("result", item.n) \in Answers
      BY <1>1, <2>1, <3>1 DEF DriverInv, BatchInv
    <3>3. item \in Items
      BY <1>2, ChatType, RangeOfSeq
    <3>4. Item("result", item.n) \in Spoken
      BY <3>3 DEF Item, Items, Spoken, SpokenKinds, InputKinds
    <3>5. Item("result", item.n) \notin Range(Values(d))
      <4>1. Range(Picked(d, Kept)) = Range(d) \cap Kept
        BY PickedRange
      <4>2. Picked(d, Kept) = <<>>
        BY <1>1, <1>3, <2>1 DEF Retry, Kept
      <4>3. Range(<<>>) = {}
        BY EmptySeq DEF Range
      <4>4. ASSUME NEW x \in Range(d) PROVE x.value \notin Spoken
        <5>1. x \in Slots
          BY RangeOfSeq
        <5>2. x \notin Kept
          BY <4>1, <4>2, <4>3
        <5> QED
          BY <5>1, <5>2, SlotType
      <4> QED
        BY <3>4, <4>4, ValuesRange
    <3>6. Item("result", item.n) \in Range(chat.wire) \union Range(Values(chat.pending))
      BY <1>3, <3>2, <3>5 DEF Answers
    <3> QED
      BY <1>1, <3>6 DEF Answers
  <2> HIDE DEF Open, Answers
  <2> QED
    BY <1>1, <2>1 DEF DriverInv, BatchInv
<1> QED
  BY <1>4, <1>5, <1>6, <1>7 DEF DriverInv

\* The copy is made of rows that hold everything.
LEMMA DriverCopies ==
  ASSUME DriverInv, HoldInv', CopyChat
  PROVE  DriverInv'
<1>0. work \in Message /\ queued \in Seq(Queueable) /\ copy \in Chats
  BY DriverFacts
<1>1. /\ at = "connect" /\ todo = <<>> /\ UNCHANGED <<work, queued, drained, told, todo, made, lost>>
  BY DEF CopyChat, loopVars, workVars, callVars, DriverInv, BatchInv
<1>2. PICK c \in Chats : c = chat
  BY DriverFacts
<1>3. PICK old \in Chats : /\ old = PersistPending(c) /\ Inputs(old.prims) = told
  <2>1. PersistPending(c) \in Chats /\ Inputs(PersistPending(c).prims) = Rows(c)
    BY PersistKeeps, PersistSays
  <2> QED
    BY <1>2, <2>1 DEF DriverInv, RowsInv
<1>4. CASE /\ chat' = old /\ at' = "copied"
           /\ copy' = IF old.prims = <<>> THEN Fresh ELSE PersistPending(CopyOf(old.prims))
  <2>1. old.prims \in Seq(Items)
    BY ChatType
  <2>2. /\ copy' \in Chats /\ copy'.wire = <<>>
        /\ Inputs(copy'.prims) = told /\ Unwritten(copy'.pending) = <<>>
        /\ Waiting(copy'.pending) = told
    <3>1. CASE old.prims = <<>>
      BY <1>3, <1>4, <3>1, FreshKeeps, InputsEmpty
    <3>2. CASE old.prims # <<>>
      BY <1>3, <1>4, <2>1, <3>2, CopyKeeps
    <3> QED
      BY <3>1, <3>2
  <2>3. chat' \in Saved(chat)
    BY <1>2, <1>3, <1>4 DEF Saved
  <2> QED
    BY <1>0, <1>1, <1>4, <2>2, <2>3, ChatSaved
<1>5. CASE chat' \in NotSaved(chat) \union {old} /\ copy' = copy /\ at' \in {"idle", "over"}
  <2>1. chat' \in Saved(chat)
    BY <1>2, <1>3, <1>5 DEF Saved
  <2> QED
    BY <1>0, <1>1, <1>5, <2>1, ChatSaved
<1> QED
  BY <1>2, <1>3, <1>4, <1>5 DEF CopyChat, Done

\* The copy takes the place of the chat, or is dropped.
LEMMA DriverSwitches ==
  ASSUME DriverInv, HoldInv', SwitchChat
  PROVE  DriverInv'
<1>0. /\ work \in Message /\ queued \in Seq(Queueable) /\ copy \in Chats /\ drained \in Seq(Slots)
      /\ told \in Seq(Nat) /\ made \in Nat /\ todo \in Seq(Tasks)
  BY DriverFacts
<1>1. /\ at = "copied" /\ todo = <<>> /\ drained = <<>> /\ at' \in {"idle", "over"} /\ copy' = Fresh
      /\ UNCHANGED <<work, queued, drained, told, todo, made, lost>>
      /\ (chat' = copy \/ chat' = chat)
  BY DEF SwitchChat, Done, loopVars, workVars, callVars, DriverInv, BatchInv, InputsInv
<1>2. CASE chat' = chat
  <2>1. chat' \in Saved(chat)
    BY <1>2 DEF Saved, NotSaved
  <2> QED
    BY <1>0, <1>1, <2>1, FreshKeeps, ChatSaved
<1>3. CASE chat' = copy
  <2>1. /\ copy.wire = <<>> /\ Inputs(copy.prims) = told /\ Unwritten(copy.pending) = <<>>
        /\ Waiting(copy.pending) = told
    BY <1>1 DEF DriverInv, RowsInv
  <2>2. ChatTypes'
    BY <1>0, <1>1, <1>3, FreshKeeps DEF ChatTypes
  <2>3. told \o <<>> = told /\ (<<>> \o <<>>) \o told = told
    <3>1. <<>> \in Seq(Nat)
      BY EmptySeq
    <3> QED
      BY <1>0, <3>1, EmptyParts
  <2>4. RowsInv'
    BY <1>1, <1>3, <2>1, <2>3, UnwrittenEmpty DEF RowsInv, Rows
  <2>5. InputsInv'
    BY <1>1, <1>3, <2>1, <2>3, InputsEmpty, WaitingEmpty DEF InputsInv, Sends
  <2>6. BatchInv'
    <3>1. Range(<<>>) = {}
      BY EmptySeq DEF Range
    <3> QED
      BY <1>1, <1>3, <2>1, <3>1 DEF BatchInv
  <2> QED
    BY <2>2, <2>4, <2>5, <2>6 DEF DriverInv
<1> QED
  BY <1>1, <1>2, <1>3

\* Every step keeps the invariant.
LEMMA DriverStep == DriverInv /\ [Next]_vars => DriverInv'
<1> SUFFICES ASSUME DriverInv, [Next]_vars PROVE DriverInv'
  OBVIOUS
<1>1. HoldInv'
  BY HoldStep DEF DriverInv
<1>2. CASE UNCHANGED vars
  <2>1. work' \in Message /\ queued' \in Seq(Queueable)
    BY <1>2, DriverFacts DEF vars, workVars, loopVars
  <2> QED
    BY <1>1, <1>2, <2>1, ChatFrozen DEF vars, chatVars, callVars, DriverInv, BatchInv
<1>3. CASE User
  BY <1>1, <1>3, DriverUser, DriverCalls
<1>4. CASE Take \/ Receive
  BY <1>1, <1>4, DriverTake, DriverReceive
<1>5. CASE NoticeShutdown \/ Stop \/ Fetch \/ Answered \/ StartBatch \/ AskUser \/ StartWait \/ SelectFails
  BY <1>1, <1>5, DriverMoves
<1>6. CASE RecordPrompt \/ Ask
  BY <1>1, <1>6, DriverRecords, DriverAsks
<1>7. CASE RequestFails \/ StreamEnds \/ SaveExchange \/ EventFails
  BY <1>1, <1>7, DriverRequest, DriverExchange, DriverDrops
<1>8. CASE Execute \/ GateInterrupted \/ CallEnds
  BY <1>1, <1>8, DriverCalls
<1>9. CASE SaveResults \/ WrapUp
  BY <1>1, <1>9, DriverSaves
<1>10. CASE CopyChat \/ SwitchChat
  BY <1>1, <1>10, DriverCopies, DriverSwitches
<1> QED
  BY <1>2, <1>3, <1>4, <1>5, <1>6, <1>7, <1>8, <1>9, <1>10 DEF Next, Driver

\* "A failed model request keeps its inputs queued for retry" (session-runtime.md),
\* as far as the code holds it: until model_call (driver.rs) drops a request,
\* everything the chat was told was sent, is with the request in flight, or is
\* pending, once and in order.
THEOREM InputsKept == Spec => []InputsAreKept
<1>1. DriverInv => InputsAreKept
  <2> SUFFICES ASSUME DriverInv, ~lost PROVE FailedRequestKeepsInputs
    BY DEF InputsAreKept
  <2>1. Sends(chat, drained) = told
    BY DEF DriverInv, InputsInv
  <2> QED
    BY <2>1 DEF FailedRequestKeepsInputs, AskedOrWaiting, Sends, Waiting
<1> QED
  BY DriverInit, DriverStep, <1>1, PTL DEF Spec

\* "Chat inputs and tool outcomes are persisted before continuation ... without
\* duplicating primitive history rows" (session-runtime.md): the rows, and what
\* persist_pending (chat/session.rs) has still to write, are all the chat was
\* told, once and in order, whatever failed, was retried or was copied.
THEOREM RowsExact == Spec => []RowsAreExact
<1>1. DriverInv => RowsAreExact
  BY DEF DriverInv, RowsInv, Rows, RowsAreExact, Unwritten
<1> QED
  BY DriverInit, DriverStep, <1>1, PTL DEF Spec

\* "Every call receives a result, even if a prior call was interrupted.  No new
\* model request is issued while a batch is unsettled" (driver.rs).
THEOREM BatchesAreSettled == Spec => []BatchIsSettled
<1>1. DriverInv => BatchIsSettled
  <2> SUFFICES ASSUME DriverInv, at = "asking", ~lost,
                      NEW item \in Range(chat.wire), item.kind = "call"
      PROVE  Settled(item.n)
    BY DEF BatchIsSettled
  <2>1. Open = {}
    <3>1. todo = <<>>
      BY DEF DriverInv, BatchInv
    <3>2. DOMAIN <<>> = {}
      OBVIOUS
    <3> QED
      BY <3>1, <3>2 DEF Open
  <2>2. Item("result", item.n) \in Answers
    BY <2>1 DEF DriverInv, BatchInv
  <2>3. Range(Values(chat.pending)) = {}
    <3>1. chat.pending = <<>>
      BY DEF DriverInv, InputsInv
    <3> QED
      BY <3>1, ValuesEmpty, EmptySeq DEF Range
  <2>4. Range(chat.wire \o Values(drained)) = Range(chat.wire) \union Range(Values(drained))
    <3>1. chat.wire \in Seq(Items) /\ Values(drained) \in Seq(Items)
      BY DriverFacts, ChatType, ValuesType
    <3> QED
      BY <3>1, RangeConcatenation
  <2> QED
    BY <2>2, <2>3, <2>4 DEF Answers, Settled
<1> QED
  BY DriverInit, DriverStep, <1>1, PTL DEF Spec

-----------------------------------------------------------------------------
(* What the bindings of the configuration and its providers keep.          *)

Nodes == {Providers, Models} \cup {Provider(id) : id \in Ids} \cup Paths

\* The tree says what the providers have said, in as many nodes as that takes, or a few more,
\* but no leaf without a value.
TreeInv ==
  /\ DOMAIN tree \subseteq Nodes /\ tree \in [DOMAIN tree -> [Layers -> Settings]]
  /\ said \in [Layers -> [Paths -> Settings]]
  /\ \A l \in Layers : \A p \in Paths : said[l][p] = IF p \in DOMAIN tree THEN tree[p][l] ELSE Null
  /\ \A node \in DOMAIN tree : Value(tree[node]) # Null <=> node \in Paths
  /\ \A id \in Ids : (Kind(id) \in DOMAIN tree => Provider(id) \in DOMAIN tree)
                     /\ (Provider(id) \in DOMAIN tree => Providers \in DOMAIN tree)
  /\ \A name \in ModelNames : Model(name) \in DOMAIN tree => Models \in DOMAIN tree

QueueInv ==
  /\ table \in [Paths -> Settings \cup {Malformed}]
  /\ channel \in Seq([layer : Layers, events : Seq(Events)])
  /\ building \in 1..(Session + 2)
  /\ writers \in [1..2 -> Seq(Events)]

Refreshers == [of : Bindings, gen : Nat, required : BOOLEAN]
Own(b) == [of |-> b, gen |-> bindings[b].gen, required |-> bindings[b].at = "required"]
IsBound(b) == bindings[b].at \in {"bound", "checked", "required"}

\* Who is bound is registered; a refresher that keeps the last value is of a required binding.
RegistryInv ==
  /\ DOMAIN bindings = Bindings
  /\ \A b \in Bindings :
       /\ DOMAIN bindings[b] = {"at", "value", "tick", "gen", "missed"}
       /\ bindings[b].at \in {"none", "read", "bound", "checked", "required"}
       /\ bindings[b].tick \in Nat /\ bindings[b].gen \in Nat /\ bindings[b].missed \in BOOLEAN
       /\ bindings[b].at \in {"checked", "required"} => b = "default"
       /\ IsBound(b) => Own(b) \in Range(registry)
  /\ registry \in Seq(Refreshers) /\ processor.todo \in Seq(Refreshers)
  /\ \A refresher \in Range(registry) \cup Range(processor.todo) :
       /\ refresher.gen <= bindings[refresher.of].gen
       /\ refresher.required /\ refresher.gen = bindings[refresher.of].gen => bindings[refresher.of].at = "required"
  /\ DOMAIN processor = {"at", "todo"} /\ processor.at \in {"idle", "applied", "refreshing"}
  /\ processor.at = "refreshing" <=> processor.todo # <<>>

\* A binding has what the tree says, or is to be refreshed, or has missed it.
HasCurrent(b) == bindings[b].value = Decode(tree, b) \/ (bindings[b].at = "required" /\ Decode(tree, b) = Absent)
Awaited(b) == \E refresher \in Range(processor.todo) : refresher.of = b /\ refresher.gen = bindings[b].gen
CurrentInv ==
  \A b \in Bindings :
    /\ IsBound(b) /\ ~bindings[b].missed => HasCurrent(b) \/ processor.at = "applied" \/ Awaited(b)
    /\ bindings[b].at = "read" /\ ~bindings[b].missed =>
         bindings[b].value = Decode(tree, b) \/ processor.at = "applied"

\* The default model that was named last, and the binding of the default model.
Held == bindings["default"].at \in {"read", "bound", "checked", "required"} /\ ~bindings["default"].missed
LastInv ==
  /\ Decode(tree, "default") \in {Absent, last}
  /\ Held /\ Decode(tree, "default") = Absent => bindings["default"].value \in {Absent, last}
  /\ Held /\ bindings["default"].at \in {"checked", "required"} => bindings["default"].value # Absent

ConfigInv == TreeInv /\ QueueInv /\ RegistryInv /\ CurrentInv /\ LastInv

\* How the cache knows of the ids, and the entry of its configuration.
Calls == {"idle", "model", "drain", "ids", "entry", "rebuild", "register", "build", "subscribe", "returned"}
IdsKnown == ~cache.fired /\ cache.seen = bindings["keys"].tick => cache.keys = IdSet
EntryKnown == ~cache.entry.stale /\ cache.entry.seen = bindings["entry"].tick /\ call.at # "rebuild" =>
                bindings["entry"].value \in {Absent, cache.entry.provider}
CacheType ==
  /\ DOMAIN cache = {"fired", "seen", "keys", "filled", "entry"} /\ cache.seen \in Nat
  /\ DOMAIN cache.entry = {"provider", "seen", "stale", "listed"} /\ cache.entry.seen \in Nat
  /\ DOMAIN call = {"at", "name", "model", "provider", "quiet"} /\ call.at \in Calls
CacheHolds ==
  /\ bindings["models"].at \in {"read", "bound"} \/ call.at # "idle" => bindings["keys"].at = "bound"
  /\ call.at = "idle" => cache.fired /\ ~cache.filled /\ cache.seen = 0
  /\ cache.seen <= bindings["keys"].tick /\ IdsKnown
  /\ cache.filled => bindings["entry"].at = "bound" /\ cache.entry.seen <= bindings["entry"].tick /\ EntryKnown
  /\ cache.filled \/ call.at = "subscribe" => (cache.entry.listed => "a" \in cache.keys)
  /\ call.at = "rebuild" => cache.filled
  /\ call.at = "register" => ~cache.filled /\ bindings["entry"].at = "read"
  /\ call.at \in {"build", "subscribe"} => ~cache.filled /\ bindings["entry"].at = "bound"

\* A call that nothing disturbs.
RightProvider ==
  ~bindings["keys"].missed /\ ~bindings["entry"].missed /\ ~cache.entry.stale =>
    /\ cache.entry.listed /\ "a" \notin IdSet => call.provider = Absent
    /\ Decode(tree, "entry") # Absent => call.provider = Decode(tree, "entry")
QuietInv ==
  call.quiet /\ call.at # "idle" =>
    /\ Resting
    /\ call.at = "ids" => cache.fired \/ cache.keys = IdSet
    /\ call.at \in {"entry", "rebuild", "register", "build", "subscribe", "returned"} => cache.keys = IdSet
    /\ call.at = "subscribe" => bindings["entry"].value \in {Absent, cache.entry.provider}
    /\ call.at = "returned" => RightProvider

ProviderInv == ConfigInv /\ CacheType /\ CacheHolds /\ QuietInv

-----------------------------------------------------------------------------
(* The configuration and its providers (ProviderCache).                    *)

\* A sequence of one element.
LEMMA OnlyOne == ASSUME NEW S, NEW s \in Seq(S), Len(s) = 1 PROVE s = <<s[1]>>
<1>1. s[1] \in S
  BY ElementOfSeq
<1>2. <<s[1]>> \in Seq(S) /\ Len(<<s[1]>>) = 1 /\ <<s[1]>>[1] = s[1]
  BY <1>1
<1>3. \A i \in 1..Len(s) : s[i] = <<s[1]>>[i]
  BY <1>2
<1> QED
  BY <1>2, <1>3, SeqEqual

\* A sequence of two and of three, by its elements.
LEMMA FrontTwo == ASSUME NEW x, NEW y PROVE Front(<<x, y>>) = <<x>> /\ Last(<<x, y>>) = y
<1>1. SubSeq(<<x, y>>, 1, 1) \in Seq({x, y}) /\ Len(SubSeq(<<x, y>>, 1, 1)) = 1 /\ SubSeq(<<x, y>>, 1, 1)[1] = x
  BY SubSeqProperties
<1>3. SubSeq(<<x, y>>, 1, 1) = <<x>>
  BY <1>1, OnlyOne
<1> QED
  BY <1>3 DEF Front, Last

\* The front of three names.
LEMMA FrontThree ==
  ASSUME NEW x, NEW y, NEW z
  PROVE  SubSeq(<<x, y, z>>, 1, 2) = <<x, y>> /\ Front(<<x, y, z>>) = <<x, y>>
<1>1. SubSeq(<<x, y, z>>, 1, 2) \in Seq({x, y, z}) /\ Len(SubSeq(<<x, y, z>>, 1, 2)) = 2
      /\ SubSeq(<<x, y, z>>, 1, 2)[1] = x /\ SubSeq(<<x, y, z>>, 1, 2)[2] = y
  BY SubSeqProperties
<1>2. <<x, y>> \in Seq({x, y, z}) /\ Len(<<x, y>>) = 2 /\ <<x, y>>[1] = x /\ <<x, y>>[2] = y
  OBVIOUS
<1>3. \A i \in 1..2 : SubSeq(<<x, y, z>>, 1, 2)[i] = <<x, y>>[i]
  BY <1>1, <1>2
<1>4. SubSeq(<<x, y, z>>, 1, 2) = <<x, y>>
  BY <1>1, <1>2, <1>3, SeqEqual
<1> QED
  BY <1>4 DEF Front

\* The node above each path.
LEMMA Above ==
  /\ Front(Providers) = <<>> /\ Front(Models) = <<>>
  /\ \A id : Front(Provider(id)) = Providers /\ Front(Kind(id)) = Provider(id) /\ Last(Provider(id)) = id
  /\ \A name : Front(Model(name)) = Models /\ Last(Model(name)) = name
<1>1. \A x : Front(<<x>>) = <<>>
  BY SubSeqEmpty DEF Front
<1> QED
  BY <1>1, FrontTwo, FrontThree DEF Providers, Models, Provider, Kind, Model

\* Paths of different forms are different.
LEMMA Apart ==
  /\ Providers # Models /\ Providers # <<>> /\ Models # <<>>
  /\ \A id : /\ Len(Kind(id)) = 3 /\ Len(Provider(id)) = 2
             /\ Kind(id) \notin {<<>>, Providers, Models} /\ Provider(id) \notin {<<>>, Providers, Models}
             /\ \A other : /\ Kind(id) # Provider(other) /\ Kind(id) # Model(other) /\ Provider(id) # Model(other)
                           /\ (Kind(id) = Kind(other) => id = other)
                           /\ (Provider(id) = Provider(other) => id = other)
  /\ \A name : /\ Len(Model(name)) = 2 /\ Model(name) \notin {<<>>, Providers, Models}
               /\ \A other : Model(name) = Model(other) => name = other
  /\ Len(Providers) = 1 /\ Len(Models) = 1
BY DEF Providers, Models, Provider, Kind, Model

\* The nodes on the way.
LEMMA Ways ==
  /\ \A id : OnTheWay(Kind(id)) = {Providers, Provider(id), Kind(id)}
  /\ \A name : OnTheWay(Model(name)) = {Models, Model(name)}
<1>1. ASSUME NEW x, NEW y PROVE {SubSeq(<<x, y>>, 1, n) : n \in 1..Len(<<x, y>>)} = {<<x>>, <<x, y>>}
  <2>1. SubSeq(<<x, y>>, 1, 1) = <<x>> /\ SubSeq(<<x, y>>, 1, 2) = <<x, y>>
    <3>1. SubSeq(<<x, y>>, 1, 1) = <<x>>
      BY FrontTwo DEF Front
    <3>2. <<x, y>> \in Seq({x, y}) /\ Len(<<x, y>>) = 2
      OBVIOUS
    <3>3. SubSeq(<<x, y>>, 1, Len(<<x, y>>)) = <<x, y>>
      BY <3>2, SubSeqFull
    <3> QED
      BY <3>1, <3>2, <3>3
  <2>2. 1..Len(<<x, y>>) = {1, 2}
    OBVIOUS
  <2> QED
    BY <2>1, <2>2
<1>2. ASSUME NEW x, NEW y, NEW z
      PROVE {SubSeq(<<x, y, z>>, 1, n) : n \in 1..Len(<<x, y, z>>)} = {<<x>>, <<x, y>>, <<x, y, z>>}
  <2>1. SubSeq(<<x, y, z>>, 1, 1) \in Seq({x, y, z}) /\ Len(SubSeq(<<x, y, z>>, 1, 1)) = 1
        /\ SubSeq(<<x, y, z>>, 1, 1)[1] = x
    BY SubSeqProperties
  <2>2. SubSeq(<<x, y, z>>, 1, 1) = <<x>>
    BY <2>1, OnlyOne
  <2>3. <<x, y, z>> \in Seq({x, y, z}) /\ Len(<<x, y, z>>) = 3
    OBVIOUS
  <2>4. SubSeq(<<x, y, z>>, 1, 3) = <<x, y, z>>
    BY <2>3, SubSeqFull
  <2>5. 1..Len(<<x, y, z>>) = {1, 2, 3}
    OBVIOUS
  <2> QED
    BY <2>2, <2>4, <2>5, FrontThree
<1>3. \A id : OnTheWay(Kind(id)) = {Providers, Provider(id), Kind(id)}
  BY <1>2 DEF OnTheWay, Kind, Provider, Providers
<1>4. \A name : OnTheWay(Model(name)) = {Models, Model(name)}
  BY <1>1 DEF OnTheWay, Model, Models
<1> QED
  BY <1>3, <1>4

\* What is said of a path, last.
LEMMA LatestOf ==
  ASSUME NEW events \in Seq(Events), NEW path, Saying(path, events) # {}
  PROVE  Latest(path, events) \in Settings
<1>1. Len(events) \in Nat /\ DOMAIN events = 1..Len(events) /\ \A k \in 1..Len(events) : events[k] \in Events
  BY LenProperties
<1>2. Saying(path, events) \subseteq 1..Len(events)
  BY <1>1 DEF Saying
<1>3. \E k \in Saying(path, events) : \A j \in Saying(path, events) : j <= k
  BY <1>1, <1>2, LastOf
<1> QED
  BY <1>1, <1>2, <1>3 DEF Latest, Events

\* What is entered by events: the ways to what they say.
LEMMA EnteredBy ==
  ASSUME NEW events \in Seq(Events)
  PROVE  /\ Entered(events) \subseteq Nodes
         /\ \A path : Saying(path, events) # {} => path \in Paths
         /\ \A path \in Paths : path \in Entered(events) <=> Saying(path, events) # {}
         /\ \A id \in Ids : Provider(id) \in Entered(events) <=> Saying(Kind(id), events) # {}
         /\ \A id \in Ids : Provider(id) \in Entered(events) => Providers \in Entered(events)
         /\ \A name \in ModelNames : Model(name) \in Entered(events) => Models \in Entered(events)
<1>1. Len(events) \in Nat /\ DOMAIN events = 1..Len(events) /\ \A k \in 1..Len(events) : events[k].path \in Paths
  <2>1. Len(events) \in Nat /\ DOMAIN events = 1..Len(events) /\ \A k \in 1..Len(events) : events[k] \in Events
    BY LenProperties
  <2> QED
    BY <2>1 DEF Events
<1>2. \A k \in DOMAIN events : \/ \E id \in Ids : events[k].path = Kind(id)
                               \/ \E name \in ModelNames : events[k].path = Model(name)
  BY <1>1 DEF Paths
<1>3. \A path : Saying(path, events) # {} <=> \E k \in DOMAIN events : events[k].path = path
  BY DEF Saying
<1>4. \A node : node \in Entered(events) <=> \E k \in DOMAIN events : node \in OnTheWay(events[k].path)
  BY DEF Entered
<1>5. \A node : node \in Entered(events) <=>
        \/ \E id \in Ids : Saying(Kind(id), events) # {} /\ node \in {Providers, Provider(id), Kind(id)}
        \/ \E name \in ModelNames : Saying(Model(name), events) # {} /\ node \in {Models, Model(name)}
  <2>1. ASSUME NEW node, node \in Entered(events)
        PROVE  \/ \E id \in Ids : Saying(Kind(id), events) # {} /\ node \in {Providers, Provider(id), Kind(id)}
               \/ \E name \in ModelNames : Saying(Model(name), events) # {} /\ node \in {Models, Model(name)}
    <3>1. PICK k \in DOMAIN events : node \in OnTheWay(events[k].path)
      BY <1>4, <2>1
    <3>2. CASE \E id \in Ids : events[k].path = Kind(id)
      BY <1>3, <3>1, <3>2, Ways, Zenon
    <3>3. CASE \E name \in ModelNames : events[k].path = Model(name)
      BY <1>3, <3>1, <3>3, Ways, Zenon
    <3> QED
      BY <1>2, <3>2, <3>3
  <2>2. ASSUME NEW node, NEW id \in Ids, Saying(Kind(id), events) # {}, node \in {Providers, Provider(id), Kind(id)}
        PROVE  node \in Entered(events)
    BY <1>3, <1>4, <2>2, Ways, Zenon
  <2>3. ASSUME NEW node, NEW name \in ModelNames, Saying(Model(name), events) # {}, node \in {Models, Model(name)}
        PROVE  node \in Entered(events)
    BY <1>3, <1>4, <2>3, Ways, Zenon
  <2> QED
    BY <2>1, <2>2, <2>3, Zenon
<1>6. Entered(events) \subseteq Nodes
  BY <1>5 DEF Nodes, Paths
<1>7. \A path : Saying(path, events) # {} => path \in Paths
  BY <1>1, <1>3
<1>8. \A id \in Ids : Kind(id) \in Entered(events) <=> Saying(Kind(id), events) # {}
  BY <1>5, Apart
<1>9. \A name \in ModelNames : Model(name) \in Entered(events) <=> Saying(Model(name), events) # {}
  BY <1>5, Apart
<1>10. \A id \in Ids : Provider(id) \in Entered(events) <=> Saying(Kind(id), events) # {}
  BY <1>5, Apart
<1>11. \A path \in Paths : path \in Entered(events) <=> Saying(path, events) # {}
  BY <1>8, <1>9 DEF Paths
<1>12. \A id \in Ids : Provider(id) \in Entered(events) => Providers \in Entered(events)
  BY <1>5, <1>10
<1>13. \A name \in ModelNames : Model(name) \in Entered(events) => Models \in Entered(events)
  BY <1>5, <1>9
<1> QED
  BY <1>6, <1>7, <1>10, <1>11, <1>12, <1>13

\* The layers are the first numbers.
LEMMA LayersFacts == Session \in Nat /\ Layers = 1..Session /\ Session \in Layers
<1>1. Len(Found) \in Nat
  BY ConfigAssumption, LenProperties
<1> QED
  BY <1>1 DEF Session, Layers

\* A node has no value if no layer says anything.
LEMMA ValueOf ==
  ASSUME NEW slots
  PROVE  /\ Value(slots) = Null <=> \A l \in Layers : slots[l] = Null
         /\ slots \in [Layers -> Settings] => Value(slots) \in Settings
<1> DEFINE set == {l \in Layers : slots[l] # Null}
<1>1. CASE set = {}
  <2>1. Value(slots) = Null
    BY <1>1 DEF Value
  <2>2. Null \in Settings
    BY DEF Null, Settings, Bad
  <2> QED
    BY <1>1, <2>1, <2>2
<1>2. CASE set # {}
  <2>1. \E l \in set : \A k \in set : k <= l
    BY <1>2, LayersFacts, LastOf
  <2>2. PICK l \in set : Value(slots) = slots[l]
    BY <1>2, <2>1 DEF Value
  <2> QED
    BY <2>2
<1> QED
  BY <1>1, <1>2

\* The nodes below a node.
LEMMA ChildrenOf ==
  ASSUME NEW X, X \subseteq Nodes
  PROVE  /\ \A path \in Paths : Children(path, X) = {}
         /\ \A id : Children(Provider(id), X) \subseteq {Kind(id)}
         /\ \A id : Kind(id) \in X => Kind(id) \in Children(Provider(id), X)
         /\ \A id : Provider(id) \in X => Provider(id) \in Children(Providers, X)
         /\ \A name : Model(name) \in X => Model(name) \in Children(Models, X)
<1>1. ASSUME NEW node, NEW child \in X, Front(child) = node
      PROVE  \/ node = <<>>
             \/ \E id \in Ids : child = Provider(id) /\ node = Providers
             \/ \E id \in Ids : child = Kind(id) /\ node = Provider(id)
             \/ \E name \in ModelNames : child = Model(name) /\ node = Models
  BY <1>1, Above DEF Nodes, Paths
<1>2. \A path \in Paths : \/ \E id \in Ids : path = Kind(id)
                          \/ \E name \in ModelNames : path = Model(name)
  BY DEF Paths
<1>3. ASSUME NEW path \in Paths, NEW child \in X, Front(child) = path PROVE FALSE
  BY <1>1, <1>2, <1>3, Apart
<1>4. ASSUME NEW id, NEW child \in X, Front(child) = Provider(id) PROVE child = Kind(id)
  BY <1>1, <1>4, Apart
<1> QED
  BY <1>3, <1>4, Above DEF Children

\* The nodes that stay, of those entered.
LEMMA SurvivingAre ==
  ASSUME NEW nodes, NEW layer \in Layers, NEW events \in Seq(Events), DOMAIN nodes \subseteq Nodes
  PROVE  LET kept == Surviving(nodes, layer, events)
             value(node) == Value(SlotsAfter(nodes, node, layer, events))
         IN  /\ kept \subseteq Entered(events)
             /\ \A path \in Paths : path \in kept <=> Saying(path, events) # {} /\ value(path) # Null
             /\ \A id \in Ids : Kind(id) \in kept => Provider(id) \in kept
             /\ \A id \in Ids : Provider(id) \in kept => Providers \in kept
             /\ \A name \in ModelNames : Model(name) \in kept => Models \in kept
             /\ Providers \in Entered(events) => \A id \in Ids :
                  Provider(id) \in DOMAIN nodes \ Entered(events) => Providers \in kept
             /\ Models \in Entered(events) => \A name \in ModelNames :
                  Model(name) \in DOMAIN nodes \ Entered(events) => Models \in kept
<1> DEFINE In == Entered(events)
           Staying(n, kept) == {node \in In : Len(node) = n /\ Stays(nodes, node, layer, events, kept)}
           third == Staying(3, {})
           second == Staying(2, third)
           first == Staying(1, second)
           value(node) == Value(SlotsAfter(nodes, node, layer, events))
<1>0. \A node, n, kept : node \in Staying(n, kept) <=> /\ node \in In /\ Len(node) = n
                                                        /\ Stays(nodes, node, layer, events, kept)
  OBVIOUS
<1>1. Surviving(nodes, layer, events) = third \union second \union first
  BY DEF Surviving
<1>3rd. \A node : node \in third <=> node \in In /\ Len(node) = 3 /\ Stays(nodes, node, layer, events, {})
  BY <1>0
<1>2nd. \A node : node \in second <=> node \in In /\ Len(node) = 2 /\ Stays(nodes, node, layer, events, third)
  BY <1>0
<1>1st. \A node : node \in first <=> node \in In /\ Len(node) = 1 /\ Stays(nodes, node, layer, events, second)
  BY <1>0
<1> HIDE DEF Staying, third, second, first
<1>all. \A node \in third \union second \union first :
         /\ node \in In /\ (Len(node) = 3 => node \in third) /\ (Len(node) = 2 => node \in second)
  <2>1. \A node \in third : node \in In /\ Len(node) = 3
    BY <1>3rd
  <2>2. \A node \in second : node \in In /\ Len(node) = 2
    BY <1>2nd
  <2>3. \A node \in first : node \in In /\ Len(node) = 1
    BY <1>1st
  <2> QED
    BY <2>1, <2>2, <2>3
<1>2. In \subseteq Nodes /\ \A path : Saying(path, events) # {} => path \in Paths
  BY EnteredBy
<1>3. ASSUME NEW node, NEW kept
      PROVE  Stays(nodes, node, layer, events, kept) <=>
               ~ /\ Saying(node, events) # {} \/ Children(node, In) \intersect (DOMAIN nodes \union kept) # {}
                 /\ value(node) = Null
                 /\ Children(node, In) \intersect kept = {} /\ Children(node, DOMAIN nodes) \subseteq Children(node, In)
  BY DEF Stays
<1>4. ASSUME NEW path \in Paths, Saying(path, events) # {}, NEW kept
      PROVE  Stays(nodes, path, layer, events, kept) <=> value(path) # Null
  <2>1. Children(path, In) = {} /\ Children(path, DOMAIN nodes) = {}
    BY <1>2, ChildrenOf
  <2> QED
    BY <1>3, <1>4, <2>1
<1>5. ASSUME NEW node, NEW kept, NEW child \in kept, child \in Children(node, In)
      PROVE  Stays(nodes, node, layer, events, kept)
  BY <1>3, <1>5
<1>6. ASSUME NEW node, NEW kept, NEW child \in DOMAIN nodes \ In, child \in Children(node, DOMAIN nodes)
      PROVE  Stays(nodes, node, layer, events, kept)
  <2>1. child \notin Children(node, In)
    BY DEF Children
  <2> QED
    BY <1>3, <1>6, <2>1
<1>7. \A path \in Paths : path \in In <=> Saying(path, events) # {}
  BY EnteredBy
<1> HIDE DEF value
<1>8. ASSUME NEW path \in Paths
      PROVE  path \in third \union second \union first <=> Saying(path, events) # {} /\ value(path) # Null
  <2>1. Len(path) \in {2, 3}
    BY Apart DEF Paths
  <2> QED
    BY <1>3rd, <1>2nd, <1>1st, <1>4, <1>7, <2>1
<1>9. ASSUME NEW id \in Ids, Kind(id) \in third \union second \union first PROVE Provider(id) \in second
  <2>0. Len(Kind(id)) = 3
    BY Apart
  <2>1. Kind(id) \in third /\ Kind(id) \in In
    BY <1>all, <1>9, <2>0, Zenon
  <2>2. Saying(Kind(id), events) # {} /\ Provider(id) \in In
    <3>1. Kind(id) \in Paths
      BY DEF Paths
    <3> QED
      BY <2>1, <3>1, EnteredBy
  <2>3. Kind(id) \in Children(Provider(id), In)
    BY <1>2, <2>1, ChildrenOf
  <2>4. Stays(nodes, Provider(id), layer, events, third)
    BY <1>5, <2>1, <2>3
  <2> QED
    BY <1>3rd, <1>2nd, <1>1st, <2>2, <2>4, Apart
<1>10. ASSUME NEW id \in Ids, Provider(id) \in third \union second \union first PROVE Providers \in first
  <2>0. Len(Provider(id)) = 2
    BY Apart
  <2>1. Provider(id) \in second /\ Provider(id) \in In
    BY <1>all, <1>10, <2>0, Zenon
  <2>2. Provider(id) \in Children(Providers, In)
    BY <1>2, <2>1, ChildrenOf
  <2>3. Stays(nodes, Providers, layer, events, second)
    BY <1>5, <2>1, <2>2
  <2>4. Providers \in In
    BY <2>1, EnteredBy
  <2> QED
    BY <1>3rd, <1>2nd, <1>1st, <2>3, <2>4, Apart
<1>11. ASSUME NEW name \in ModelNames, Model(name) \in third \union second \union first PROVE Models \in first
  <2>0. Len(Model(name)) = 2
    BY Apart
  <2>1. Model(name) \in second /\ Model(name) \in In
    BY <1>all, <1>11, <2>0, Zenon
  <2>2. Model(name) \in Children(Models, In)
    BY <1>2, <2>1, ChildrenOf
  <2>3. Stays(nodes, Models, layer, events, second)
    BY <1>5, <2>1, <2>2
  <2>4. Models \in In
    BY <2>1, EnteredBy
  <2> QED
    BY <1>3rd, <1>2nd, <1>1st, <2>3, <2>4, Apart
<1>12. ASSUME Providers \in In, NEW id \in Ids, Provider(id) \in DOMAIN nodes \ In PROVE Providers \in first
  <2>1. Provider(id) \in Children(Providers, DOMAIN nodes)
    BY <1>12, ChildrenOf
  <2>2. Stays(nodes, Providers, layer, events, second)
    BY <1>6, <1>12, <2>1
  <2> QED
    BY <1>3rd, <1>2nd, <1>1st, <1>12, <2>2, Apart
<1>13. ASSUME Models \in In, NEW name \in ModelNames, Model(name) \in DOMAIN nodes \ In PROVE Models \in first
  <2>1. Model(name) \in Children(Models, DOMAIN nodes)
    BY <1>13, ChildrenOf
  <2>2. Stays(nodes, Models, layer, events, second)
    BY <1>6, <1>13, <2>1
  <2> QED
    BY <1>3rd, <1>2nd, <1>1st, <1>13, <2>2, Apart
<1>14. third \union second \union first \subseteq In
  BY <1>3rd, <1>2nd, <1>1st
<1> HIDE DEF In
<1>15. Surviving(nodes, layer, events) = third \union second \union first
  BY <1>1
<1> QED
  BY <1>8, <1>9, <1>10, <1>11, <1>12, <1>13, <1>14, <1>15 DEF In, value

\* A batch leaves a tree that says what is said.
LEMMA TreeApplied ==
  ASSUME TreeInv, NEW batch \in [layer : Layers, events : Seq(Events)],
         tree' = AppliedBatch(tree, batch), said' = Heard(said, batch)
  PROVE  TreeInv'
<1> DEFINE events == batch.events
           layer == batch.layer
           In == Entered(events)
           kept == Surviving(tree, layer, events)
           after(node) == SlotsAfter(tree, node, layer, events)
<1>1. events \in Seq(Events) /\ layer \in Layers
  OBVIOUS
<1>2. /\ DOMAIN tree \subseteq Nodes /\ \A node \in DOMAIN tree : tree[node] \in [Layers -> Settings]
      /\ said \in [Layers -> [Paths -> Settings]]
      /\ \A l \in Layers : \A p \in Paths : said[l][p] = IF p \in DOMAIN tree THEN tree[p][l] ELSE Null
      /\ \A node \in DOMAIN tree : Value(tree[node]) # Null <=> node \in Paths
      /\ \A id \in Ids : (Kind(id) \in DOMAIN tree => Provider(id) \in DOMAIN tree)
                         /\ (Provider(id) \in DOMAIN tree => Providers \in DOMAIN tree)
      /\ \A name \in ModelNames : Model(name) \in DOMAIN tree => Models \in DOMAIN tree
  BY DEF TreeInv
<1>3. DOMAIN tree' = (DOMAIN tree \ In) \union kept /\ \A node \in DOMAIN tree' : tree'[node] = after(node)
  BY DEF AppliedBatch
<1>4. tree' \in [DOMAIN tree' -> {after(node) : node \in DOMAIN tree'}]
  BY DEF AppliedBatch
<1>5. /\ In \subseteq Nodes /\ \A path : Saying(path, events) # {} => path \in Paths
      /\ \A path \in Paths : path \in In <=> Saying(path, events) # {}
      /\ \A id \in Ids : Provider(id) \in In <=> Saying(Kind(id), events) # {}
      /\ \A id \in Ids : Provider(id) \in In => Providers \in In
      /\ \A name \in ModelNames : Model(name) \in In => Models \in In
  BY <1>1, EnteredBy
<1>6. /\ kept \subseteq In
      /\ \A path \in Paths : path \in kept <=> Saying(path, events) # {} /\ Value(after(path)) # Null
      /\ \A id \in Ids : Kind(id) \in kept => Provider(id) \in kept
      /\ \A id \in Ids : Provider(id) \in kept => Providers \in kept
      /\ \A name \in ModelNames : Model(name) \in kept => Models \in kept
      /\ Providers \in In => \A id \in Ids : Provider(id) \in DOMAIN tree \ In => Providers \in kept
      /\ Models \in In => \A name \in ModelNames : Model(name) \in DOMAIN tree \ In => Models \in kept
  BY <1>1, <1>2, SurvivingAre
<1>7. ASSUME NEW node
      PROVE  /\ after(node) \in [Layers -> Settings]
             /\ Saying(node, events) # {} => after(node)[layer] = Latest(node, events)
             /\ \A l \in Layers : l # layer \/ Saying(node, events) = {} =>
                  /\ node \in DOMAIN tree => after(node)[l] = tree[node][l]
                  /\ node \notin DOMAIN tree => after(node)[l] = Null
  <2> DEFINE old == IF node \in DOMAIN tree THEN tree[node] ELSE NoSlots
  <2>1. NoSlots \in [Layers -> Settings] /\ \A l \in Layers : NoSlots[l] = Null
    BY DEF NoSlots, Null, Settings, Bad
  <2>2. /\ old \in [Layers -> Settings]
        /\ node \in DOMAIN tree => old = tree[node]
        /\ node \notin DOMAIN tree => \A l \in Layers : old[l] = Null
    BY <1>2, <2>1
  <2>3. after(node) = IF Saying(node, events) = {} THEN old ELSE [old EXCEPT ![layer] = Latest(node, events)]
    BY DEF SlotsAfter
  <2> HIDE DEF old, after, events, layer
  <2>4. CASE Saying(node, events) = {}
    BY <2>2, <2>3, <2>4
  <2>5. CASE Saying(node, events) # {}
    <3>1. Latest(node, events) \in Settings
      BY <1>1, <2>5, LatestOf
    <3> QED
      BY <1>1, <2>2, <2>3, <2>5, <3>1
  <2> QED
    BY <2>4, <2>5
<1>8. \A l \in Layers : \A p \in Paths :
        said'[l][p] = IF l = layer /\ Saying(p, events) # {} THEN Latest(p, events) ELSE said[l][p]
  BY <1>1, <1>2 DEF Heard
<1>9. \A p \in Paths : Saying(p, events) # {} => Latest(p, events) \in Settings
  BY <1>1, LatestOf
<1>10. said' \in [Layers -> [Paths -> Settings]]
  <2>1. [p \in Paths |-> IF Saying(p, events) = {} THEN said[layer][p] ELSE Latest(p, events)] \in [Paths -> Settings]
    BY <1>1, <1>2, <1>9
  <2> QED
    BY <1>1, <1>2, <2>1 DEF Heard
<1> HIDE DEF after, kept, In, events, layer
<1>11. \A l \in Layers : \A p \in Paths : said'[l][p] = after(p)[l]
  BY <1>2, <1>7, <1>8
<1>12. ASSUME NEW p \in Paths, p \notin DOMAIN tree' PROVE \A l \in Layers : said'[l][p] = Null
  <2>1. CASE Saying(p, events) # {}
    <3>1. Value(after(p)) = Null
      BY <1>3, <1>6, <1>12, <2>1
    <3> QED
      BY <1>11, <3>1, ValueOf
  <2>2. CASE Saying(p, events) = {}
    <3>1. p \notin DOMAIN tree
      BY <1>3, <1>5, <1>12, <2>2
    <3> QED
      BY <1>2, <1>8, <2>2, <3>1
  <2> QED
    BY <2>1, <2>2
<1>13. ASSUME NEW node \in DOMAIN tree' PROVE Value(tree'[node]) # Null <=> node \in Paths
  <2>1. CASE node \in Paths
    <3>1. CASE Saying(node, events) # {}
      BY <1>3, <1>5, <1>6, <2>1, <3>1
    <3>2. CASE Saying(node, events) = {}
      <4>1. node \in DOMAIN tree
        BY <1>3, <1>5, <1>6, <2>1, <3>2
      <4>2. \E l \in Layers : tree[node][l] # Null
        BY <1>2, <2>1, <4>1, ValueOf
      <4>3. \E l \in Layers : after(node)[l] # Null
        BY <1>7, <3>2, <4>1, <4>2
      <4> QED
        BY <1>3, <2>1, <4>3, ValueOf
    <3> QED
      BY <3>1, <3>2
  <2>2. CASE node \notin Paths
    <3>1. Saying(node, events) = {}
      BY <1>5, <2>2
    <3>2. node \in DOMAIN tree => \A l \in Layers : tree[node][l] = Null
      BY <1>2, <2>2, ValueOf
    <3>3. \A l \in Layers : after(node)[l] = Null
      BY <1>7, <3>1, <3>2
    <3> QED
      BY <1>3, <2>2, <3>3, ValueOf
  <2> QED
    BY <2>1, <2>2
<1>14. ASSUME NEW id \in Ids
       PROVE  /\ Kind(id) \in DOMAIN tree' => Provider(id) \in DOMAIN tree'
              /\ Provider(id) \in DOMAIN tree' => Providers \in DOMAIN tree'
  <2>1. Kind(id) \in Paths
    BY DEF Paths
  <2> QED
    BY <1>2, <1>3, <1>5, <1>6, <2>1
<1>15. ASSUME NEW name \in ModelNames, Model(name) \in DOMAIN tree' PROVE Models \in DOMAIN tree'
  BY <1>2, <1>3, <1>5, <1>6, <1>15
<1>16. DOMAIN tree' \subseteq Nodes
  BY <1>2, <1>3, <1>5, <1>6
<1>17. tree' \in [DOMAIN tree' -> [Layers -> Settings]]
  BY <1>4, <1>7
<1>18. \A l \in Layers : \A p \in Paths : said'[l][p] = IF p \in DOMAIN tree' THEN tree'[p][l] ELSE Null
  BY <1>3, <1>11, <1>12
<1> QED
  BY <1>10, <1>13, <1>14, <1>15, <1>16, <1>17, <1>18 DEF TreeInv

\* What the layers say of a path is the value of its node.
LEMMA TopIs ==
  ASSUME TreeInv, NEW p \in Paths
  PROVE  /\ Top(p) = IF p \in DOMAIN tree THEN Value(tree[p]) ELSE Null
         /\ Top(p) # Null <=> p \in DOMAIN tree
         /\ SaidLeaf(p) = DecodedLeaf(tree, p)
<1>1. \A l \in Layers : said[l][p] = IF p \in DOMAIN tree THEN tree[p][l] ELSE Null
  BY DEF TreeInv
<1>2. p \in DOMAIN tree => Value(tree[p]) # Null
  BY DEF TreeInv
<1>3. Top(p) = IF p \in DOMAIN tree THEN Value(tree[p]) ELSE Null
  <2>1. CASE p \in DOMAIN tree
    <3> DEFINE set == {l \in Layers : said[l][p] # Null}
               found == {l \in Layers : tree[p][l] # Null}
    <3>0. Value(tree[p]) = IF found = {} THEN Null ELSE tree[p][CHOOSE l \in found : \A k \in found : k <= l]
      BY DEF Value
    <3>1. set = found
      BY <1>1, <2>1
    <3> HIDE DEF found
    <3>2. Value(tree[p]) = IF set = {} THEN Null ELSE tree[p][CHOOSE l \in set : \A k \in set : k <= l]
      <4> HIDE DEF set
      <4> QED
        BY <3>0, <3>1
    <3>3. set # {} => (CHOOSE l \in set : \A k \in set : k <= l) \in set
      <4>1. set # {} => \E l \in set : \A k \in set : k <= l
        BY LayersFacts, LastOf
      <4> QED
        BY <4>1
    <3>4. Top(p) = IF set = {} THEN Null ELSE said[CHOOSE l \in set : \A k \in set : k <= l][p]
      BY DEF Top
    <3> HIDE DEF set
    <3>5. set \subseteq Layers
      BY DEF set
    <3> QED
      BY <1>1, <2>1, <3>2, <3>3, <3>4, <3>5
  <2>2. CASE p \notin DOMAIN tree
    <3>1. {l \in Layers : said[l][p] # Null} = {}
      BY <1>1, <2>2
    <3> QED
      BY <2>2, <3>1 DEF Top
  <2> QED
    BY <2>1, <2>2
<1>4. SaidLeaf(p) = DecodedLeaf(tree, p)
  BY <1>3 DEF SaidLeaf, DecodedLeaf
<1> QED
  BY <1>2, <1>3, <1>4

\* The names listed below the two nodes that have children with names.
LEMMA ListedAre ==
  ASSUME TreeInv
  PROVE  /\ Listed(tree, Models) = {name \in ModelNames : Model(name) \in DOMAIN tree}
         /\ Listed(tree, Providers) = {id \in Ids : Provider(id) \in DOMAIN tree}
<1>1. DOMAIN tree \subseteq Nodes
  BY DEF TreeInv
<1>2. ASSUME NEW child \in DOMAIN tree
      PROVE  /\ Front(child) = Models => \E name \in ModelNames : child = Model(name)
             /\ Front(child) = Providers => \E id \in Ids : child = Provider(id)
  <2>1. \/ child = Providers \/ child = Models
        \/ \E id \in Ids : child = Provider(id)
        \/ \E id \in Ids : child = Kind(id)
        \/ \E name \in ModelNames : child = Model(name)
    BY <1>1 DEF Nodes, Paths
  <2> QED
    BY <2>1, Above, Apart
<1>3. \A name : Front(Model(name)) = Models /\ Last(Model(name)) = name
  BY Above
<1>4. \A id : Front(Provider(id)) = Providers /\ Last(Provider(id)) = id
  BY Above
<1>5. Listed(tree, Models) = {name \in ModelNames : Model(name) \in DOMAIN tree}
  <2>1. ASSUME NEW x \in Listed(tree, Models) PROVE x \in ModelNames /\ Model(x) \in DOMAIN tree
    <3>1. PICK child \in DOMAIN tree : Front(child) = Models /\ x = Last(child)
      BY DEF Listed, Children
    <3> QED
      BY <1>2, <1>3, <3>1
  <2>2. ASSUME NEW x \in ModelNames, Model(x) \in DOMAIN tree PROVE x \in Listed(tree, Models)
    BY <1>3, <2>2 DEF Listed, Children
  <2> QED
    BY <2>1, <2>2
<1>6. Listed(tree, Providers) = {id \in Ids : Provider(id) \in DOMAIN tree}
  <2>1. ASSUME NEW x \in Listed(tree, Providers) PROVE x \in Ids /\ Provider(x) \in DOMAIN tree
    <3>1. PICK child \in DOMAIN tree : Front(child) = Providers /\ x = Last(child)
      BY DEF Listed, Children
    <3> QED
      BY <1>2, <1>4, <3>1
  <2>2. ASSUME NEW x \in Ids, Provider(x) \in DOMAIN tree PROVE x \in Listed(tree, Providers)
    BY <1>4, <2>2 DEF Listed, Children
  <2> QED
    BY <2>1, <2>2
<1> QED
  BY <1>5, <1>6

\* What a binding decodes is what the layers say.
LEMMA DecodesSaid ==
  ASSUME TreeInv, NEW b \in Bindings
  PROVE  IsSaid(b, Decode(tree, b)) /\ (b = "default" => Decode(tree, b) = SaidLeaf(Model("default")))
<1>1. /\ Bindings = {"keys", "entry", "models", "default"} /\ BindingPath["keys"] = Providers
      /\ BindingPath["entry"] = Provider("a") /\ BindingPath["models"] = Models
      /\ BindingPath["default"] = Model("default")
  BY DEF Bindings, BindingPath
<1>2. Kind("a") \in Paths /\ Model("default") \in Paths /\ "a" \in Ids /\ "default" \in ModelNames
  BY ConfigAssumption DEF Paths
<1>3. CASE b = "keys"
  <2>1. ASSUME NEW id \in Ids, Top(Kind(id)) # Null
        PROVE  Providers \in DOMAIN tree /\ id \in Listed(tree, Providers)
    <3>1. Kind(id) \in DOMAIN tree
      <4>1. Kind(id) \in Paths
        BY DEF Paths
      <4> QED
        BY <2>1, <4>1, TopIs
    <3>2. Provider(id) \in DOMAIN tree /\ Providers \in DOMAIN tree
      BY <3>1 DEF TreeInv
    <3> QED
      BY <3>2, ListedAre
  <2>2. CASE Providers \in DOMAIN tree
    <3>1. Decode(tree, b) = <<Listed(tree, Providers)>>
      BY <1>1, <1>3, <2>2 DEF Decode
    <3>2. Decode(tree, b) # Absent /\ Decode(tree, b)[1] = Listed(tree, Providers)
      BY <3>1 DEF Absent
    <3> QED
      BY <1>3, <2>1, <3>2 DEF IsSaid
  <2>3. CASE Providers \notin DOMAIN tree
    <3>1. Decode(tree, b) = Absent
      BY <1>1, <1>3, <2>3 DEF Decode
    <3> QED
      BY <1>3, <2>1, <2>3, <3>1 DEF IsSaid
  <2> QED
    BY <1>3, <2>2, <2>3
<1>4. CASE b = "entry"
  <2>1. Decode(tree, b) = DecodedLeaf(tree, Kind("a"))
    <3>1. CASE Provider("a") \in DOMAIN tree
      BY <1>1, <1>4, <3>1 DEF Decode
    <3>2. CASE Provider("a") \notin DOMAIN tree
      <4>1. Kind("a") \notin DOMAIN tree
        BY <1>2, <3>2 DEF TreeInv
      <4> QED
        BY <1>1, <1>4, <3>2, <4>1 DEF Decode, DecodedLeaf
    <3> QED
      BY <3>1, <3>2
  <2>2. Decode(tree, b) = SaidLeaf(Kind("a"))
    BY <1>2, <2>1, TopIs
  <2> QED
    BY <1>4, <2>2 DEF IsSaid
<1>5. CASE b = "default"
  <2>1. Decode(tree, b) = DecodedLeaf(tree, Model("default"))
    <3>1. CASE Model("default") \in DOMAIN tree
      BY <1>1, <1>5, <3>1 DEF Decode
    <3>2. CASE Model("default") \notin DOMAIN tree
      BY <1>1, <1>5, <3>2 DEF Decode, DecodedLeaf
    <3> QED
      BY <3>1, <3>2
  <2>2. Decode(tree, b) = SaidLeaf(Model("default"))
    BY <1>2, <2>1, TopIs
  <2> QED
    BY <1>5, <2>2 DEF IsSaid
<1>6. CASE b = "models"
  <2> DEFINE all == [name \in {n \in ModelNames : Top(Model(n)) # Null} |-> SaidLeaf(Model(name))]
  <2>1. SaidModels = IF \E name \in DOMAIN all : all[name] = Absent THEN {Absent}
                     ELSE IF DOMAIN all = {} THEN {Absent, <<all>>} ELSE {<<all>>}
    BY DEF SaidModels
  <2>2. \A n \in ModelNames : Model(n) \in Paths
    BY DEF Paths
  <2>3. {n \in ModelNames : Top(Model(n)) # Null} = Listed(tree, Models)
    BY <2>2, TopIs, ListedAre
  <2>4. all = [name \in Listed(tree, Models) |-> DecodedLeaf(tree, Model(name))]
    <3>1. \A name \in ModelNames : SaidLeaf(Model(name)) = DecodedLeaf(tree, Model(name))
      BY <2>2, TopIs
    <3> QED
      BY <2>3, <3>1, ListedAre
  <2>5. CASE Models \in DOMAIN tree
    <3>1. Decode(tree, b) = DecodedModels(tree)
      BY <1>1, <1>6, <2>5 DEF Decode
    <3>2. DecodedModels(tree) = IF \E name \in DOMAIN all : all[name] = Absent THEN Absent ELSE <<all>>
      BY <2>4 DEF DecodedModels
    <3>3. DecodedModels(tree) \in SaidModels
      BY <2>1, <3>2
    <3> QED
      BY <1>6, <3>1, <3>3 DEF IsSaid
  <2>6. CASE Models \notin DOMAIN tree
    <3>1. DOMAIN all = {}
      <4>1. \A name \in ModelNames : Model(name) \notin DOMAIN tree
        BY <2>6 DEF TreeInv
      <4> QED
        BY <2>3, <4>1, ListedAre
    <3>2. Decode(tree, b) = Absent
      BY <1>1, <1>6, <2>6 DEF Decode
    <3>3. Absent \in SaidModels
      BY <2>1, <3>1
    <3> QED
      BY <1>6, <3>2, <3>3 DEF IsSaid
  <2> QED
    BY <2>5, <2>6
<1> QED
  BY <1>1, <1>3, <1>4, <1>5, <1>6

\* The elements of a finite set in some order.
LEMMA SetToSeqType == ASSUME NEW S, IsFiniteSet(S) PROVE SetToSeq(S) \in Seq(S)
<1>1. Cardinality(S) \in Nat /\ ExistsBijection(1..Cardinality(S), S)
  BY FS_CardinalityType
<1>2. PICK f \in Bijection(1..Cardinality(S), S) : TRUE
  BY <1>1 DEF ExistsBijection
<1>3. f \in [1..Cardinality(S) -> S] /\ IsInjective(f)
  BY <1>2 DEF Bijection, Injection, IsInjective
<1>4. SetToSeq(S) \in [1..Cardinality(S) -> S]
  BY <1>3 DEF SetToSeq
<1> QED
  BY <1>1, <1>4

\* There are finitely many paths.
LEMMA PathsFinite == IsFiniteSet(Paths)
<1> DEFINE Kinds_ == {Kind(id) : id \in Ids}
           Models_ == {Model(name) : name \in ModelNames}
<1>1. IsFiniteSet(Kinds_)
  <2> DEFINE f == [id \in Ids |-> Kind(id)]
  <2>1. f \in Surjection(Ids, Kinds_)
    BY DEF Surjection
  <2> QED
    BY <2>1, ConfigAssumption, FS_Surjection
<1>2. IsFiniteSet(Models_)
  <2> DEFINE f == [name \in ModelNames |-> Model(name)]
  <2>1. f \in Surjection(ModelNames, Models_)
    BY DEF Surjection
  <2> QED
    BY <2>1, ConfigAssumption, FS_Surjection
<1> QED
  BY <1>1, <1>2, FS_Union DEF Paths

\* The table and batches of events that are read and written.
LEMMA RowEventsType == ASSUME QueueInv PROVE RowEvents \in Seq(Events)
<1> DEFINE S == {p \in Paths : table[p] \notin {Null, Malformed}}
           good == SetToSeq(S)
<1>1. good \in Seq(S)
  BY PathsFinite, FS_Subset, SetToSeqType
<1>2. Len(good) \in Nat /\ DOMAIN good = 1..Len(good) /\ \A k \in 1..Len(good) : good[k] \in S
  BY <1>1, LenProperties
<1>3. RowEvents = [k \in DOMAIN good |-> Event(good[k], table[good[k]])]
  BY DEF RowEvents
<1>4. \A p \in S : Event(p, table[p]) \in Events
  BY DEF QueueInv, Event, Events
<1> HIDE DEF good, S
<1>5. \A k \in 1..Len(good) : Event(good[k], table[good[k]]) \in Events
  BY <1>2, <1>4
<1> QED
  BY <1>2, <1>3, <1>5

\* Rows that are written are well formed.
LEMMA WrittenType ==
  ASSUME QueueInv, NEW events \in Seq(Events)
  PROVE  Written(events) \in [Paths -> Settings \cup {Malformed}]
<1>1. \A p \in Paths : Saying(p, events) # {} => Latest(p, events) \in Settings
  BY LatestOf
<1> QED
  BY <1>1 DEF Written, QueueInv

\* Nothing has been sent.
LEMMA QueueInit == ConfigInit => QueueInv
<1> SUFFICES ASSUME ConfigInit PROVE QueueInv
  OBVIOUS
<1>1. table \in [Paths -> Settings \cup {Malformed}]
  BY ConfigAssumption DEF ConfigInit
<1>2. channel \in Seq([layer : Layers, events : Seq(Events)]) /\ <<>> \in Seq(Events)
  BY EmptySeq DEF ConfigInit
<1>3. building \in 1..(Session + 2)
  BY LayersFacts DEF ConfigInit
<1> QED
  BY <1>1, <1>2, <1>3 DEF QueueInv, ConfigInit

\* What is written, sent and built stays well formed.
LEMMA QueueStep ==
  QueueInv /\ (ConfigNext \/ UNCHANGED <<table, channel, building, writers>>) => QueueInv'
<1> SUFFICES ASSUME QueueInv, ConfigNext \/ UNCHANGED <<table, channel, building, writers>> PROVE QueueInv'
  OBVIOUS
<1> DEFINE Batches_ == [layer : Layers, events : Seq(Events)]
<1>0. /\ table \in [Paths -> Settings \cup {Malformed}] /\ channel \in Seq(Batches_)
      /\ building \in 1..(Session + 2) /\ writers \in [1..2 -> Seq(Events)]
  BY DEF QueueInv
<1>1. CASE Load
  <2>1. PICK events \in LoadedBy(building) :
          channel' = IF events = <<>> THEN channel ELSE Append(channel, Batch(building, events))
    BY <1>1 DEF Load
  <2>2. events \in Seq(Events)
    <3>1. CASE building = Session
      BY <2>1, <3>1, RowEventsType DEF LoadedBy
    <3>2. CASE building # Session
      <4>1. Len(Found) \in Nat /\ DOMAIN Found = 1..Len(Found) /\ building \in 1..Len(Found)
        <5>1. Len(Found) \in Nat /\ DOMAIN Found = 1..Len(Found)
          BY ConfigAssumption, LenProperties
        <5>2. building \in 1..Session
          BY <1>1, LayersFacts DEF Load
        <5>3. Session = Len(Found) + 1
          BY DEF Session
        <5> QED
          BY <3>2, <5>1, <5>2, <5>3
      <4>2. Found[building] \in Range(Found)
        BY <4>1 DEF Range
      <4> QED
        BY <2>1, <3>2, <4>2, ConfigAssumption DEF LoadedBy
    <3> QED
      BY <3>1, <3>2
  <2>3. Batch(building, events) \in Batches_
    BY <1>1, <2>2 DEF Batch, Load
  <2>4. channel' \in Seq(Batches_)
    <3> HIDE DEF Batches_
    <3> QED
      BY <1>0, <2>1, <2>3, AppendProperties
  <2>5. building' \in 1..(Session + 2)
    BY <1>0, <1>1, LayersFacts DEF Load
  <2> QED
    BY <1>0, <1>1, <2>4, <2>5 DEF Load, QueueInv
<1>2. CASE BarrierPassed
  <2>1. building' \in 1..(Session + 2)
    BY <1>0, <1>2, LayersFacts DEF BarrierPassed
  <2> QED
    BY <1>0, <1>2, <2>1 DEF BarrierPassed, QueueInv
<1>3. CASE ApplyBatch
  <2>1. channel' \in Seq(Batches_)
    <3> HIDE DEF Batches_
    <3> QED
      BY <1>0, <1>3, HeadTailProperties DEF ApplyBatch
  <2> QED
    BY <1>0, <1>3, <2>1 DEF ApplyBatch, QueueInv
<1>4. ASSUME NEW w \in 1..2, WriteRows(w) PROVE QueueInv'
  <2>1. PICK events \in Writes :
          \/ table' = Written(events) /\ writers' = [writers EXCEPT ![w] = events]
          \/ /\ \E n \in 0..(Len(events) - 1) : table' = Written(SubSeq(events, 1, n))
             /\ UNCHANGED writers
    BY <1>4 DEF WriteRows
  <2>2. events \in Seq(Events)
    BY ConfigAssumption
  <2>3. table' \in [Paths -> Settings \cup {Malformed}]
    <3>1. CASE table' = Written(events)
      BY <2>2, <3>1, WrittenType
    <3>2. ASSUME NEW n \in 0..(Len(events) - 1), table' = Written(SubSeq(events, 1, n)) PROVE table' \in [Paths -> Settings \cup {Malformed}]
      <4>1. SubSeq(events, 1, n) \in Seq(Events)
        <5>1. Len(events) \in Nat /\ \A k \in 1..n : events[k] \in Events
          BY <2>2, LenProperties
        <5> QED
          BY <5>1, SubSeqProperties
      <4> QED
        BY <3>2, <4>1, WrittenType
    <3> QED
      BY <2>1, <3>1, <3>2
  <2>4. writers' \in [1..2 -> Seq(Events)]
    BY <1>0, <2>1, <2>2
  <2> QED
    BY <1>0, <1>4, <2>3, <2>4 DEF WriteRows, QueueInv
<1>5. ASSUME NEW w \in 1..2, WriteSend(w) PROVE QueueInv'
  <2>1. Batch(Session, writers[w]) \in Batches_
    BY <1>0, LayersFacts DEF Batch
  <2>2. channel' \in Seq(Batches_)
    <3> HIDE DEF Batches_
    <3> QED
      BY <1>0, <1>5, <2>1, AppendProperties DEF WriteSend
  <2>3. writers' \in [1..2 -> Seq(Events)]
    BY <1>0, <1>5, EmptySeq DEF WriteSend
  <2> QED
    BY <1>0, <1>5, <2>2, <2>3 DEF WriteSend, QueueInv
<1>6. CASE UNCHANGED <<table, channel, building, writers>>
  BY <1>6 DEF QueueInv
<1>7. CASE RefreshAll \/ Refresh \/ RequiredCheck \/ RequiredRegister
  <2>1. UNCHANGED <<table, channel, building, writers>>
    BY <1>7 DEF RefreshAll, Refresh, RequiredCheck, RequiredRegister, Registers
  <2> QED
    BY <1>6, <2>1
<1> QED
  BY <1>1, <1>2, <1>3, <1>4, <1>5, <1>6, <1>7 DEF ConfigNext

Fields == {"at", "value", "tick", "gen", "missed"}
AsBinding(b) ==
  /\ DOMAIN bindings[b] = Fields
  /\ bindings[b].at \in {"none", "read", "bound", "checked", "required"}
  /\ bindings[b].tick \in Nat /\ bindings[b].gen \in Nat /\ bindings[b].missed \in BOOLEAN
  /\ bindings[b].at \in {"checked", "required"} => b = "default"
Suits(refresher) ==
  LET b == refresher.of
  IN  /\ refresher.gen <= bindings[b].gen
      /\ refresher.required /\ refresher.gen = bindings[b].gen => bindings[b].at = "required"

\* The registry, said of one binding and one refresher at a time.
LEMMA RegistryParts ==
  RegistryInv <=>
    /\ DOMAIN bindings = Bindings
    /\ \A b \in Bindings : AsBinding(b) /\ (IsBound(b) => Own(b) \in Range(registry))
    /\ registry \in Seq(Refreshers) /\ processor.todo \in Seq(Refreshers)
    /\ \A refresher \in Range(registry) \cup Range(processor.todo) : Suits(refresher)
    /\ DOMAIN processor = {"at", "todo"} /\ processor.at \in {"idle", "applied", "refreshing"}
    /\ processor.at = "refreshing" <=> processor.todo # <<>>
BY DEF RegistryInv, AsBinding, Fields, Suits

\* What is in a sequence is of its type.
LEMMA RangeType == ASSUME NEW S, NEW s \in Seq(S) PROVE Range(s) \subseteq S
<1>1. DOMAIN s = 1..Len(s) /\ \A k \in 1..Len(s) : s[k] \in S
  BY LenProperties
<1> QED
  BY <1>1 DEF Range

\* One binding moves.
LEMMA RegistryMoves ==
  ASSUME RegistryInv, NEW b \in Bindings, processor' = processor, DOMAIN bindings' = Bindings,
         \A c \in Bindings \ {b} : bindings'[c] = bindings[c], AsBinding(b)',
         registry' \in Seq(Refreshers), Range(registry) \subseteq Range(registry'),
         \A refresher \in Range(registry') \ Range(registry) : refresher.of = b,
         IsBound(b)' => Own(b)' \in Range(registry'),
         \A refresher \in Range(registry') \cup Range(processor.todo) : refresher.of = b => Suits(refresher)'
  PROVE  RegistryInv'
<1>1. /\ \A c \in Bindings : AsBinding(c) /\ (IsBound(c) => Own(c) \in Range(registry))
      /\ registry \in Seq(Refreshers) /\ processor.todo \in Seq(Refreshers)
      /\ \A refresher \in Range(registry) \cup Range(processor.todo) : Suits(refresher)
      /\ DOMAIN processor = {"at", "todo"} /\ processor.at \in {"idle", "applied", "refreshing"}
      /\ processor.at = "refreshing" <=> processor.todo # <<>>
  BY RegistryParts
<1>2. ASSUME NEW c \in Bindings PROVE AsBinding(c)' /\ (IsBound(c)' => Own(c)' \in Range(registry'))
  <2>1. CASE c = b
    BY <2>1
  <2>2. CASE c # b
    <3>1. AsBinding(c)'
      BY <1>1, <2>2 DEF AsBinding
    <3>2. IsBound(c)' => IsBound(c) /\ Own(c)' = Own(c)
      BY <2>2 DEF IsBound, Own
    <3> QED
      BY <1>1, <3>1, <3>2
  <2> QED
    BY <2>1, <2>2
<1>3. ASSUME NEW refresher \in Range(registry') \cup Range(processor.todo) PROVE Suits(refresher)'
  <2>1. CASE refresher.of = b
    BY <2>1
  <2>2. CASE refresher.of # b
    <3>1. refresher \in Range(registry) \cup Range(processor.todo)
      BY <2>2
    <3>2. refresher.of \in Bindings
      <4>1. refresher \in Refreshers
        BY <1>1, <3>1, RangeType
      <4> QED
        BY <4>1 DEF Refreshers
    <3>3. Suits(refresher)
      BY <1>1, <3>1
    <3>4. bindings'[refresher.of] = bindings[refresher.of]
      BY <2>2, <3>2
    <3> QED
      BY <3>3, <3>4 DEF Suits
  <2> QED
    BY <2>1, <2>2
<1>4. /\ DOMAIN bindings' = Bindings
      /\ registry' \in Seq(Refreshers) /\ processor'.todo \in Seq(Refreshers)
      /\ \A refresher \in Range(registry') \cup Range(processor'.todo) : Suits(refresher)'
      /\ DOMAIN processor' = {"at", "todo"} /\ processor'.at \in {"idle", "applied", "refreshing"}
      /\ processor'.at = "refreshing" <=> processor'.todo # <<>>
  BY <1>1, <1>3
<1> QED
  BY <1>2, <1>4 DEF RegistryInv, AsBinding, Fields, Suits

\* A step of the owner of one binding that leaves the tree and the processor alone.
LEMMA CurrentMoves ==
  ASSUME RegistryInv, CurrentInv, NEW b \in Bindings, tree' = tree, processor' = processor,
         \A c \in Bindings \ {b} : bindings'[c] = bindings[c],
         IsBound(b)' /\ ~bindings'[b].missed => HasCurrent(b)' \/ processor.at = "applied" \/ Awaited(b)',
         bindings'[b].at = "read" /\ ~bindings'[b].missed => bindings'[b].value = Decode(tree, b) \/ processor.at = "applied"
  PROVE  CurrentInv'
<1>1. ASSUME NEW c \in Bindings, c # b
      PROVE  /\ IsBound(c)' <=> IsBound(c)
             /\ HasCurrent(c)' <=> HasCurrent(c)
             /\ Awaited(c)' <=> Awaited(c)
  BY <1>1 DEF IsBound, HasCurrent, Awaited
<1> QED
  BY <1>1 DEF CurrentInv

\* A binding is dropped, or read anew.
LEMMA GenerationMoves ==
  ASSUME RegistryInv, CurrentInv, NEW b \in Bindings, UNCHANGED <<tree, processor, registry>>, DOMAIN bindings' = Bindings,
         \A c \in Bindings \ {b} : bindings'[c] = bindings[c], DOMAIN bindings'[b] = Fields,
         bindings'[b].at \in {"none", "read"}, bindings'[b].tick \in Nat, bindings'[b].missed \in BOOLEAN,
         bindings'[b].gen = bindings[b].gen + 1, bindings'[b].at = "read" => bindings'[b].value = Decode(tree, b)
  PROVE  RegistryInv' /\ CurrentInv'
<1>0. AsBinding(b) /\ \A refresher \in Range(registry) \cup Range(processor.todo) : Suits(refresher) /\ refresher \in Refreshers
  BY RegistryParts, RangeType
<1>1. AsBinding(b)' /\ ~IsBound(b)'
  BY <1>0 DEF AsBinding, IsBound
<1>2. \A refresher \in Range(registry) \cup Range(processor.todo) : refresher.of = b => Suits(refresher)'
  BY <1>0 DEF Suits, AsBinding, Refreshers
<1>3. RegistryInv'
  <2>1. registry' \in Seq(Refreshers) /\ registry' = registry
    BY RegistryParts
  <2> QED
    BY <1>1, <1>2, <2>1, RegistryMoves
<1>4. CurrentInv'
  BY <1>1, CurrentMoves
<1> QED
  BY <1>3, <1>4

\* Reading the snapshot for a new binding.
LEMMA BindReads == ASSUME RegistryInv, CurrentInv, NEW b \in Bindings, BindRead(b) PROVE RegistryInv' /\ CurrentInv'
<1>1. AsBinding(b) /\ DOMAIN bindings = Bindings
  BY RegistryParts
<1>2. bindings'[b] = [at |-> "read", value |-> Decode(tree, b), tick |-> 0, gen |-> bindings[b].gen + 1, missed |-> FALSE]
  BY <1>1 DEF BindRead
<1>3. DOMAIN bindings' = Bindings /\ \A c \in Bindings \ {b} : bindings'[c] = bindings[c]
  BY <1>1 DEF BindRead
<1>4. UNCHANGED <<tree, processor, registry>>
  BY DEF BindRead
<1>5. DOMAIN bindings'[b] = Fields
  BY <1>2 DEF Fields
<1>6. /\ bindings'[b].at = "read" /\ bindings'[b].tick \in Nat /\ bindings'[b].missed \in BOOLEAN
      /\ bindings'[b].gen = bindings[b].gen + 1 /\ bindings'[b].value = Decode(tree, b)
  BY <1>2
<1> QED
  BY <1>3, <1>4, <1>5, <1>6, GenerationMoves

\* Dropping a binding.
LEMMA Unbounds ==
  ASSUME RegistryInv, CurrentInv, NEW b \in Bindings, UNCHANGED <<tree, processor, registry>>, bindings' = Unbound(b)
  PROVE  RegistryInv' /\ CurrentInv'
<1>1. AsBinding(b) /\ DOMAIN bindings = Bindings
  BY RegistryParts
<1>2. /\ bindings'[b].at = "none" /\ bindings'[b].gen = bindings[b].gen + 1
      /\ bindings'[b].tick = bindings[b].tick /\ bindings'[b].missed = bindings[b].missed
      /\ DOMAIN bindings'[b] = Fields
  BY <1>1 DEF Unbound, AsBinding, Fields
<1>3. DOMAIN bindings' = Bindings /\ \A c \in Bindings \ {b} : bindings'[c] = bindings[c]
  BY <1>1 DEF Unbound
<1>4. bindings'[b].tick \in Nat /\ bindings'[b].missed \in BOOLEAN
  BY <1>1, <1>2 DEF AsBinding
<1> QED
  BY <1>2, <1>3, <1>4, GenerationMoves

\* A binding is registered, or its owner looks at its value.
LEMMA StageMoves ==
  ASSUME RegistryInv, CurrentInv, NEW b \in Bindings, NEW stage, UNCHANGED <<tree, processor>>,
         bindings' = [bindings EXCEPT ![b].at = stage],
         \/ bindings[b].at = "read" /\ stage = "bound"
         \/ b = "default" /\ bindings[b].at = "bound" /\ stage = "checked"
         \/ b = "default" /\ bindings[b].at = "checked" /\ stage = "required",
         \/ registry' = registry /\ stage = "checked"
         \/ /\ registry' = Append(registry, [of |-> b, gen |-> bindings[b].gen, required |-> stage = "required"])
            /\ stage # "checked"
  PROVE  RegistryInv' /\ CurrentInv'
<1>0. /\ DOMAIN bindings = Bindings /\ AsBinding(b) /\ registry \in Seq(Refreshers) /\ (IsBound(b) => Own(b) \in Range(registry))
      /\ \A refresher \in Range(registry) \cup Range(processor.todo) : Suits(refresher) /\ refresher \in Refreshers
  BY RegistryParts, RangeType
<1>1. /\ bindings'[b].at = stage /\ bindings'[b].gen = bindings[b].gen /\ bindings'[b].value = bindings[b].value
      /\ bindings'[b].tick = bindings[b].tick /\ bindings'[b].missed = bindings[b].missed
      /\ DOMAIN bindings'[b] = Fields
  BY <1>0 DEF AsBinding, Fields
<1>2. DOMAIN bindings' = Bindings /\ \A c \in Bindings \ {b} : bindings'[c] = bindings[c]
  BY <1>0
<1>3. AsBinding(b)' /\ IsBound(b)'
  BY <1>0, <1>1 DEF AsBinding, IsBound
<1>4. Own(b)' = [of |-> b, gen |-> bindings[b].gen, required |-> stage = "required"] /\ Own(b)' \in Refreshers
  BY <1>0, <1>1 DEF Own, AsBinding, Refreshers
<1>5. registry' \in Seq(Refreshers) /\ Range(registry) \subseteq Range(registry') /\ Own(b)' \in Range(registry')
      /\ Range(registry') \subseteq Range(registry) \cup {Own(b)'}
  <2>1. CASE registry' = registry /\ stage = "checked"
    <3>1. Own(b)' = Own(b) /\ IsBound(b)
      BY <1>1, <2>1 DEF Own, IsBound
    <3> QED
      BY <1>0, <2>1, <3>1
  <2>2. CASE registry' = Append(registry, [of |-> b, gen |-> bindings[b].gen, required |-> stage = "required"])
    BY <1>0, <1>4, <2>2, RangeAppend, AppendProperties
  <2> QED
    BY <2>1, <2>2
<1>6. ASSUME NEW refresher \in Range(registry') \cup Range(processor.todo), refresher.of = b PROVE Suits(refresher)'
  <2>1. CASE refresher = Own(b)'
    <3>0. refresher = [of |-> b, gen |-> bindings[b].gen, required |-> stage = "required"]
      BY <1>4, <2>1
    <3>1. refresher.of = b /\ refresher.gen = bindings[b].gen /\ refresher.required = (stage = "required")
      BY <3>0, Zenon
    <3>2. bindings[b].gen <= bindings[b].gen
      BY <1>0 DEF AsBinding
    <3> QED
      BY <1>1, <3>1, <3>2 DEF Suits
  <2>2. CASE refresher # Own(b)'
    <3>1. Suits(refresher)
      BY <1>0, <1>5, <2>2
    <3> QED
      BY <1>1, <1>6, <3>1 DEF Suits
  <2> QED
    BY <2>1, <2>2
<1>7. \A refresher \in Range(registry') \ Range(registry) : refresher.of = b
  BY <1>4, <1>5
<1>8. RegistryInv'
  BY <1>2, <1>3, <1>5, <1>6, <1>7, RegistryMoves
<1>9. CurrentInv'
  <2>1. IsBound(b)' /\ ~bindings'[b].missed => HasCurrent(b)' \/ processor.at = "applied" \/ Awaited(b)'
    <3>1. CASE bindings[b].at = "read"
      BY <1>1, <3>1 DEF CurrentInv, HasCurrent
    <3>2. CASE bindings[b].at # "read"
      <4>1. IsBound(b) /\ bindings[b].at # "required"
        BY <3>2 DEF IsBound
      <4>2. HasCurrent(b) => HasCurrent(b)'
        BY <1>1, <4>1 DEF HasCurrent
      <4>3. Awaited(b) => Awaited(b)'
        BY <1>1 DEF Awaited
      <4> QED
        BY <1>1, <4>1, <4>2, <4>3 DEF CurrentInv
    <3> QED
      BY <3>1, <3>2
  <2>2. bindings'[b].at # "read"
    BY <1>1
  <2> QED
    BY <1>2, <2>1, <2>2, CurrentMoves
<1> QED
  BY <1>8, <1>9

\* The first of a sequence, and the others.
LEMMA FirstAndRest ==
  ASSUME NEW S, NEW s \in Seq(S), s # <<>>
  PROVE  /\ Head(s) \in S /\ Tail(s) \in Seq(S) /\ Head(s) \in Range(s)
         /\ Range(s) = {Head(s)} \cup Range(Tail(s))
         /\ Len(s) = 1 <=> Tail(s) = <<>>
<1>1. /\ Head(s) \in S /\ Tail(s) \in Seq(S) /\ Len(Tail(s)) = Len(s) - 1 /\ Head(s) = s[1]
      /\ \A k \in 1..Len(Tail(s)) : Tail(s)[k] = s[k + 1]
  BY HeadTailProperties
<1>2. Len(s) \in Nat \ {0} /\ DOMAIN s = 1..Len(s) /\ DOMAIN Tail(s) = 1..Len(Tail(s)) /\ Len(Tail(s)) \in Nat
  BY <1>1, LenProperties, EmptySeq
<1>3. Head(s) \in Range(s)
  BY <1>1, <1>2 DEF Range
<1>4. ASSUME NEW k \in DOMAIN s PROVE s[k] \in {Head(s)} \cup Range(Tail(s))
  <2>1. CASE k = 1
    BY <1>1, <2>1
  <2>2. CASE k # 1
    <3>1. k - 1 \in DOMAIN Tail(s) /\ (k - 1) + 1 = k
      BY <1>1, <1>2, <2>2
    <3>2. Tail(s)[k - 1] = s[k]
      BY <1>1, <1>2, <3>1
    <3> QED
      BY <3>1, <3>2 DEF Range
  <2> QED
    BY <2>1, <2>2
<1>5. ASSUME NEW k \in DOMAIN Tail(s) PROVE Tail(s)[k] \in Range(s)
  <2>1. k + 1 \in DOMAIN s /\ Tail(s)[k] = s[k + 1]
    BY <1>1, <1>2
  <2> QED
    BY <2>1 DEF Range
<1>6. Range(s) = {Head(s)} \cup Range(Tail(s))
  BY <1>3, <1>4, <1>5 DEF Range
<1>7. Len(s) = 1 <=> Tail(s) = <<>>
  <2>1. Tail(s) = <<>> <=> Len(Tail(s)) = 0
    BY <1>1, EmptySeq
  <2> QED
    BY <1>1, <1>2, <2>1
<1> QED
  BY <1>1, <1>3, <1>6, <1>7

\* The tree stays, if no batch is applied.
LEMMA TreeFrozen == TreeInv /\ UNCHANGED <<tree, said>> => TreeInv'
BY DEF TreeInv

\* Neither the bindings nor what they are refreshed from changes.
LEMMA RegistryFrozen ==
  RegistryInv /\ CurrentInv /\ UNCHANGED <<tree, processor, registry, bindings>> => RegistryInv' /\ CurrentInv'
<1> SUFFICES ASSUME RegistryInv, CurrentInv, UNCHANGED <<tree, processor, registry, bindings>>
             PROVE  RegistryInv' /\ CurrentInv'
  OBVIOUS
<1>1. RegistryInv'
  BY DEF RegistryInv, Own, IsBound
<1>2. CurrentInv'
  BY DEF CurrentInv, HasCurrent, Awaited, IsBound
<1> QED
  BY <1>1, <1>2

\* The default model's binding is not touched, nor what is said of it.
LEMMA LastFrozen ==
  LastInv /\ UNCHANGED <<tree, last>> /\ bindings'["default"] = bindings["default"] => LastInv'
BY DEF LastInv, Held

\* A batch is applied: the default model has what the tree said before, if it has not missed it.
LEMMA LastApplied == ASSUME RegistryInv, CurrentInv, LastInv, ApplyBatch PROVE LastInv'
<1>1. "default" \in Bindings
  BY DEF Bindings, BindingPath
<1>2. bindings' = bindings /\ processor.at = "idle"
      /\ last' = IF Decode(tree', "default") = Absent THEN last ELSE Decode(tree', "default")
  BY DEF ApplyBatch
<1>3. ~Awaited("default")
  <2>1. Range(<<>>) = {}
    BY EmptySeq DEF Range
  <2> QED
    BY <1>2, <2>1 DEF RegistryInv, Awaited
<1>4. ASSUME Held, Decode(tree, "default") # Absent PROVE bindings["default"].value = Decode(tree, "default")
  BY <1>1, <1>2, <1>3, <1>4 DEF CurrentInv, HasCurrent, IsBound, Held
<1>5. Held' <=> Held
  BY <1>2 DEF Held
<1> QED
  BY <1>2, <1>4, <1>5 DEF LastInv

\* A batch is applied: the bindings are to be refreshed.
LEMMA Applies == ASSUME ConfigInv, ApplyBatch PROVE ConfigInv'
<1> DEFINE Batches_ == [layer : Layers, events : Seq(Events)]
<1>1. TreeInv /\ QueueInv /\ RegistryInv /\ CurrentInv /\ LastInv
  BY DEF ConfigInv
<1>2. Head(channel) \in Batches_
  <2>1. channel \in Seq(Batches_) /\ channel # <<>>
    BY <1>1 DEF QueueInv, ApplyBatch
  <2> HIDE DEF Batches_
  <2> QED
    BY <2>1, HeadTailProperties
<1>3. TreeInv'
  BY <1>1, <1>2, TreeApplied DEF ApplyBatch
<1>4. QueueInv'
  BY <1>1, QueueStep DEF ConfigNext
<1>5. DOMAIN processor = {"at", "todo"} /\ processor.todo = <<>>
  BY <1>1 DEF RegistryInv, ApplyBatch
<1>6. /\ DOMAIN processor' = {"at", "todo"} /\ processor'.at = "applied" /\ processor'.todo = processor.todo
      /\ UNCHANGED <<registry, bindings>>
  BY <1>5 DEF ApplyBatch
<1>7. RegistryInv'
  BY <1>1, <1>5, <1>6 DEF RegistryInv, Own, IsBound
<1>8. CurrentInv'
  BY <1>6 DEF CurrentInv
<1>9. LastInv'
  BY <1>1, LastApplied
<1> QED
  BY <1>3, <1>4, <1>7, <1>8, <1>9 DEF ConfigInv

\* Before the first refresher, it is noted which bindings miss the batch.
LEMMA RefreshAllOf ==
  ASSUME RegistryInv, RefreshAll, NEW b \in Bindings
  PROVE  /\ DOMAIN bindings'[b] = Fields /\ bindings'[b].at = bindings[b].at /\ bindings'[b].value = bindings[b].value
         /\ bindings'[b].tick = bindings[b].tick /\ bindings'[b].gen = bindings[b].gen
         /\ bindings'[b].missed \in BOOLEAN
         /\ bindings[b].at = "read" /\ ~bindings'[b].missed => bindings[b].value = Decode(tree, b)
         /\ IsBound(b) /\ ~bindings'[b].missed => ~bindings[b].missed
<1> DEFINE misses == \/ bindings[b].at = "read" /\ bindings[b].value # Decode(tree, b)
                     \/ bindings[b].at \in {"bound", "checked", "required"} /\ bindings[b].missed
<1>1. bindings'[b] = [bindings[b] EXCEPT !.missed = misses]
  BY DEF RefreshAll
<1>2. DOMAIN bindings[b] = Fields
  BY RegistryParts DEF AsBinding
<1>3. misses \in BOOLEAN
  OBVIOUS
<1>4. /\ bindings[b].at = "read" /\ ~misses => bindings[b].value = Decode(tree, b)
      /\ IsBound(b) /\ ~misses => ~bindings[b].missed
  BY DEF IsBound
<1> HIDE DEF misses
<1>5. /\ DOMAIN bindings'[b] = Fields /\ bindings'[b].at = bindings[b].at /\ bindings'[b].value = bindings[b].value
      /\ bindings'[b].tick = bindings[b].tick /\ bindings'[b].gen = bindings[b].gen /\ bindings'[b].missed = misses
  BY <1>1, <1>2 DEF Fields
<1> QED
  BY <1>3, <1>4, <1>5

\* The refreshers that are alive are taken, and the dead ones let go.
LEMMA RefreshesAll == ASSUME RegistryInv, CurrentInv, RefreshAll PROVE RegistryInv' /\ CurrentInv'
<1> DEFINE alive == {refresher \in Range(registry) : Alive(refresher)}
<1>1. /\ DOMAIN bindings = Bindings
      /\ \A b \in Bindings : AsBinding(b) /\ (IsBound(b) => Own(b) \in Range(registry))
      /\ registry \in Seq(Refreshers) /\ DOMAIN processor = {"at", "todo"}
      /\ \A refresher \in Range(registry) : Suits(refresher) /\ refresher \in Refreshers
  BY RegistryParts, RangeType
<1>2. registry' \in Seq(Refreshers) /\ Range(registry') = alive
  <2>1. registry' = Picked(registry, alive)
    BY DEF RefreshAll
  <2>2. registry' \in Seq(alive \cap Refreshers)
    <3> HIDE DEF alive
    <3> QED
      BY <1>1, <2>1, PickedType
  <2>3. Range(registry') = Range(registry) \cap alive
    <3> HIDE DEF alive
    <3> QED
      BY <1>1, <2>1, PickedRange
  <2>4. Seq(Refreshers \cap alive) \subseteq Seq(Refreshers)
    BY SeqSubset
  <2> QED
    BY <2>2, <2>3, <2>4
<1>3. ASSUME NEW b \in Bindings
      PROVE  /\ DOMAIN bindings'[b] = Fields /\ bindings'[b].at = bindings[b].at /\ bindings'[b].value = bindings[b].value
             /\ bindings'[b].tick = bindings[b].tick /\ bindings'[b].gen = bindings[b].gen
             /\ bindings'[b].missed \in BOOLEAN
             /\ bindings[b].at = "read" /\ ~bindings'[b].missed => bindings[b].value = Decode(tree, b)
  BY RefreshAllOf
<1>4. DOMAIN bindings' = Bindings
  BY DEF RefreshAll
<1>5. ASSUME NEW b \in Bindings, IsBound(b) PROVE Own(b) \in Range(registry') /\ Own(b)' = Own(b) /\ Own(b).of = b /\ Own(b).gen = bindings[b].gen
  <2>1. Own(b).of = b /\ Own(b).gen = bindings[b].gen /\ Own(b).required = (bindings[b].at = "required")
    BY DEF Own
  <2>2. Own(b) \in Range(registry) /\ Alive(Own(b))
    <3>1. CASE bindings[b].at = "required"
      BY <1>1, <1>5, <2>1, <3>1 DEF Alive
    <3>2. CASE bindings[b].at # "required"
      BY <1>1, <1>5, <2>1, <3>2 DEF Alive, IsBound
    <3> QED
      BY <3>1, <3>2
  <2>3. Own(b)' = Own(b)
    BY <1>3 DEF Own
  <2> QED
    BY <1>2, <2>1, <2>2, <2>3
<1>6. /\ DOMAIN processor' = {"at", "todo"} /\ processor'.at \in {"idle", "applied", "refreshing"}
      /\ processor'.at = "refreshing" <=> processor'.todo # <<>>
      /\ processor'.todo = registry' /\ processor'.at # "applied"
  <2>1. CASE registry' = <<>>
    BY <2>1 DEF RefreshAll
  <2>2. CASE registry' # <<>>
    BY <2>2 DEF RefreshAll
  <2> QED
    BY <2>1, <2>2
<1>7. ASSUME NEW refresher \in Range(registry') PROVE Suits(refresher)'
  <2>1. Suits(refresher) /\ refresher.of \in Bindings
    BY <1>1, <1>2 DEF Refreshers
  <2> QED
    BY <1>3, <2>1 DEF Suits
<1>8. \A b \in Bindings : AsBinding(b)' /\ (IsBound(b)' <=> IsBound(b))
  BY <1>1, <1>3 DEF AsBinding, IsBound
<1>9. RegistryInv'
  <2>1. \A b \in Bindings : IsBound(b)' => Own(b)' \in Range(registry')
    BY <1>5, <1>8
  <2>2. \A b \in Bindings : AsBinding(b)'
    BY <1>8
  <2>3. Range(registry') \cup Range(processor'.todo) = Range(registry') /\ processor'.todo \in Seq(Refreshers)
    BY <1>2, <1>6
  <2> QED
    BY <1>2, <1>4, <1>6, <1>7, <2>1, <2>2, <2>3 DEF RegistryInv, AsBinding, Fields, Suits
<1>10. CurrentInv'
  <2>1. ASSUME NEW b \in Bindings, IsBound(b)' PROVE Awaited(b)'
    <3>1. IsBound(b)
      BY <1>8, <2>1
    <3>2. Own(b) \in Range(processor'.todo) /\ Own(b).of = b /\ Own(b).gen = bindings'[b].gen
      BY <1>3, <1>5, <1>6, <3>1
    <3> QED
      BY <3>2 DEF Awaited
  <2>2. ASSUME NEW b \in Bindings, bindings'[b].at = "read", ~bindings'[b].missed
        PROVE  bindings'[b].value = Decode(tree', b)
    BY <1>3, <2>2 DEF RefreshAll
  <2> QED
    BY <2>1, <2>2 DEF CurrentInv
<1> QED
  BY <1>9, <1>10

\* The next refresher refreshes its binding, if it is still that one.
LEMMA Refreshes == ASSUME RegistryInv, CurrentInv, Refresh PROVE RegistryInv' /\ CurrentInv'
<1>1. /\ DOMAIN bindings = Bindings
      /\ \A c \in Bindings : AsBinding(c) /\ (IsBound(c) => Own(c) \in Range(registry))
      /\ registry \in Seq(Refreshers) /\ processor.todo \in Seq(Refreshers) /\ processor.todo # <<>>
      /\ DOMAIN processor = {"at", "todo"}
      /\ \A r \in Range(registry) \cup Range(processor.todo) : Suits(r) /\ r \in Refreshers
  <2>1. processor.todo # <<>>
    BY RegistryParts DEF Refresh
  <2> QED
    BY <2>1, RegistryParts, RangeType
<1>2. PICK refresher \in Refreshers, b \in Bindings :
      /\ refresher = Head(processor.todo) /\ b = refresher.of /\ refresher \in Range(processor.todo)
      /\ Tail(processor.todo) \in Seq(Refreshers)
      /\ Range(processor.todo) = {refresher} \cup Range(Tail(processor.todo))
      /\ Len(processor.todo) = 1 <=> Tail(processor.todo) = <<>>
  <2>1. Head(processor.todo) \in Refreshers
    BY <1>1, FirstAndRest
  <2>2. Head(processor.todo).of \in Bindings
    BY <2>1 DEF Refreshers
  <2> QED
    BY <1>1, <2>1, <2>2, FirstAndRest
<1> DEFINE next == Decode(tree, b)
           skips == refresher.gen # bindings[b].gen \/ (refresher.required /\ next = Absent)
           clears == bindings[b].at \in {"checked", "required"} /\ next = Absent
<1>3. /\ DOMAIN processor' = {"at", "todo"} /\ processor'.todo = Tail(processor.todo)
      /\ processor'.at \in {"idle", "refreshing"} /\ (processor'.at = "refreshing" <=> processor'.todo # <<>>)
      /\ UNCHANGED <<tree, registry>>
  <2>1. CASE Len(processor.todo) = 1
    <3>1. processor' = [at |-> "idle", todo |-> <<>>]
      BY <2>1 DEF Refresh
    <3> QED
      BY <1>2, <2>1, <3>1 DEF Refresh
  <2>2. CASE Len(processor.todo) # 1
    <3>1. processor' = [processor EXCEPT !.todo = Tail(@)] /\ processor.at = "refreshing"
      BY <2>2 DEF Refresh
    <3> QED
      BY <1>1, <1>2, <2>2, <3>1 DEF Refresh
  <2> QED
    BY <2>1, <2>2
<1>4. bindings' = IF skips THEN bindings ELSE [bindings EXCEPT ![b].value = next, ![b].tick = @ + 1, ![b].missed = clears]
  <2>1. bindings' = RefreshFrom(refresher, next)
    BY <1>2 DEF Refresh
  <2>2. RefreshFrom(refresher, next) =
          IF refresher.gen # bindings[refresher.of].gen \/ (refresher.required /\ next = Absent) THEN bindings
          ELSE [bindings EXCEPT ![refresher.of].value = next, ![refresher.of].tick = @ + 1,
                   ![refresher.of].missed = bindings[refresher.of].at \in {"checked", "required"} /\ next = Absent]
    BY DEF RefreshFrom
  <2> HIDE DEF next
  <2> QED
    BY <1>2, <2>1, <2>2 DEF skips, clears
<1>a. clears \in BOOLEAN
  OBVIOUS
<1> HIDE DEF next, skips, clears
<1>5. CASE skips
  <2>1. bindings' = bindings
    BY <1>4, <1>5
  <2>2. RegistryInv'
    BY <1>1, <1>2, <1>3, <2>1 DEF RegistryInv, AsBinding, Fields, Suits, Own, IsBound
  <2>3. ASSUME NEW c \in Bindings, IsBound(c), ~bindings[c].missed PROVE HasCurrent(c)' \/ Awaited(c)'
    <3>1. HasCurrent(c) \/ Awaited(c)
      BY <2>3 DEF CurrentInv, Refresh
    <3>2. CASE HasCurrent(c)
      BY <1>3, <2>1, <3>2 DEF HasCurrent
    <3>3. CASE Awaited(c)
      <4>1. PICK r \in Range(processor.todo) : r.of = c /\ r.gen = bindings[c].gen
        BY <3>3 DEF Awaited
      <4>2. CASE r = refresher
        <5>1. refresher.required /\ next = Absent /\ c = b
          BY <1>2, <1>5, <4>1, <4>2 DEF skips
        <5>2. bindings[c].at = "required"
          BY <1>1, <1>2, <4>1, <4>2, <5>1 DEF Suits
        <5> QED
          BY <1>3, <2>1, <5>1, <5>2 DEF HasCurrent, next
      <4>3. CASE r # refresher
        BY <1>2, <1>3, <2>1, <4>1, <4>3 DEF Awaited
      <4> QED
        BY <4>2, <4>3
    <3> QED
      BY <3>1, <3>2, <3>3
  <2>4. \A c \in Bindings : bindings[c].at = "read" /\ ~bindings[c].missed => bindings[c].value = Decode(tree, c)
    BY DEF CurrentInv, Refresh
  <2>5. CurrentInv'
    BY <1>3, <2>1, <2>3, <2>4 DEF CurrentInv, IsBound
  <2> QED
    BY <2>2, <2>5
<1>6. CASE ~skips
  <2>1. /\ DOMAIN bindings' = Bindings /\ \A c \in Bindings \ {b} : bindings'[c] = bindings[c]
    <3>1. bindings' = [bindings EXCEPT ![b].value = next, ![b].tick = @ + 1, ![b].missed = clears]
      BY <1>4, <1>6
    <3> QED
      BY <1>1, <3>1
  <2>2. /\ DOMAIN bindings'[b] = Fields /\ bindings'[b].at = bindings[b].at /\ bindings'[b].gen = bindings[b].gen
        /\ bindings'[b].tick = bindings[b].tick + 1 /\ bindings'[b].value = next /\ bindings'[b].missed = clears
    <3>1. bindings' = [bindings EXCEPT ![b].value = next, ![b].tick = @ + 1, ![b].missed = clears]
      BY <1>4, <1>6
    <3>2. b \in DOMAIN bindings /\ DOMAIN bindings[b] = Fields
      BY <1>1, <1>2 DEF AsBinding, Fields
    <3>3. bindings'[b] = [bindings[b] EXCEPT !.value = next, !.tick = @ + 1, !.missed = clears]
      BY <3>1, <3>2
    <3> QED
      BY <3>2, <3>3 DEF Fields
  <2>3. \A c \in Bindings : /\ bindings'[c].at = bindings[c].at /\ bindings'[c].gen = bindings[c].gen
                            /\ AsBinding(c)' /\ Own(c)' = Own(c) /\ (IsBound(c)' <=> IsBound(c))
    <3>1. ASSUME NEW c \in Bindings PROVE bindings'[c].at = bindings[c].at /\ bindings'[c].gen = bindings[c].gen /\ AsBinding(c)'
      <4>1. CASE c = b
        <5>1. AsBinding(b)
          BY <1>1
        <5>2. bindings'[b].tick \in Nat
          BY <2>2, <5>1 DEF AsBinding
        <5>3. bindings'[b].missed \in BOOLEAN
          BY <1>a, <2>2, Zenon
        <5> QED
          BY <2>2, <4>1, <5>1, <5>2, <5>3 DEF AsBinding
      <4>2. CASE c # b
        BY <1>1, <2>1, <4>2 DEF AsBinding
      <4> QED
        BY <4>1, <4>2
    <3> QED
      BY <3>1 DEF Own, IsBound
  <2>4. \A r \in Range(registry) \cup Range(processor'.todo) : Suits(r)'
    <3>1. \A r \in Range(registry) \cup Range(processor'.todo) : Suits(r) /\ r.of \in Bindings
      BY <1>1, <1>2, <1>3 DEF Refreshers
    <3> QED
      BY <2>3, <3>1 DEF Suits
  <2>5. RegistryInv'
    <3>1. \A c \in Bindings : AsBinding(c)' /\ (IsBound(c)' => Own(c)' \in Range(registry'))
      BY <1>1, <1>3, <2>3
    <3> QED
      BY <1>1, <1>2, <1>3, <2>1, <2>4, <3>1 DEF RegistryInv, AsBinding, Fields, Suits
  <2>6. HasCurrent(b)' /\ bindings'[b].value = Decode(tree', b)
    BY <1>3, <2>2 DEF HasCurrent, next
  <2>7. ASSUME NEW c \in Bindings, c # b, IsBound(c), ~bindings[c].missed PROVE HasCurrent(c)' \/ Awaited(c)'
    <3>1. HasCurrent(c) \/ Awaited(c)
      BY <2>7 DEF CurrentInv, Refresh
    <3>2. CASE HasCurrent(c)
      BY <1>3, <2>1, <2>7, <3>2 DEF HasCurrent
    <3>3. CASE Awaited(c)
      <4>1. PICK r \in Range(processor.todo) : r.of = c /\ r.gen = bindings[c].gen
        BY <3>3 DEF Awaited
      <4>2. r # refresher
        BY <1>2, <2>7, <4>1
      <4> QED
        BY <1>2, <1>3, <2>1, <2>7, <4>1, <4>2 DEF Awaited
    <3> QED
      BY <3>1, <3>2, <3>3
  <2>8. ASSUME NEW c \in Bindings, c # b, bindings[c].at = "read", ~bindings[c].missed
        PROVE  bindings[c].value = Decode(tree, c)
    BY <2>8 DEF CurrentInv, Refresh
  <2>9. CurrentInv'
    <3>1. ASSUME NEW c \in Bindings
          PROVE  /\ IsBound(c)' /\ ~bindings'[c].missed => HasCurrent(c)' \/ Awaited(c)'
                 /\ bindings'[c].at = "read" /\ ~bindings'[c].missed => bindings'[c].value = Decode(tree', c)
      <4>1. CASE c = b
        BY <2>6, <4>1
      <4>2. CASE c # b
        BY <1>3, <2>1, <2>3, <2>7, <2>8, <4>2
      <4> QED
        BY <4>1, <4>2
    <3> QED
      BY <3>1 DEF CurrentInv
  <2> QED
    BY <2>5, <2>9
<1> QED
  BY <1>5, <1>6

\* At first there is no node and no binding.
LEMMA ConfigInitial == ConfigInit => ConfigInv
<1> SUFFICES ASSUME ConfigInit PROVE ConfigInv
  OBVIOUS
<1>1. TreeInv
  <2>1. DOMAIN tree = {} /\ tree = [node \in {} |-> NoSlots]
    BY DEF ConfigInit
  <2>2. said \in [Layers -> [Paths -> Settings]] /\ \A l \in Layers : \A p \in Paths : said[l][p] = Null
    BY DEF ConfigInit, Settings, Null, Bad
  <2> QED
    BY <2>1, <2>2 DEF TreeInv
<1>2. QueueInv
  BY QueueInit
<1>3. \A b \in Bindings : bindings[b] = NoBinding
  BY DEF ConfigInit
<1>4. RegistryInv
  <2>1. DOMAIN bindings = Bindings
    BY DEF ConfigInit
  <2>2. registry = <<>> /\ processor = [at |-> "idle", todo |-> <<>>]
    BY DEF ConfigInit
  <2>3. <<>> \in Seq(Refreshers) /\ Range(<<>>) = {}
    BY EmptySeq DEF Range
  <2>4. ASSUME NEW b \in Bindings PROVE AsBinding(b) /\ ~IsBound(b)
    <3>1. bindings[b] = [at |-> "none", value |-> Absent, tick |-> 0, gen |-> 0, missed |-> FALSE]
      BY <1>3 DEF NoBinding
    <3>2. DOMAIN bindings[b] = Fields /\ bindings[b].at = "none" /\ bindings[b].tick = 0 /\ bindings[b].gen = 0
      BY <3>1 DEF Fields
    <3>3. bindings[b].missed \in BOOLEAN
      BY <3>1
    <3> QED
      BY <3>2, <3>3 DEF AsBinding, IsBound
  <2> QED
    BY <2>1, <2>2, <2>3, <2>4, RegistryParts
<1>5. CurrentInv
  BY <1>3 DEF CurrentInv, NoBinding, IsBound
<1>6. LastInv
  <2>1. bindings["default"].at = "none"
    BY <1>3 DEF Bindings, BindingPath, NoBinding
  <2>2. DOMAIN tree = {}
    BY DEF ConfigInit
  <2>3. Decode(tree, "default") = Absent
    BY <2>2 DEF Decode
  <2> QED
    BY <2>1, <2>3 DEF LastInv, Held
<1> QED
  BY <1>1, <1>2, <1>4, <1>5, <1>6 DEF ConfigInv

\* What the configuration does without a batch leaves the last model what it was.
LEMMA LastMoves ==
  ASSUME RegistryInv, CurrentInv, LastInv, ConfigNext, ~ApplyBatch
  PROVE  LastInv'
<1>0. "default" \in Bindings
  BY DEF Bindings, BindingPath
<1>1. DOMAIN bindings = Bindings /\ AsBinding("default") /\ DOMAIN bindings["default"] = Fields
  BY <1>0, RegistryParts DEF AsBinding
<1>2. UNCHANGED <<tree, last>>
  BY DEF ConfigNext, Load, BarrierPassed, RefreshAll, Refresh, RequiredCheck, RequiredRegister, Registers, WriteRows, WriteSend
<1>3. CASE RefreshAll
  <2>1. Held' => \/ Held /\ bindings'["default"].at = bindings["default"].at
                 \/ bindings["default"].at = "read" /\ bindings["default"].value = Decode(tree, "default")
    BY <1>0, <1>3, RefreshAllOf DEF Held, IsBound
  <2>2. bindings'["default"].at = bindings["default"].at /\ bindings'["default"].value = bindings["default"].value
    BY <1>0, <1>3, RefreshAllOf
  <2> QED
    BY <1>2, <2>1, <2>2 DEF LastInv
<1>4. CASE Refresh
  <2>1. PICK refresher : bindings' = RefreshFrom(refresher, Decode(tree, refresher.of))
    BY <1>4 DEF Refresh
  <2>2. CASE bindings'["default"] = bindings["default"]
    BY <1>2, <2>2, LastFrozen
  <2>3. CASE bindings'["default"] # bindings["default"]
    <3> DEFINE next == Decode(tree, "default")
               clears == bindings["default"].at \in {"checked", "required"} /\ next = Absent
    <3>1. refresher.of = "default" /\ bindings' =
            [bindings EXCEPT !["default"].value = next, !["default"].tick = @ + 1, !["default"].missed = clears]
      BY <1>0, <1>1, <2>1, <2>3 DEF RefreshFrom
    <3>2. clears => bindings["default"].at \in {"checked", "required"} /\ next = Absent
      OBVIOUS
    <3>3. next = Absent /\ bindings["default"].at \in {"checked", "required"} => clears
      OBVIOUS
    <3> HIDE DEF clears, next
    <3>4. bindings'["default"].at = bindings["default"].at /\ bindings'["default"].value = next
          /\ bindings'["default"].missed = clears
      BY <1>0, <1>1, <3>1 DEF Fields
    <3> QED
      BY <1>2, <3>3, <3>4 DEF LastInv, Held, next
  <2> QED
    BY <2>2, <2>3
<1>5. CASE RequiredCheck \/ RequiredRegister
  <2>1. PICK stage \in {"checked", "required"} :
          /\ bindings' = [bindings EXCEPT !["default"].at = stage]
          /\ stage = "checked" => bindings["default"].at = "bound" /\ bindings["default"].value # Absent
          /\ stage = "required" => bindings["default"].at = "checked"
    BY <1>5 DEF RequiredCheck, RequiredRegister, Registers
  <2>2. bindings'["default"].at = stage /\ bindings'["default"].value = bindings["default"].value
        /\ bindings'["default"].missed = bindings["default"].missed
    BY <1>0, <1>1, <2>1 DEF Fields
  <2> QED
    BY <1>2, <2>1, <2>2 DEF LastInv, Held
<1>6. CASE Load \/ BarrierPassed \/ \E w \in 1..2 : WriteRows(w) \/ WriteSend(w)
  <2>1. bindings' = bindings
    BY <1>6 DEF Load, BarrierPassed, WriteRows, WriteSend
  <2> QED
    BY <1>2, <2>1, LastFrozen
<1> QED
  BY <1>3, <1>4, <1>5, <1>6 DEF ConfigNext

\* A step of the configuration, and those of the owners of bindings.
LEMMA ConfigSteps == ASSUME ConfigInv, ConfigNext PROVE ConfigInv'
<1>0. TreeInv /\ QueueInv /\ RegistryInv /\ CurrentInv /\ LastInv
  BY DEF ConfigInv
<1>1. CASE ApplyBatch
  BY <1>1, Applies
<1>2. CASE ~ApplyBatch
  <2>1. UNCHANGED <<tree, said>>
    BY <1>2 DEF ConfigNext, Load, BarrierPassed, RefreshAll, Refresh, RequiredCheck, RequiredRegister, Registers, WriteRows, WriteSend
  <2>2. TreeInv' /\ QueueInv'
    BY <1>0, <2>1, TreeFrozen, QueueStep
  <2>3. RegistryInv' /\ CurrentInv'
    <3>1. CASE RefreshAll
      BY <1>0, <3>1, RefreshesAll
    <3>2. CASE Refresh
      BY <1>0, <3>2, Refreshes
    <3>3. CASE RequiredCheck
      <4>1. "default" \in Bindings
        BY DEF Bindings, BindingPath
      <4> QED
        BY <1>0, <3>3, <4>1, StageMoves DEF RequiredCheck
    <3>4. CASE RequiredRegister
      <4>1. "default" \in Bindings
        BY DEF Bindings, BindingPath
      <4>2. registry' = Append(registry, [of |-> "default", gen |-> bindings["default"].gen, required |-> "required" = "required"])
        BY <3>4 DEF RequiredRegister, Registers
      <4> QED
        BY <1>0, <3>4, <4>1, <4>2, StageMoves DEF RequiredRegister, Registers
    <3>5. CASE Load \/ BarrierPassed \/ \E w \in 1..2 : WriteRows(w) \/ WriteSend(w)
      <4>1. UNCHANGED <<tree, processor, registry, bindings>>
        BY <3>5 DEF Load, BarrierPassed, WriteRows, WriteSend
      <4> QED
        BY <1>0, <4>1, RegistryFrozen
    <3> QED
      BY <1>2, <3>1, <3>2, <3>3, <3>4, <3>5 DEF ConfigNext
  <2>4. LastInv'
    BY <1>0, <1>2, LastMoves
  <2> QED
    BY <2>2, <2>3, <2>4 DEF ConfigInv
<1> QED
  BY <1>1, <1>2

\* What the owner of a binding does with it.
OwnerMoves(b) ==
  \/ BindRead(b) \/ BindRegister(b)
  \/ bindings' = Unbound(b) /\ UNCHANGED <<tree, said, table, channel, processor, building, registry, writers, last>>

\* A step of an owner of a binding.
LEMMA OwnersStep == ASSUME ConfigInv, NEW b \in Bindings, OwnerMoves(b) PROVE ConfigInv'
<1>0. TreeInv /\ QueueInv /\ RegistryInv /\ CurrentInv /\ LastInv
  BY DEF ConfigInv
<1>1. UNCHANGED <<tree, said, table, channel, processor, building, writers>>
  BY DEF OwnerMoves, BindRead, BindRegister, Registers
<1>2. TreeInv' /\ QueueInv'
  BY <1>0, <1>1, TreeFrozen, QueueStep
<1>3. RegistryInv' /\ CurrentInv'
  <2>1. CASE BindRead(b)
    BY <1>0, <2>1, BindReads
  <2>2. CASE BindRegister(b)
    <3>1. registry' = Append(registry, [of |-> b, gen |-> bindings[b].gen, required |-> "bound" = "required"])
      BY <2>2 DEF BindRegister, Registers
    <3> QED
      BY <1>0, <1>1, <2>2, <3>1, StageMoves DEF BindRegister, Registers
  <2>3. CASE bindings' = Unbound(b) /\ UNCHANGED <<tree, said, table, channel, processor, building, registry, writers, last>>
    BY <1>0, <2>3, Unbounds
  <2> QED
    BY <2>1, <2>2, <2>3 DEF OwnerMoves
<1>4. LastInv'
  <2>0. "default" \in Bindings
    BY DEF Bindings, BindingPath
  <2>1. DOMAIN bindings = Bindings /\ DOMAIN bindings[b] = Fields
    BY <1>0, RegistryParts DEF AsBinding
  <2>2. UNCHANGED <<tree, last>>
    BY DEF OwnerMoves, BindRead, BindRegister, Registers
  <2>3. CASE b # "default"
    <3>1. bindings'["default"] = bindings["default"]
      BY <2>0, <2>1, <2>3 DEF OwnerMoves, BindRead, BindRegister, Registers, Unbound
    <3> QED
      BY <1>0, <2>2, <3>1, LastFrozen
  <2>4. CASE b = "default"
    <3>1. CASE BindRead(b)
      <4>1. bindings'["default"] = [at |-> "read", value |-> Decode(tree, "default"), tick |-> 0,
                                    gen |-> bindings["default"].gen + 1, missed |-> FALSE]
        BY <2>0, <2>1, <2>4, <3>1 DEF BindRead
      <4>2. bindings'["default"].at = "read" /\ bindings'["default"].value = Decode(tree, "default")
        BY <4>1
      <4> QED
        BY <1>0, <2>2, <4>2 DEF LastInv
    <3>2. CASE BindRegister(b)
      <4>1. bindings' = [bindings EXCEPT !["default"].at = "bound"] /\ bindings["default"].at = "read"
        BY <2>4, <3>2 DEF BindRegister, Registers
      <4>2. bindings'["default"].at = "bound" /\ bindings'["default"].value = bindings["default"].value
            /\ bindings'["default"].missed = bindings["default"].missed
        BY <2>0, <2>1, <2>4, <4>1 DEF Fields
      <4> QED
        BY <1>0, <2>2, <4>1, <4>2 DEF LastInv, Held
    <3>3. CASE bindings' = Unbound(b)
      <4>1. bindings'["default"].at = "none"
        BY <2>0, <2>1, <2>4, <3>3 DEF Unbound, Fields
      <4> QED
        BY <1>0, <2>2, <4>1 DEF LastInv, Held
    <3> QED
      BY <3>1, <3>2, <3>3 DEF OwnerMoves
  <2> QED
    BY <2>3, <2>4
<1> QED
  BY <1>2, <1>3, <1>4 DEF ConfigInv

\* The configuration stays as it is.
LEMMA ConfigFrozen == ConfigInv /\ UNCHANGED configVars => ConfigInv'
<1> SUFFICES ASSUME ConfigInv, UNCHANGED configVars PROVE ConfigInv'
  OBVIOUS
<1>1. UNCHANGED <<tree, said>> /\ UNCHANGED <<table, channel, building, writers>> /\ UNCHANGED <<tree, processor, registry, bindings>>
      /\ UNCHANGED last
  BY DEF configVars
<1> QED
  BY <1>1, TreeFrozen, QueueStep, RegistryFrozen, LastFrozen DEF ConfigInv

\* At rest nothing is awaited, so what is bound is what the tree says.
LEMMA RestIsCurrent ==
  ASSUME ConfigInv, Resting, NEW b \in Bindings, IsBound(b), ~bindings[b].missed
  PROVE  HasCurrent(b)
<1>1. processor.todo = <<>> /\ processor.at # "applied"
  BY DEF ConfigInv, RegistryInv, Resting
<1>2. Range(<<>>) = {}
  BY EmptySeq DEF Range
<1> QED
  BY <1>1, <1>2 DEF ConfigInv, CurrentInv, Awaited

\* What the bindings promise, from what the configuration keeps.
LEMMA FollowsFromInv == ConfigInv => BindingsFollow
<1> SUFFICES ASSUME ConfigInv, Resting, NEW b \in Bindings,
                    bindings[b].at \in {"bound", "checked", "required"}, ~bindings[b].missed
             PROVE  \/ IsSaid(b, bindings[b].value)
                    \/ /\ bindings[b].at = "required" /\ SaidLeaf(Model("default")) = Absent
                       /\ bindings[b].value # Absent /\ bindings[b].value = last
  BY DEF BindingsFollow
<1>1. HasCurrent(b)
  BY RestIsCurrent DEF IsBound
<1>2. bindings[b].at = "required" => b = "default"
  BY DEF ConfigInv, RegistryInv
<1>3. IsSaid(b, Decode(tree, b)) /\ (b = "default" => Decode(tree, b) = SaidLeaf(Model("default")))
  BY DecodesSaid DEF ConfigInv
<1>4. bindings[b].at = "required" /\ Decode(tree, b) = Absent => bindings[b].value # Absent /\ bindings[b].value = last
  BY <1>2 DEF ConfigInv, LastInv, Held
<1> QED
  BY <1>1, <1>2, <1>3, <1>4 DEF HasCurrent

\* The configuration refreshes bindings, and moves no stage but that of the default one.
LEMMA ConfigKeeps ==
  ASSUME RegistryInv, ConfigNext, NEW b \in Bindings
  PROVE  /\ b # "default" => bindings'[b].at = bindings[b].at
         /\ bindings[b].tick \in Nat /\ bindings'[b].tick \in Nat
         /\ \/ bindings'[b].tick = bindings[b].tick /\ bindings'[b].value = bindings[b].value
            \/ bindings'[b].tick = bindings[b].tick + 1
<1>1. DOMAIN bindings = Bindings /\ (\A c \in Bindings : AsBinding(c)) /\ DOMAIN bindings[b] = Fields /\ bindings[b].tick \in Nat
  BY RegistryParts DEF AsBinding
<1>2. CASE RefreshAll
  BY <1>1, <1>2, RefreshAllOf
<1>3. CASE Refresh
  <2>1. PICK refresher : bindings' = RefreshFrom(refresher, Decode(tree, refresher.of))
    BY <1>3 DEF Refresh
  <2>2. PICK next, c, clears : bindings' = bindings
          \/ bindings' = [bindings EXCEPT ![c].value = next, ![c].tick = @ + 1, ![c].missed = clears]
    BY <2>1 DEF RefreshFrom
  <2>3. CASE bindings' = bindings
    BY <1>1, <2>3
  <2>4. CASE bindings' = [bindings EXCEPT ![c].value = next, ![c].tick = @ + 1, ![c].missed = clears]
    <3>1. CASE c = b
      BY <1>1, <2>4, <3>1 DEF Fields
    <3>2. CASE c # b
      BY <1>1, <2>4, <3>2
    <3> QED
      BY <3>1, <3>2
  <2> QED
    BY <2>2, <2>3, <2>4
<1>4. CASE RequiredCheck \/ RequiredRegister
  <2>1. PICK stage : bindings' = [bindings EXCEPT !["default"].at = stage]
    BY <1>4 DEF RequiredCheck, RequiredRegister, Registers
  <2> QED
    BY <1>1, <2>1 DEF Fields
<1>5. CASE ~(RefreshAll \/ Refresh \/ RequiredCheck \/ RequiredRegister)
  <2>1. bindings' = bindings
    BY <1>5 DEF ConfigNext, Load, BarrierPassed, ApplyBatch, WriteRows, WriteSend
  <2> QED
    BY <1>1, <2>1
<1> QED
  BY <1>2, <1>3, <1>4, <1>5

\* The bindings there are.
LEMMA FourBindings == Bindings = {"keys", "entry", "models", "default"}
BY DEF Bindings, BindingPath

\* The cache is new and nothing calls it.
LEMMA CacheInitial == ProvidersInit => CacheType /\ CacheHolds /\ QuietInv
<1> SUFFICES ASSUME ProvidersInit PROVE CacheType /\ CacheHolds /\ QuietInv
  OBVIOUS
<1>1. cache = [fired |-> TRUE, seen |-> 0, keys |-> {}, filled |-> FALSE, entry |-> NoEntry] /\ call = NoCall
  BY DEF ProvidersInit, CacheInit
<1>2. \A b \in Bindings : bindings[b].at = "none" /\ bindings[b].tick = 0
  BY DEF ProvidersInit, ConfigInit, NoBinding
<1>3. call.at = "idle" /\ DOMAIN call = {"at", "name", "model", "provider", "quiet"}
  BY <1>1 DEF NoCall
<1>4. cache.fired /\ ~cache.filled /\ cache.seen = 0 /\ cache.entry = NoEntry
      /\ DOMAIN cache = {"fired", "seen", "keys", "filled", "entry"}
  BY <1>1
<1>5. NoEntry.seen = 0 /\ DOMAIN NoEntry = {"provider", "seen", "stale", "listed"}
  BY DEF NoEntry
<1>6. CacheType
  BY <1>3, <1>4, <1>5 DEF CacheType, Calls
<1>7. CacheHolds
  BY <1>2, <1>3, <1>4, FourBindings DEF CacheHolds, IdsKnown
<1>8. QuietInv
  BY <1>3 DEF QuietInv
<1> QED
  BY <1>6, <1>7, <1>8

\* The configuration moves on under a call.
LEMMA CacheConfig ==
  ASSUME RegistryInv, CacheType, CacheHolds, ConfigMoves
  PROVE  CacheType' /\ CacheHolds' /\ QuietInv'
<1>1. cache' = cache /\ ConfigNext /\ call' = [call EXCEPT !.quiet = FALSE]
  BY DEF ConfigMoves
<1>2. call'.at = call.at /\ ~call'.quiet /\ DOMAIN call' = DOMAIN call
  BY <1>1 DEF CacheType
<1>3. CacheType'
  BY <1>1, <1>2 DEF CacheType
<1>4. QuietInv'
  BY <1>2 DEF QuietInv
<1>5. ASSUME NEW b \in {"keys", "entry", "models"}
      PROVE  /\ bindings'[b].at = bindings[b].at /\ bindings[b].tick \in Nat /\ bindings'[b].tick \in Nat
             /\ \/ bindings'[b].tick = bindings[b].tick /\ bindings'[b].value = bindings[b].value
                \/ bindings'[b].tick = bindings[b].tick + 1
  BY <1>1, FourBindings, ConfigKeeps
<1>6. cache.seen <= bindings'["keys"].tick /\ IdsKnown'
  <2>1. cache.seen \in Nat /\ cache.seen <= bindings["keys"].tick /\ IdsKnown
    BY DEF CacheType, CacheHolds
  <2>2. CASE bindings'["keys"].tick = bindings["keys"].tick /\ bindings'["keys"].value = bindings["keys"].value
    BY <1>1, <2>1, <2>2 DEF IdsKnown, IdSet
  <2>3. CASE bindings'["keys"].tick = bindings["keys"].tick + 1
    <3>1. cache.seen < bindings'["keys"].tick
      BY <1>5, <2>1, <2>3
    <3>2. cache'.seen # bindings'["keys"].tick /\ cache.seen <= bindings'["keys"].tick
      BY <1>1, <1>5, <2>1, <3>1
    <3> QED
      BY <3>2 DEF IdsKnown
  <2> QED
    BY <1>5, <2>2, <2>3
<1>7. ASSUME cache.filled PROVE cache.entry.seen <= bindings'["entry"].tick /\ EntryKnown'
  <2>1. cache.entry.seen \in Nat /\ cache.entry.seen <= bindings["entry"].tick /\ EntryKnown
    BY <1>7 DEF CacheType, CacheHolds
  <2>2. CASE bindings'["entry"].tick = bindings["entry"].tick /\ bindings'["entry"].value = bindings["entry"].value
    BY <1>1, <1>2, <2>1, <2>2 DEF EntryKnown
  <2>3. CASE bindings'["entry"].tick = bindings["entry"].tick + 1
    <3>1. cache.entry.seen < bindings'["entry"].tick
      BY <1>5, <2>1, <2>3
    <3>2. cache'.entry.seen # bindings'["entry"].tick /\ cache.entry.seen <= bindings'["entry"].tick
      BY <1>1, <1>5, <2>1, <3>1
    <3> QED
      BY <3>2 DEF EntryKnown
  <2> QED
    BY <1>5, <2>2, <2>3
<1>8. CacheHolds'
  BY <1>1, <1>2, <1>5, <1>6, <1>7 DEF CacheHolds
<1> QED
  BY <1>3, <1>4, <1>8

\* What Session::create binds.
LEMMA CacheCreates ==
  ASSUME RegistryInv, CacheType, CacheHolds, QuietInv, Bind \/ Register
  PROVE  CacheType' /\ CacheHolds' /\ QuietInv'
<1>0. DOMAIN bindings = Bindings /\ \A b \in Bindings : AsBinding(b)
  BY RegistryParts
<1>1. UNCHANGED <<cache, call, tree, processor, channel>>
  BY DEF Bind, Register, BindRead, BindRegister, Registers, cacheVars
<1>2. PICK b \in {"default", "keys", "models"} :
        \/ bindings[b].at = "none" /\ BindRead(b) /\ (b = "models" => bindings["keys"].at = "bound")
        \/ BindRegister(b)
  <2>1. CASE Bind
    <3>1. PICK k \in DOMAIN CreationOrder :
            /\ \A j \in 1..(k - 1) : bindings[CreationOrder[j]].at = IF j = 1 THEN "required" ELSE "bound"
            /\ BindRead(CreationOrder[k])
      BY <2>1 DEF Bind
    <3>2. DOMAIN CreationOrder = {1, 2, 3} /\ CreationOrder[1] = "default" /\ CreationOrder[2] = "keys" /\ CreationOrder[3] = "models"
      BY DEF CreationOrder
    <3>3. k = 3 => bindings["keys"].at = "bound"
      <4>1. ASSUME k = 3 PROVE 2 \in 1..(k - 1)
        BY <4>1
      <4> QED
        BY <3>1, <3>2, <4>1
    <3> QED
      BY <3>1, <3>2, <3>3 DEF BindRead
  <2>2. CASE Register
    BY <2>2 DEF Register
  <2> QED
    BY <2>1, <2>2
<1>3. b \in Bindings /\ bindings' = [bindings EXCEPT ![b] = bindings'[b]] /\ \A c \in Bindings \ {b} : bindings'[c] = bindings[c]
  BY <1>0, <1>2, FourBindings DEF BindRead, BindRegister, Registers
<1>4. \/ /\ bindings[b].at = "none" /\ bindings'[b].at = "read" /\ bindings'[b].tick = 0
         /\ b = "models" => bindings["keys"].at = "bound"
      \/ /\ bindings[b].at = "read" /\ bindings'[b].at = "bound" /\ bindings'[b].tick = bindings[b].tick
         /\ bindings'[b].value = bindings[b].value
  <2>1. CASE bindings[b].at = "none" /\ BindRead(b) /\ (b = "models" => bindings["keys"].at = "bound")
    <3>1. bindings'[b] = [at |-> "read", value |-> Decode(tree, b), tick |-> 0, gen |-> bindings[b].gen + 1, missed |-> FALSE]
      BY <1>0, <1>3, <2>1 DEF BindRead
    <3> QED
      BY <2>1, <3>1
  <2>2. CASE BindRegister(b)
    <3>1. DOMAIN bindings[b] = Fields /\ bindings' = [bindings EXCEPT ![b].at = "bound"] /\ bindings[b].at = "read"
      BY <1>0, <1>3, <2>2 DEF BindRegister, Registers, AsBinding
    <3> QED
      BY <1>0, <1>3, <3>1 DEF Fields
  <2> QED
    BY <1>2, <2>1, <2>2
<1>5. b = "keys" => call.at = "idle"
  BY <1>4 DEF CacheHolds
<1>6. bindings'["entry"] = bindings["entry"] /\ (b # "keys" => bindings'["keys"] = bindings["keys"])
  BY <1>2, <1>3, FourBindings
<1>7. CacheType'
  BY <1>1 DEF CacheType
<1>8. CacheHolds'
  <2>1. cache.seen <= bindings'["keys"].tick /\ IdsKnown'
    <3>1. CASE b = "keys"
      <4>1. cache.fired /\ cache.seen = 0
        BY <1>5, <3>1 DEF CacheHolds
      <4>2. bindings'["keys"].tick \in Nat
        BY <1>0, <1>3, <1>4, <3>1 DEF AsBinding
      <4> QED
        BY <1>1, <4>1, <4>2 DEF IdsKnown
    <3>2. CASE b # "keys"
      BY <1>1, <1>6, <3>2 DEF CacheHolds, IdsKnown, IdSet
    <3> QED
      BY <3>1, <3>2
  <2>2. bindings'["models"].at \in {"read", "bound"} \/ call.at # "idle" => bindings'["keys"].at = "bound"
    <3>1. CASE b = "keys"
      <4>1. bindings'["models"] = bindings["models"] /\ bindings["keys"].at # "bound"
        BY <1>3, <1>4, <3>1, FourBindings
      <4> QED
        BY <1>5, <3>1, <4>1 DEF CacheHolds
    <3>2. CASE b = "models"
      BY <1>4, <1>6, <3>2 DEF CacheHolds
    <3>3. CASE b = "default"
      <4>1. bindings'["models"] = bindings["models"]
        BY <1>3, <3>3, FourBindings
      <4> QED
        BY <1>6, <3>3, <4>1 DEF CacheHolds
    <3> QED
      BY <3>1, <3>2, <3>3
  <2>3. cache.filled => EntryKnown'
    BY <1>1, <1>6 DEF CacheHolds, EntryKnown
  <2> QED
    BY <1>1, <1>6, <2>1, <2>2, <2>3 DEF CacheHolds
<1>9. QuietInv'
  <2>1. ASSUME call.quiet, call.at # "idle" PROVE QuietInv'
    <3>1. bindings'["keys"] = bindings["keys"]
      BY <1>5, <1>6, <2>1
    <3>2. Resting' <=> Resting
      BY <1>1 DEF Resting
    <3>3. IdSet' = IdSet
      BY <3>1 DEF IdSet
    <3>4. RightProvider => RightProvider'
      BY <1>1, <1>6, <3>1, <3>3 DEF RightProvider
    <3> QED
      BY <1>1, <1>6, <2>1, <3>2, <3>3, <3>4 DEF QuietInv
  <2> QED
    BY <1>1, <2>1 DEF QuietInv
<1> QED
  BY <1>7, <1>8, <1>9

\* What each action of a completion leaves alone.
LEMMA CacheShapes ==
  CacheType =>
    /\ DOMAIN cache = {"fired", "seen", "keys", "filled", "entry"} /\ cache.seen \in Nat
    /\ DOMAIN cache.entry = {"provider", "seen", "stale", "listed"} /\ cache.entry.seen \in Nat
    /\ DOMAIN call = {"at", "name", "model", "provider", "quiet"} /\ call.at \in Calls
BY DEF CacheType

\* The ticks that the cache compares are numbers.
LEMMA TicksType == ASSUME RegistryInv PROVE bindings["keys"].tick \in Nat /\ bindings["entry"].tick \in Nat
<1>1. AsBinding("keys") /\ AsBinding("entry")
  BY RegistryParts, FourBindings
<1> QED
  BY <1>1 DEF AsBinding

\* A quiet call sees the provider's entry as it is.
LEMMA EntryIsCurrent ==
  ASSUME ConfigInv, Resting, bindings["entry"].at = "bound", ~bindings["entry"].missed
  PROVE  bindings["entry"].value = Decode(tree, "entry")
BY RestIsCurrent, FourBindings DEF IsBound, HasCurrent

\* The manager resolves the model.
LEMMA CacheResolves ==
  ASSUME CacheType, CacheHolds, QuietInv, Complete \/ ModelFor
  PROVE  CacheType' /\ CacheHolds' /\ QuietInv'
<1>1. UNCHANGED <<configVars, cache>>
  BY DEF Complete, ModelFor, ConfigStays
<1>2. /\ call'.at \in {"model", "drain"} /\ DOMAIN call' = {"at", "name", "model", "provider", "quiet"}
      /\ call'.quiet => Resting
      /\ bindings["keys"].at = "bound"
  <2>1. CASE Complete
    <3>1. PICK name : call' = [NoCall EXCEPT !.at = "model", !.quiet = Resting /\ writers = [w \in 1..2 |-> <<>>], !.name = name]
      BY <2>1 DEF Complete
    <3>2. call'.at = "model" /\ call'.quiet = (Resting /\ writers = [w \in 1..2 |-> <<>>])
          /\ DOMAIN call' = {"at", "name", "model", "provider", "quiet"}
      BY <3>1 DEF NoCall
    <3>3. bindings["keys"].at = "bound"
      BY <2>1 DEF Complete, Created, CacheHolds
    <3> QED
      BY <3>2, <3>3
  <2>2. CASE ModelFor
    <3>1. PICK model : call' = [call EXCEPT !.at = "drain", !.model = model]
      BY <2>2 DEF ModelFor
    <3>2. call'.at = "drain" /\ call'.quiet = call.quiet /\ DOMAIN call' = DOMAIN call
      BY <3>1, CacheShapes
    <3> QED
      BY <2>2, <3>2, CacheShapes DEF ModelFor, CacheHolds, QuietInv
  <2> QED
    BY <2>1, <2>2
<1>3. CacheType'
  BY <1>1, <1>2 DEF CacheType, Calls
<1>4. UNCHANGED bindings /\ (Resting' <=> Resting)
  BY <1>1 DEF configVars, Resting
<1>5. IdsKnown' <=> IdsKnown
  BY <1>1, <1>4 DEF IdsKnown, IdSet
<1>6. cache.filled => EntryKnown'
  <2>1. call.at # "rebuild"
    BY DEF Complete, ModelFor
  <2> QED
    BY <1>1, <1>4, <2>1 DEF EntryKnown, CacheHolds
<1>8. CacheHolds'
  BY <1>1, <1>2, <1>4, <1>5, <1>6 DEF CacheHolds
<1>9. QuietInv'
  BY <1>1, <1>2, <1>4 DEF QuietInv
<1> QED
  BY <1>3, <1>8, <1>9

\* The cache looks at the stream of ids.
LEMMA CacheDrainsIds ==
  ASSUME RegistryInv, CacheType, CacheHolds, QuietInv, DrainIds
  PROVE  CacheType' /\ CacheHolds' /\ QuietInv'
<1>1. UNCHANGED configVars /\ call.at = "drain" /\ UNCHANGED bindings /\ (Resting' <=> Resting)
  BY DEF DrainIds, ConfigStays, configVars, Resting
<1>2. call'.at = "ids" /\ call'.quiet = call.quiet /\ DOMAIN call' = DOMAIN call
  BY CacheShapes DEF DrainIds, Steps
<1>3. cache' = [cache EXCEPT !.fired = @ \/ bindings["keys"].tick > cache.seen, !.seen = bindings["keys"].tick]
  BY DEF DrainIds
<1>4. /\ cache'.fired = (cache.fired \/ bindings["keys"].tick > cache.seen)
      /\ cache'.seen = bindings["keys"].tick /\ cache'.keys = cache.keys /\ cache'.filled = cache.filled
      /\ cache'.entry = cache.entry /\ DOMAIN cache' = DOMAIN cache
  BY <1>3, CacheShapes
<1>5. bindings["keys"].tick \in Nat /\ cache.seen \in Nat /\ cache.seen <= bindings["keys"].tick /\ IdsKnown
  BY TicksType, CacheShapes DEF CacheHolds
<1>6. CacheType'
  BY <1>2, <1>4, <1>5 DEF CacheType, Calls
<1>7. cache'.fired \/ cache.keys = IdSet
  <2>1. CASE cache.fired \/ bindings["keys"].tick > cache.seen
    BY <1>4, <2>1
  <2>2. CASE ~cache.fired /\ ~(bindings["keys"].tick > cache.seen)
    <3>1. cache.seen = bindings["keys"].tick
      BY <1>5, <2>2
    <3> QED
      BY <1>5, <2>2, <3>1 DEF IdsKnown
  <2> QED
    BY <2>1, <2>2
<1>8. IdSet' = IdSet
  BY <1>1 DEF IdSet
<1>9. CacheHolds'
  <2>1. IdsKnown'
    BY <1>4, <1>7, <1>8 DEF IdsKnown
  <2>2. cache.filled => EntryKnown'
    BY <1>1, <1>2, <1>4 DEF EntryKnown, CacheHolds
  <2>3. cache'.seen <= bindings'["keys"].tick
    BY <1>1, <1>4, <1>5
  <2> QED
    BY <1>1, <1>2, <1>4, <2>1, <2>2, <2>3 DEF CacheHolds
<1>10. QuietInv'
  BY <1>1, <1>2, <1>4, <1>7, <1>8 DEF QuietInv
<1> QED
  BY <1>6, <1>9, <1>10

\* It forgets what is gone.
LEMMA CacheForgets ==
  ASSUME RegistryInv, CacheType, CacheHolds, QuietInv, RefreshIdSet
  PROVE  CacheType' /\ CacheHolds' /\ QuietInv'
<1>1. call.at = "ids" /\ UNCHANGED <<tree, processor, channel>> /\ (Resting' <=> Resting) /\ bindings["keys"].at = "bound"
  BY DEF RefreshIdSet, Resting, CacheHolds
<1>2. call'.at = "entry" /\ call'.quiet = call.quiet /\ DOMAIN call' = DOMAIN call
  BY CacheShapes DEF RefreshIdSet, Steps
<1>3. \/ ~cache.fired /\ cache' = cache
      \/ /\ ~cache'.fired /\ cache'.keys = IdSet /\ cache'.seen = cache.seen /\ DOMAIN cache' = DOMAIN cache
         /\ cache'.filled <=> cache.filled /\ "a" \notin cache.keys \ IdSet
         /\ DOMAIN cache'.entry = DOMAIN cache.entry /\ cache'.entry.seen = cache.entry.seen
         /\ cache'.entry.provider = cache.entry.provider /\ cache'.entry.stale = cache.entry.stale
         /\ cache'.entry.listed <=> cache.entry.listed \/ "a" \in IdSet
  <2>1. CASE ~cache.fired
    BY <2>1 DEF RefreshIdSet
  <2>2. CASE cache.fired
    <3>1. cache' = [cache EXCEPT !.fired = FALSE, !.keys = IdSet,
                      !.filled = @ /\ "a" \notin cache.keys \ IdSet, !.entry.listed = @ \/ "a" \in IdSet]
      BY <2>2 DEF RefreshIdSet, Forget
    <3>2. /\ cache'.fired = FALSE /\ cache'.keys = IdSet /\ cache'.seen = cache.seen /\ DOMAIN cache' = DOMAIN cache
          /\ cache'.entry = [cache.entry EXCEPT !.listed = @ \/ "a" \in IdSet]
      BY <3>1, CacheShapes
    <3>3. cache'.filled = (cache.filled /\ "a" \notin cache.keys \ IdSet)
      BY <3>1, CacheShapes
    <3>4. /\ DOMAIN cache'.entry = DOMAIN cache.entry /\ cache'.entry.seen = cache.entry.seen
          /\ cache'.entry.provider = cache.entry.provider /\ cache'.entry.stale = cache.entry.stale
          /\ cache'.entry.listed = (cache.entry.listed \/ "a" \in IdSet)
      BY <3>2, CacheShapes
    <3> QED
      BY <3>2, <3>3, <3>4
  <2> QED
    BY <2>1, <2>2
<1>4. /\ bindings'["keys"] = bindings["keys"] /\ bindings'["models"] = bindings["models"]
      /\ cache'.filled => bindings' = bindings /\ cache.filled
  <2>1. bindings' = IF cache.filled /\ ~cache'.filled THEN Unbound("entry") ELSE bindings
    BY DEF RefreshIdSet
  <2>2. Unbound("entry")["keys"] = bindings["keys"] /\ Unbound("entry")["models"] = bindings["models"]
    BY FourBindings, RegistryParts DEF Unbound
  <2>3. cache'.filled => cache.filled
    BY <1>3
  <2> QED
    BY <2>1, <2>2, <2>3
<1>5. IdSet' = IdSet
  BY <1>4 DEF IdSet
<1>6. CacheType'
  BY <1>2, <1>3, CacheShapes DEF CacheType, Calls
<1>7. cache'.filled => cache'.entry.seen <= bindings'["entry"].tick /\ bindings'["entry"].at = "bound" /\ EntryKnown'
  <2>1. ASSUME cache'.filled
        PROVE  /\ bindings' = bindings /\ cache'.entry.seen = cache.entry.seen /\ cache'.entry.provider = cache.entry.provider
               /\ cache'.entry.stale <=> cache.entry.stale
               /\ cache.entry.seen <= bindings["entry"].tick /\ bindings["entry"].at = "bound" /\ EntryKnown
    BY <1>3, <1>4, <2>1 DEF CacheHolds
  <2> QED
    BY <1>1, <1>2, <2>1 DEF EntryKnown
<1>8. cache'.filled => (cache'.entry.listed => "a" \in cache'.keys)
  BY <1>3, <1>4 DEF CacheHolds
<1>9. cache'.seen <= bindings'["keys"].tick /\ IdsKnown'
  <2>1. cache'.seen = cache.seen
    BY <1>3
  <2>2. CASE cache' = cache
    BY <1>4, <1>5, <2>2 DEF CacheHolds, IdsKnown
  <2>3. CASE cache'.keys = IdSet
    BY <1>4, <1>5, <2>1, <2>3 DEF CacheHolds, IdsKnown
  <2> QED
    BY <1>3, <2>2, <2>3
<1>10. CacheHolds'
  BY <1>1, <1>2, <1>4, <1>7, <1>8, <1>9 DEF CacheHolds
<1>11. QuietInv'
  BY <1>1, <1>2, <1>3, <1>5 DEF QuietInv
<1> QED
  BY <1>6, <1>10, <1>11

\* An entry looks at its stream.
LEMMA CacheDrainsEntry ==
  ASSUME ConfigInv, CacheType, CacheHolds, QuietInv, DrainEntry
  PROVE  CacheType' /\ CacheHolds' /\ QuietInv'
<1>1. UNCHANGED configVars /\ call.at = "entry" /\ cache.filled /\ UNCHANGED bindings /\ UNCHANGED tree /\ (Resting' <=> Resting)
  BY DEF DrainEntry, ConfigStays, configVars, Resting
<1>2. IdSet' = IdSet
  BY <1>1 DEF IdSet
<1>3. /\ bindings["entry"].tick \in Nat /\ cache.entry.seen \in Nat /\ cache.entry.seen <= bindings["entry"].tick
      /\ bindings["entry"].at = "bound" /\ EntryKnown /\ IdsKnown /\ (cache.entry.listed => "a" \in cache.keys)
  BY <1>1, TicksType, CacheShapes DEF CacheHolds, ConfigInv
<1>4. CASE bindings["entry"].tick > cache.entry.seen
  <2>1. cache' = [cache EXCEPT !.entry.seen = bindings["entry"].tick] /\ call' = [call EXCEPT !.at = "rebuild"]
    BY <1>4 DEF DrainEntry, Steps
  <2>2. call'.at = "rebuild" /\ call'.quiet = call.quiet /\ DOMAIN call' = DOMAIN call
    BY <2>1, CacheShapes
  <2>3. /\ cache'.fired = cache.fired /\ cache'.seen = cache.seen /\ cache'.keys = cache.keys /\ cache'.filled = cache.filled
        /\ DOMAIN cache' = DOMAIN cache /\ cache'.entry = [cache.entry EXCEPT !.seen = bindings["entry"].tick]
    BY <2>1, CacheShapes
  <2>4. /\ cache'.entry.seen = bindings["entry"].tick /\ cache'.entry.listed = cache.entry.listed
        /\ DOMAIN cache'.entry = DOMAIN cache.entry
    BY <2>3, CacheShapes
  <2>5. CacheType'
    BY <1>3, <2>2, <2>3, <2>4, CacheShapes DEF CacheType, Calls
  <2>6. IdsKnown' /\ EntryKnown'
    BY <1>1, <1>2, <1>3, <2>2, <2>3 DEF IdsKnown, EntryKnown
  <2>7. cache'.entry.seen <= bindings'["entry"].tick
    BY <1>1, <1>3, <2>4
  <2>8. CacheHolds'
    BY <1>1, <1>3, <2>2, <2>3, <2>4, <2>6, <2>7 DEF CacheHolds
  <2>9. QuietInv'
    BY <1>1, <1>2, <2>2, <2>3 DEF QuietInv
  <2> QED
    BY <2>5, <2>8, <2>9
<1>5. CASE ~(bindings["entry"].tick > cache.entry.seen)
  <2>1. cache' = cache /\ call' = [call EXCEPT !.at = "returned", !.provider = cache.entry.provider]
    BY <1>5 DEF DrainEntry, Returns
  <2>2. call'.at = "returned" /\ call'.quiet = call.quiet /\ call'.provider = cache.entry.provider /\ DOMAIN call' = DOMAIN call
    BY <2>1, CacheShapes
  <2>3. CacheType'
    BY <2>1, <2>2 DEF CacheType, Calls
  <2>4. CacheHolds'
    BY <1>1, <1>2, <1>3, <2>1, <2>2 DEF CacheHolds, IdsKnown, EntryKnown
  <2>5. cache.entry.seen = bindings["entry"].tick
    BY <1>3, <1>5
  <2>6. ASSUME call.quiet PROVE RightProvider' /\ Resting /\ cache.keys = IdSet
    <3>1. Resting /\ cache.keys = IdSet
      BY <1>1, <2>6 DEF QuietInv
    <3>2. ASSUME ~bindings["entry"].missed, ~cache.entry.stale, Decode(tree, "entry") # Absent
          PROVE  cache.entry.provider = Decode(tree, "entry")
      <4>1. bindings["entry"].value = Decode(tree, "entry")
        BY <1>3, <3>1, <3>2, EntryIsCurrent
      <4> QED
        BY <1>1, <1>3, <2>5, <3>2, <4>1 DEF EntryKnown
    <3> QED
      BY <1>1, <1>2, <1>3, <2>1, <2>2, <3>1, <3>2 DEF RightProvider
  <2>7. QuietInv'
    BY <1>1, <1>2, <2>1, <2>2, <2>6 DEF QuietInv
  <2> QED
    BY <2>3, <2>4, <2>7
<1> QED
  BY <1>4, <1>5

\* An entry is built anew, or keeps its provider.
LEMMA CacheRebuilds ==
  ASSUME ConfigInv, CacheType, CacheHolds, QuietInv, Rebuild
  PROVE  CacheType' /\ CacheHolds' /\ QuietInv'
<1>1. UNCHANGED configVars /\ call.at = "rebuild" /\ UNCHANGED bindings /\ UNCHANGED tree /\ (Resting' <=> Resting)
  BY DEF Rebuild, ConfigStays, configVars, Resting
<1>2. IdSet' = IdSet
  BY <1>1 DEF IdSet
<1>3. PICK provider :
        /\ provider = IF bindings["entry"].value = Absent THEN cache.entry.provider ELSE bindings["entry"].value
        /\ cache' = [cache EXCEPT !.entry.provider = provider, !.entry.stale = FALSE]
        /\ call' = [call EXCEPT !.at = "returned", !.provider = provider]
  BY DEF Rebuild, Returns
<1>4. /\ cache.filled /\ cache.entry.seen <= bindings["entry"].tick /\ bindings["entry"].at = "bound" /\ IdsKnown
      /\ cache.entry.listed => "a" \in cache.keys
  BY <1>1 DEF CacheHolds
<1>5. call'.at = "returned" /\ call'.quiet = call.quiet /\ call'.provider = provider /\ DOMAIN call' = DOMAIN call
  BY <1>3, CacheShapes
<1>6. /\ cache'.fired = cache.fired /\ cache'.seen = cache.seen /\ cache'.keys = cache.keys /\ cache'.filled = cache.filled
      /\ DOMAIN cache' = DOMAIN cache
      /\ DOMAIN cache'.entry = DOMAIN cache.entry /\ cache'.entry.provider = provider
      /\ cache'.entry.seen = cache.entry.seen /\ cache'.entry.listed = cache.entry.listed
  BY <1>3, CacheShapes
<1>7. CacheType'
  BY <1>5, <1>6, CacheShapes DEF CacheType, Calls
<1>8. CacheHolds'
  <2>1. IdsKnown'
    BY <1>1, <1>2, <1>4, <1>6 DEF IdsKnown
  <2>2. EntryKnown'
    BY <1>1, <1>3, <1>6 DEF EntryKnown
  <2> QED
    BY <1>1, <1>4, <1>5, <1>6, <2>1, <2>2 DEF CacheHolds
<1>9. ASSUME call.quiet PROVE RightProvider' /\ Resting /\ cache.keys = IdSet
  <2>1. Resting /\ cache.keys = IdSet
    BY <1>1, <1>9 DEF QuietInv
  <2>2. ASSUME ~bindings["entry"].missed, Decode(tree, "entry") # Absent PROVE provider = Decode(tree, "entry")
    BY <1>3, <1>4, <2>1, <2>2, EntryIsCurrent
  <2> QED
    BY <1>1, <1>2, <1>4, <1>5, <1>6, <2>1, <2>2 DEF RightProvider
<1>10. QuietInv'
  BY <1>1, <1>2, <1>5, <1>6, <1>9 DEF QuietInv
<1> QED
  BY <1>7, <1>8, <1>10

\* Without an entry its configuration is read, and registered.
LEMMA CacheBinds ==
  ASSUME ConfigInv, CacheType, CacheHolds, QuietInv, BindEntry \/ RegisterEntry
  PROVE  CacheType' /\ CacheHolds' /\ QuietInv'
<1>1. /\ cache' = cache /\ UNCHANGED <<tree, processor, channel>> /\ (Resting' <=> Resting)
      /\ call.at \in {"entry", "register"} /\ ~cache.filled
  BY DEF BindEntry, RegisterEntry, BindRead, BindRegister, Registers, configVars, Resting, CacheHolds
<1>2. DOMAIN bindings = Bindings /\ \A b \in Bindings : AsBinding(b)
  BY RegistryParts DEF ConfigInv
<1>3. bindings'["keys"] = bindings["keys"] /\ bindings'["models"] = bindings["models"]
  <2>1. CASE BindEntry
    BY <1>2, <2>1, FourBindings DEF BindEntry, BindRead, configVars
  <2>2. CASE RegisterEntry
    BY <1>2, <2>2, FourBindings DEF RegisterEntry, BindRegister, Registers
  <2> QED
    BY <2>1, <2>2
<1>4. IdSet' = IdSet
  BY <1>3 DEF IdSet
<1>5. IdsKnown' /\ cache'.seen <= bindings'["keys"].tick
  BY <1>1, <1>3, <1>4 DEF IdsKnown, CacheHolds
<1>6. \/ /\ call'.at = "returned" /\ call'.provider = Absent /\ Decode(tree, "entry") = Absent
      \/ call'.at = "register" /\ bindings'["entry"].at = "read"
      \/ call'.at = "build" /\ bindings'["entry"].at = "bound"
  <2>1. CASE BindEntry /\ Undecodable(tree, "entry")
    <3>1. call' = [call EXCEPT !.at = "returned", !.provider = Absent]
      BY <2>1 DEF BindEntry, Returns
    <3> QED
      BY <2>1, <3>1, CacheShapes DEF Undecodable
  <2>2. CASE BindEntry /\ ~Undecodable(tree, "entry")
    <3>1. call' = [call EXCEPT !.at = "register"] /\ BindRead("entry")
      BY <2>2 DEF BindEntry, Steps
    <3>2. bindings'["entry"] = [at |-> "read", value |-> Decode(tree, "entry"), tick |-> 0, gen |-> bindings["entry"].gen + 1, missed |-> FALSE]
      BY <1>2, <3>1, FourBindings DEF BindRead
    <3> QED
      BY <3>1, <3>2, CacheShapes
  <2>3. CASE RegisterEntry
    <3>1. call' = [call EXCEPT !.at = "build"] /\ bindings' = [bindings EXCEPT !["entry"].at = "bound"]
      BY <2>3 DEF RegisterEntry, Steps, BindRegister, Registers
    <3>2. DOMAIN bindings["entry"] = Fields /\ "entry" \in DOMAIN bindings
      BY <1>2, FourBindings DEF AsBinding
    <3> QED
      BY <3>1, <3>2, CacheShapes DEF Fields
  <2> QED
    BY <2>1, <2>2, <2>3
<1>7. call'.quiet = call.quiet /\ DOMAIN call' = DOMAIN call
  BY CacheShapes DEF BindEntry, RegisterEntry, Returns, Steps
<1>8. CacheType'
  BY <1>1, <1>6, <1>7 DEF CacheType, Calls
<1>9. CacheHolds'
  BY <1>1, <1>3, <1>5, <1>6 DEF CacheHolds
<1>10. QuietInv'
  <2>1. ASSUME call.quiet PROVE Resting /\ cache.keys = IdSet
    BY <1>1, <2>1 DEF QuietInv
  <2>2. ASSUME call.quiet, call'.at = "returned" PROVE RightProvider'
    <3>1. call'.provider = Absent /\ Decode(tree, "entry") = Absent
      BY <1>6, <2>2
    <3> QED
      BY <1>1, <1>4, <3>1 DEF RightProvider
  <2> QED
    BY <1>1, <1>4, <1>6, <1>7, <2>1, <2>2 DEF QuietInv
<1> QED
  BY <1>8, <1>9, <1>10

\* A provider is built.
LEMMA CacheBuilds ==
  ASSUME ConfigInv, CacheType, CacheHolds, QuietInv, BuildEntry
  PROVE  CacheType' /\ CacheHolds' /\ QuietInv'
<1>1. /\ UNCHANGED <<tree, processor, channel>> /\ (Resting' <=> Resting) /\ call.at = "build"
      /\ ~cache.filled /\ bindings["entry"].at = "bound" /\ IdsKnown
  BY DEF BuildEntry, Resting, CacheHolds
<1>2. CASE bindings["entry"].value = Absent
  <2>1. bindings' = Unbound("entry") /\ cache' = cache /\ call' = [call EXCEPT !.at = "returned", !.provider = Absent]
    BY <1>2 DEF BuildEntry, Returns
  <2>2. DOMAIN bindings = Bindings /\ AsBinding("entry")
    BY RegistryParts, FourBindings DEF ConfigInv
  <2>3. /\ bindings'["keys"] = bindings["keys"] /\ bindings'["models"] = bindings["models"]
        /\ bindings'["entry"].missed = bindings["entry"].missed
    BY <2>1, <2>2, FourBindings DEF Unbound, AsBinding, Fields
  <2>4. call'.at = "returned" /\ call'.quiet = call.quiet /\ call'.provider = Absent /\ DOMAIN call' = DOMAIN call
    BY <2>1, CacheShapes
  <2>5. IdSet' = IdSet
    BY <2>3 DEF IdSet
  <2>6. CacheType'
    BY <2>1, <2>4 DEF CacheType, Calls
  <2>7. CacheHolds'
    BY <1>1, <2>1, <2>3, <2>4, <2>5 DEF CacheHolds, IdsKnown
  <2>8. ASSUME call.quiet PROVE Resting /\ cache.keys = IdSet /\ RightProvider'
    <3>1. Resting /\ cache.keys = IdSet
      BY <1>1, <2>8 DEF QuietInv
    <3>2. ~bindings["entry"].missed => Decode(tree, "entry") = Absent
      BY <1>1, <1>2, <3>1, EntryIsCurrent
    <3> QED
      BY <1>1, <2>1, <2>3, <2>4, <2>5, <3>1, <3>2 DEF RightProvider
  <2>9. QuietInv'
    BY <1>1, <2>1, <2>4, <2>5, <2>8 DEF QuietInv
  <2> QED
    BY <2>6, <2>7, <2>9
<1>3. CASE bindings["entry"].value # Absent
  <2>1. /\ cache' = [cache EXCEPT !.entry = [NoEntry EXCEPT !.provider = bindings["entry"].value, !.listed = "a" \in cache.keys]]
        /\ call' = [call EXCEPT !.at = "subscribe"] /\ bindings' = bindings
    BY <1>3 DEF BuildEntry, Steps
  <2>2. call'.at = "subscribe" /\ call'.quiet = call.quiet /\ DOMAIN call' = DOMAIN call
    BY <2>1, CacheShapes
  <2>3. /\ cache'.fired = cache.fired /\ cache'.seen = cache.seen /\ cache'.keys = cache.keys /\ cache'.filled = cache.filled
        /\ DOMAIN cache' = DOMAIN cache
        /\ cache'.entry = [NoEntry EXCEPT !.provider = bindings["entry"].value, !.listed = "a" \in cache.keys]
    BY <2>1, CacheShapes
  <2>4. /\ DOMAIN cache'.entry = {"provider", "seen", "stale", "listed"} /\ cache'.entry.seen = 0
        /\ cache'.entry.provider = bindings["entry"].value /\ cache'.entry.listed = ("a" \in cache.keys)
    BY <2>3 DEF NoEntry
  <2>5. IdSet' = IdSet
    BY <2>1 DEF IdSet
  <2>6. CacheType'
    BY <2>2, <2>3, <2>4, CacheShapes DEF CacheType, Calls
  <2>7. CacheHolds'
    <3>1. IdsKnown'
      BY <1>1, <2>1, <2>3, <2>5 DEF IdsKnown
    <3> QED
      BY <1>1, <2>1, <2>2, <2>3, <2>4, <3>1 DEF CacheHolds
  <2>8. QuietInv'
    BY <1>1, <2>1, <2>2, <2>3, <2>4, <2>5 DEF QuietInv
  <2> QED
    BY <2>6, <2>7, <2>8
<1> QED
  BY <1>2, <1>3

\* An entry is made of it.
LEMMA CacheSubscribes ==
  ASSUME ConfigInv, CacheType, CacheHolds, QuietInv, SubscribeEntry
  PROVE  CacheType' /\ CacheHolds' /\ QuietInv'
<1>1. /\ UNCHANGED configVars /\ UNCHANGED bindings /\ UNCHANGED tree /\ (Resting' <=> Resting) /\ call.at = "subscribe"
      /\ ~cache.filled /\ bindings["entry"].at = "bound" /\ IdsKnown /\ (cache.entry.listed => "a" \in cache.keys)
  BY DEF SubscribeEntry, ConfigStays, configVars, Resting, CacheHolds
<1>2. IdSet' = IdSet
  BY <1>1 DEF IdSet
<1>3. /\ cache' = [cache EXCEPT !.filled = TRUE, !.entry.seen = bindings["entry"].tick,
                                !.entry.stale = bindings["entry"].value # cache.entry.provider]
      /\ call' = [call EXCEPT !.at = "returned", !.provider = cache.entry.provider]
  BY DEF SubscribeEntry, Returns
<1>4. call'.at = "returned" /\ call'.quiet = call.quiet /\ call'.provider = cache.entry.provider /\ DOMAIN call' = DOMAIN call
  BY <1>3, CacheShapes
<1>5. /\ cache'.fired = cache.fired /\ cache'.seen = cache.seen /\ cache'.keys = cache.keys /\ cache'.filled = TRUE
      /\ DOMAIN cache' = DOMAIN cache
      /\ cache'.entry = [cache.entry EXCEPT !.seen = bindings["entry"].tick, !.stale = bindings["entry"].value # cache.entry.provider]
  BY <1>3, CacheShapes
<1>6. /\ DOMAIN cache'.entry = DOMAIN cache.entry /\ cache'.entry.provider = cache.entry.provider
      /\ cache'.entry.seen = bindings["entry"].tick /\ cache'.entry.listed = cache.entry.listed
      /\ cache'.entry.stale = (bindings["entry"].value # cache.entry.provider)
  BY <1>5, CacheShapes
<1>7. bindings["entry"].tick \in Nat
  BY TicksType DEF ConfigInv
<1>8. CacheType'
  BY <1>4, <1>5, <1>6, <1>7, CacheShapes DEF CacheType, Calls
<1>9. CacheHolds'
  <2>1. IdsKnown'
    BY <1>1, <1>2, <1>5 DEF IdsKnown
  <2>2. EntryKnown'
    BY <1>1, <1>6 DEF EntryKnown
  <2>3. cache'.entry.seen <= bindings'["entry"].tick
    BY <1>1, <1>6, <1>7
  <2> QED
    BY <1>1, <1>4, <1>5, <1>6, <2>1, <2>2, <2>3 DEF CacheHolds
<1>10. ASSUME call.quiet PROVE RightProvider' /\ Resting /\ cache.keys = IdSet
  <2>1. Resting /\ cache.keys = IdSet
    BY <1>1, <1>10 DEF QuietInv
  <2>2. ASSUME ~bindings["entry"].missed, ~cache'.entry.stale PROVE cache.entry.provider = Decode(tree, "entry")
    <3>1. bindings["entry"].value = cache.entry.provider
      BY <1>6, <2>2
    <3> QED
      BY <1>1, <2>1, <2>2, <3>1, EntryIsCurrent
  <2> QED
    BY <1>1, <1>2, <1>4, <1>5, <1>6, <2>1, <2>2 DEF RightProvider
<1>11. QuietInv'
  BY <1>1, <1>2, <1>4, <1>5, <1>10 DEF QuietInv
<1> QED
  BY <1>8, <1>9, <1>11

\* Every step keeps the invariant.
LEMMA ProviderStep == ProviderInv /\ [ProvidersNext]_providerVars => ProviderInv'
<1> SUFFICES ASSUME ProviderInv, [ProvidersNext]_providerVars PROVE ProviderInv'
  OBVIOUS
<1>0. ConfigInv /\ CacheType /\ CacheHolds /\ QuietInv /\ RegistryInv
  BY DEF ProviderInv, ConfigInv
<1>1. ConfigInv'
  <2>1. CASE Bind \/ Register
    <3>1. PICK b \in Bindings : OwnerMoves(b)
      BY <2>1, FourBindings DEF Bind, Register, CreationOrder, OwnerMoves
    <3> QED
      BY <1>0, <3>1, OwnersStep
  <2>2. CASE ConfigMoves
    BY <1>0, <2>2, ConfigSteps DEF ConfigMoves
  <2>3. CASE UNCHANGED configVars
    BY <1>0, <2>3, ConfigFrozen
  <2>4. CASE RefreshIdSet \/ BindEntry \/ RegisterEntry \/ BuildEntry
    <3>1. UNCHANGED configVars \/ OwnerMoves("entry")
      BY <2>4 DEF RefreshIdSet, BindEntry, RegisterEntry, BuildEntry, configVars, OwnerMoves
    <3>2. "entry" \in Bindings
      BY FourBindings
    <3> QED
      BY <1>0, <2>3, <3>1, <3>2, OwnersStep
  <2>5. CASE Complete \/ ModelFor \/ DrainIds \/ DrainEntry \/ Rebuild \/ SubscribeEntry
    <3>1. UNCHANGED configVars
      BY <2>5 DEF Complete, ModelFor, DrainIds, DrainEntry, Rebuild, SubscribeEntry, ConfigStays
    <3> QED
      BY <2>3, <3>1
  <2>6. CASE UNCHANGED providerVars
    BY <2>3, <2>6 DEF providerVars
  <2> QED
    BY <2>1, <2>2, <2>4, <2>5, <2>6 DEF ProvidersNext, Completing
<1>2. CacheType' /\ CacheHolds' /\ QuietInv'
  <2>1. CASE UNCHANGED providerVars
    <3>1. UNCHANGED <<cache, call, bindings, tree, processor, channel>>
      BY <2>1 DEF providerVars, configVars, cacheVars
    <3>2. CacheType'
      BY <1>0, <3>1 DEF CacheType
    <3>3. CacheHolds'
      BY <1>0, <3>1 DEF CacheHolds, IdsKnown, EntryKnown, IdSet
    <3>4. QuietInv'
      BY <1>0, <3>1 DEF QuietInv, Resting, IdSet, RightProvider
    <3> QED
      BY <3>2, <3>3, <3>4
  <2>2. CASE Bind \/ Register
    BY <1>0, <2>2, CacheCreates
  <2>3. CASE ConfigMoves
    BY <1>0, <2>3, CacheConfig
  <2>4. CASE Completing
    BY <1>0, <2>4, CacheResolves, CacheDrainsIds, CacheForgets, CacheDrainsEntry, CacheRebuilds, CacheBinds, CacheBuilds,
       CacheSubscribes DEF Completing
  <2> QED
    BY <2>1, <2>2, <2>3, <2>4 DEF ProvidersNext
<1> QED
  BY <1>1, <1>2 DEF ProviderInv

\* The inductive invariant of the cache and the configuration under it.
LEMMA ProviderAlways == ProvidersSpec => []ProviderInv
<1>1. ProvidersInit => ProviderInv
  BY ConfigInitial, CacheInitial DEF ProvidersInit, ProviderInv
<1> QED
  BY <1>1, ProviderStep, PTL DEF ProvidersSpec

\* With the configuration at rest a binding has what the layers say (config.rs, binding.rs).
THEOREM BindingsAlwaysFollow == ProvidersSpec => []BindingsFollow
<1>1. ProviderInv => BindingsFollow
  BY FollowsFromInv DEF ProviderInv
<1> QED
  BY <1>1, ProviderAlways, PTL

\* A call that nothing disturbs gets the provider that the configuration asks for
\* (provider_cache.rs).
THEOREM ProvidersAreCurrent == ProvidersSpec => []ReturnsCurrent
<1>1. ProviderInv => ReturnsCurrent
  <2> SUFFICES ASSUME ProviderInv, call.at = "returned", call.quiet, ~bindings["keys"].missed, ~bindings["entry"].missed,
                      ~cache.entry.stale
               PROVE  LET ids == Decode(tree, "keys")
                          wanted == Decode(tree, "entry")
                      IN  IF ids = Absent \/ "a" \notin ids[1] THEN cache.entry.listed => call.provider = Absent
                          ELSE wanted # Absent => call.provider = wanted
    BY DEF ReturnsCurrent
  <2>1. Resting /\ RightProvider /\ ConfigInv /\ bindings["keys"].at = "bound"
    BY DEF ProviderInv, QuietInv, CacheHolds
  <2>2. bindings["keys"].value = Decode(tree, "keys")
    BY <2>1, RestIsCurrent, FourBindings DEF IsBound, HasCurrent
  <2>3. IdSet = IF Decode(tree, "keys") = Absent THEN {} ELSE Decode(tree, "keys")[1]
    BY <2>2 DEF IdSet
  <2> QED
    BY <2>1, <2>3 DEF RightProvider
<1> QED
  BY <1>1, ProviderAlways, PTL
=============================================================================
