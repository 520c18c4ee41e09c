------------------------- MODULE WorkerFilesProofs -------------------------
(***************************************************************************)
(* What a session may rely on of its worker's files, for any walkers,      *)
(* files and capacities.                                                   *)
(*                                                                         *)
(* ResultsAreWhole.  A match is counted where it is: in the feed, among    *)
(* the collector's entries or among those thrown away.  While the receiver *)
(* is there, the worker has not died under the walk nor the walk failed,   *)
(* and the end was not lost, each file is untouched and not counted, in    *)
(* the hands of one walker that has seen as many matches as are counted,   *)
(* or done with and counted in full; the files counted or about to be are  *)
(* as many as the slots taken.  The end is the last event and leaves only  *)
(* when no walker is at work, so who hears it has counted everything.      *)
(*                                                                         *)
(* ReadYourWrites.  A request is on the line once (OnceInv) and a call in  *)
(* one place: asked, being done or answered (PlaceInv).  An attachment     *)
(* goes with the message behind it, wherever it has got to (Carries), and  *)
(* none follows another (ApartInv, WriterInv): so a request brings its own *)
(* content (UpInv), which a task writes piece by piece (TaskInv).  While a *)
(* path is known, only what leaves it alone is pending for it (SureInv);   *)
(* a write made beside no other has the path to itself, and its answer     *)
(* finds the whole content there (CleanInv).  So what the worker stages    *)
(* for a read is a beginning of the known file, and the response's         *)
(* attachment all of it (ReadInv).                                         *)
(***************************************************************************)
EXTENDS WorkerFiles, SequenceTheorems, FiniteSetTheorems, TLAPS

-----------------------------------------------------------------------------
(* The search.                                                             *)

\* What a walker may be at, and what the feed may hold.
Visits == [at : {"searching", "emitting"}, file : Found, seen : Nat]
Events == [kind : {"match"}, file : Found] \union [kind : {"done"}, truncated : BOOLEAN] \union {Error}

SearchTypes ==
  /\ search \in {"none", "walking", "ending", "failing", "over"}
  /\ todo \subseteq Found
  /\ walker \in [Walker -> {Idle} \union Visits]
  /\ reserved \in Nat
  /\ truncated \in BOOLEAN
  /\ quit \in BOOLEAN
  /\ feed \in Seq(Events)
  /\ closed \in BOOLEAN
  /\ DOMAIN entries \subseteq Found
  /\ entries \in [DOMAIN entries -> Nat \ {0}]
  /\ lost \in [Found -> Nat]

\* The matches of f on their way, those thrown away and those that have arrived.
Places(q, e) == {i \in 1..Len(q) : q[i] = e}
Counted(f) == IF f \in DOMAIN entries THEN entries[f] ELSE 0
Emitted(f) == lost[f] + Counted(f) + Cardinality(Places(feed, Match(f)))

Holds(w, f) == walker[w] # Idle /\ walker[w].file = f
Emitting(f) == \E w \in Walker : Holds(w, f) /\ walker[w].at = "emitting"
Slots == {f \in Found : Emitted(f) > 0 \/ Emitting(f)}

\* The end of the walk is the last event, and says whether it was cut short.
EndInv ==
  /\ search # "walking" => \A w \in Walker : walker[w] = Idle
  /\ search = "ending" => quit \/ todo = {}
  /\ \A i \in 1..Len(feed) : feed[i].kind = "done" =>
       /\ i = Len(feed) /\ search = "over" /\ feed[i].truncated = truncated
       /\ quit \/ todo = {}
  /\ quit => truncated

\* Each file is untouched, in the hands of one walker, or done with.
HandsOn(w) ==
  LET f == walker[w].file IN
  /\ f \notin todo
  /\ \A v \in Walker : Holds(v, f) => v = w
  /\ Emitted(f) = walker[w].seen
  /\ walker[w].seen <= Matches[f]
  /\ walker[w].at = "emitting" => walker[w].seen < Matches[f]
DoneWith(f) == Emitted(f) = Matches[f] \/ (Emitted(f) = 0 /\ truncated)

FilesInv ==
  /\ \A f \in todo : Emitted(f) = 0
  /\ \A w \in Walker : walker[w] # Idle => HandsOn(w)
  /\ \A f \in Found \ (todo \union Flaky) :
       (\A w \in Walker : ~Holds(w, f)) => DoneWith(f)

\* The slots taken are those of the files reported or about to be.
SlotsInv ==
  /\ IsFiniteSet(Slots)
  /\ reserved <= ResultCap => Cardinality(Slots) = reserved
  /\ reserved > ResultCap => Cardinality(Slots) = ResultCap
  /\ truncated <=> reserved > ResultCap

\* The walk has not failed, nor the worker died under it, nor the end been lost.
Unbroken == search \notin {"failing", "over"} \/ \E i \in 1..Len(feed) : feed[i].kind = "done"

ResultInv == result # NoResult => closed

SearchInv ==
  /\ SearchTypes
  /\ ResultInv
  /\ ResultsAreWhole
  /\ ~closed => /\ EndInv
                /\ Unbroken => FilesInv /\ SlotsInv

-----------------------------------------------------------------------------
(* Counting events.                                                        *)

LEMMA PlacesAreFinite ==
  ASSUME NEW S, NEW q \in Seq(S), NEW e
  PROVE  IsFiniteSet(Places(q, e)) /\ Cardinality(Places(q, e)) \in Nat
<1>1. Len(q) \in Nat
  BY LenProperties
<1>2. IsFiniteSet(1..Len(q))
  BY <1>1, FS_Interval
<1>3. Places(q, e) \in SUBSET (1..Len(q))
  BY DEF Places
<1> QED
  BY <1>2, <1>3, FS_Subset, FS_CardinalityType

\* An event put at the end counts for itself.
LEMMA PlacesAppend ==
  ASSUME NEW S, NEW q \in Seq(S), NEW x \in S, NEW e
  PROVE  Cardinality(Places(Append(q, x), e)) =
           IF x = e THEN Cardinality(Places(q, e)) + 1 ELSE Cardinality(Places(q, e))
<1> DEFINE r == Append(q, x)
<1>1. /\ Len(q) \in Nat
      /\ Len(r) = Len(q) + 1
      /\ r[Len(q) + 1] = x
      /\ \A i \in 1..Len(q) : r[i] = q[i]
  BY LenProperties, AppendProperties
<1>2. 1..Len(r) = (1..Len(q)) \union {Len(q) + 1}
  BY <1>1
<1>3. Len(q) + 1 \notin Places(q, e)
  BY <1>1 DEF Places
<1>4. CASE x = e
  <2>1. Places(r, e) = Places(q, e) \union {Len(q) + 1}
    BY <1>1, <1>2, <1>4 DEF Places
  <2> QED
    BY <2>1, <1>3, <1>4, PlacesAreFinite, FS_AddElement
<1>5. CASE x # e
  <2>1. Places(r, e) = Places(q, e)
    BY <1>1, <1>2, <1>5 DEF Places
  <2> QED
    BY <2>1, <1>5
<1> QED
  BY <1>4, <1>5

\* So does the event at the front, which leaves all others one place nearer.
LEMMA PlacesTail ==
  ASSUME NEW S, NEW q \in Seq(S), q # <<>>, NEW e
  PROVE  Cardinality(Places(q, e)) =
           IF Head(q) = e THEN Cardinality(Places(Tail(q), e)) + 1 ELSE Cardinality(Places(Tail(q), e))
<1> DEFINE r == Tail(q)
           P == Places(q, e) \ {1}
           T == Places(r, e)
           move == [i \in P |-> i - 1]
<1>1. /\ Len(q) \in Nat /\ Len(q) > 0
      /\ r \in Seq(S) /\ Len(r) = Len(q) - 1
      /\ \A i \in 1..Len(r) : r[i] = q[i + 1]
      /\ Head(q) = q[1]
  BY LenProperties, EmptySeq, HeadTailProperties
<1>2. IsFiniteSet(Places(q, e)) /\ Cardinality(Places(q, e)) \in Nat
  BY PlacesAreFinite
<1>3. IsFiniteSet(P)
      /\ Cardinality(P) = IF 1 \in Places(q, e) THEN Cardinality(Places(q, e)) - 1 ELSE Cardinality(Places(q, e))
  BY <1>2, FS_RemoveElement
<1>4. 1 \in Places(q, e) <=> Head(q) = e
  BY <1>1 DEF Places
<1>5. move \in Bijection(P, T)
  <2>1. \A i \in P : move[i] \in T /\ move[i] = i - 1 /\ i \in Nat
    BY <1>1 DEF Places
  <2>2. \A j \in T : j + 1 \in P /\ move[j + 1] = j
    BY <1>1 DEF Places
  <2>3. move \in [P -> T]
    BY <2>1
  <2>4. \A i, k \in P : move[i] = move[k] => i = k
    BY <2>1
  <2>5. \A j \in T : \E i \in P : move[i] = j
    BY <2>2
  <2> HIDE DEF move, P, T
  <2> QED
    BY <2>3, <2>4, <2>5 DEF Bijection, Injection, Surjection, IsInjective
<1>6. Cardinality(T) = Cardinality(P)
  BY <1>3, <1>5, FS_Bijection DEF ExistsBijection
<1> QED
  BY <1>2, <1>3, <1>4, <1>6

LEMMA EventTypes ==
  /\ \A f \in Found : Match(f) \in Events /\ Match(f).kind = "match" /\ Match(f).file = f
  /\ \A t \in BOOLEAN : Done(t) \in Events /\ Done(t).kind = "done" /\ Done(t).truncated = t
  /\ \A f \in Found, t \in BOOLEAN : Done(t) # Match(f)
  /\ Error \in Events /\ Error.kind = "error" /\ \A f \in Found : Error # Match(f)
  /\ \A f, g \in Found : Match(f) = Match(g) => f = g
  /\ \A e \in Events : e.kind = "match" => e.file \in Found /\ e = Match(e.file)
  /\ \A e \in Events : e.kind = "done" => e.truncated \in BOOLEAN /\ e = Done(e.truncated)
BY DEF Match, Done, Error, Events

LEMMA EmittedIsNat ==
  ASSUME SearchTypes
  PROVE  \A f \in Found : /\ Emitted(f) \in Nat /\ Counted(f) \in Nat /\ lost[f] \in Nat
                          /\ Cardinality(Places(feed, Match(f))) \in Nat
<1> TAKE f \in Found
<1>1. Counted(f) \in Nat
  BY DEF SearchTypes, Counted
<1>2. Cardinality(Places(feed, Match(f))) \in Nat
  BY PlacesAreFinite DEF SearchTypes
<1>3. lost[f] \in Nat
  BY DEF SearchTypes
<1> QED
  BY <1>1, <1>2, <1>3 DEF Emitted

\* What each step of the feed does to the counts.
LEMMA EmittedStays ==
  ASSUME UNCHANGED <<feed, entries, lost>>
  PROVE  \A f \in Found : Emitted(f)' = Emitted(f)
BY DEF Emitted, Counted

LEMMA EmittedByMatch ==
  ASSUME SearchTypes, NEW g \in Found, feed' = Append(feed, Match(g)), UNCHANGED <<entries, lost>>
  PROVE  \A f \in Found : Emitted(f)' = IF f = g THEN Emitted(f) + 1 ELSE Emitted(f)
<1> TAKE f \in Found
<1>1. feed \in Seq(Events) /\ Match(g) \in Events /\ (Match(g) = Match(f) <=> f = g)
  BY EventTypes DEF SearchTypes
<1>2. Cardinality(Places(feed, Match(f)))' =
        IF f = g THEN Cardinality(Places(feed, Match(f))) + 1 ELSE Cardinality(Places(feed, Match(f)))
  <2>1. Cardinality(Places(Append(feed, Match(g)), Match(f))) =
          IF Match(g) = Match(f) THEN Cardinality(Places(feed, Match(f))) + 1
          ELSE Cardinality(Places(feed, Match(f)))
    BY <1>1, PlacesAppend
  <2> QED
    BY <2>1, <1>1
<1>3. Counted(f)' = Counted(f)
  BY DEF Counted
<1>4. Counted(f) \in Nat /\ lost[f] \in Nat /\ Cardinality(Places(feed, Match(f))) \in Nat
  BY EmittedIsNat
<1> QED
  BY <1>2, <1>3, <1>4 DEF Emitted

LEMMA EmittedByEnd ==
  ASSUME SearchTypes, NEW e \in Events, e.kind # "match", feed' = Append(feed, e), UNCHANGED <<entries, lost>>
  PROVE  \A f \in Found : Emitted(f)' = Emitted(f)
<1> TAKE f \in Found
<1>1. feed \in Seq(Events) /\ e # Match(f)
  BY EventTypes DEF SearchTypes
<1>2. Cardinality(Places(feed, Match(f)))' = Cardinality(Places(feed, Match(f)))
  BY <1>1, PlacesAppend
<1>3. Counted(f)' = Counted(f)
  BY DEF Counted
<1> QED
  BY <1>2, <1>3 DEF Emitted

LEMMA EmittedByCollect ==
  ASSUME SearchTypes, Collect
  PROVE  \A f \in Found : Emitted(f)' = Emitted(f)
<1> DEFINE g == Head(feed).file
<1>1. feed \in Seq(Events) /\ feed # <<>> /\ Head(feed) \in Events
  BY HeadTailProperties DEF SearchTypes, Collect
<1>2. g \in Found /\ Head(feed) = Match(g)
  BY <1>1, EventTypes DEF Collect
<1> TAKE f \in Found
<1>3. Match(g) = Match(f) <=> f = g
  BY <1>2, EventTypes
<1>4. Cardinality(Places(feed, Match(f))) =
        IF f = g THEN Cardinality(Places(feed, Match(f)))' + 1 ELSE Cardinality(Places(feed, Match(f)))'
  <2>1. Cardinality(Places(feed, Match(f))) =
          IF Head(feed) = Match(f) THEN Cardinality(Places(Tail(feed), Match(f))) + 1
          ELSE Cardinality(Places(Tail(feed), Match(f)))
    BY <1>1, PlacesTail
  <2>2. feed' = Tail(feed)
    BY DEF Collect
  <2> QED
    BY <2>1, <2>2, <1>2, <1>3
<1>5. Counted(f)' = IF f = g THEN Counted(f) + 1 ELSE Counted(f)
  <2> HIDE DEF g
  <2>1. entries' = [h \in DOMAIN entries \union {g} |-> IF h = g THEN Count(g) ELSE entries[h]]
    BY DEF Collect, g
  <2>2. Count(g) = Counted(g) + 1
    BY DEF Count, Counted
  <2>3. CASE f = g
    BY <2>1, <2>2, <2>3 DEF Counted
  <2>4. CASE f # g
    BY <2>1, <2>4 DEF Counted
  <2> QED
    BY <2>3, <2>4
<1>6. Cardinality(Places(feed, Match(f)))' \in Nat
  <2>1. feed' \in Seq(Events)
    BY <1>1, HeadTailProperties DEF Collect
  <2>2. Cardinality(Places(feed', Match(f))) \in Nat
    BY <2>1, PlacesAreFinite
  <2> QED
    BY <2>2 DEF Places
<1>7. Counted(f) \in Nat /\ lost[f] \in Nat /\ lost' = lost
  BY EmittedIsNat DEF Collect
<1> HIDE DEF g
<1> QED
  BY <1>4, <1>5, <1>6, <1>7 DEF Emitted

LEMMA EmittedByLose ==
  ASSUME SearchTypes, Lose
  PROVE  \A f \in Found : Emitted(f)' = Emitted(f)
<1>1. feed \in Seq(Events) /\ feed # <<>> /\ Head(feed) \in Events /\ Tail(feed) \in Seq(Events)
  BY HeadTailProperties DEF SearchTypes, Lose
<1> TAKE f \in Found
<1>2. Cardinality(Places(feed, Match(f))) =
        IF Head(feed) = Match(f) THEN Cardinality(Places(Tail(feed), Match(f))) + 1
        ELSE Cardinality(Places(Tail(feed), Match(f)))
  BY <1>1, PlacesTail
<1>3. Cardinality(Places(Tail(feed), Match(f))) \in Nat
  BY <1>1, PlacesAreFinite
<1>4. lost'[f] = IF Head(feed) = Match(f) THEN lost[f] + 1 ELSE lost[f]
  <2>1. CASE Head(feed).kind = "match"
    <3>1. Head(feed) = Match(Head(feed).file) /\ Head(feed).file \in Found
      BY <1>1, <2>1, EventTypes
    <3>2. Head(feed) = Match(f) <=> Head(feed).file = f
      BY <3>1, EventTypes
    <3> QED
      BY <2>1, <3>1, <3>2 DEF Lose, SearchTypes
  <2>2. CASE Head(feed).kind # "match"
    BY <2>2, EventTypes DEF Lose
  <2> QED
    BY <2>1, <2>2
<1>5. Counted(f)' = Counted(f) /\ Counted(f) \in Nat /\ lost[f] \in Nat /\ feed' = Tail(feed)
  BY EmittedIsNat DEF Lose, Counted
<1>6. Cardinality(Places(feed, Match(f)))' = Cardinality(Places(Tail(feed), Match(f)))
  BY <1>5
<1> QED
  BY <1>2, <1>3, <1>4, <1>5, <1>6 DEF Emitted

-----------------------------------------------------------------------------
(* The steps of a search.                                                  *)

WalkersDie ==
  /\ search' = "over" /\ walker' = [w \in Walker |-> Idle]
  /\ UNCHANGED <<todo, reserved, truncated, quit, feed, closed, entries, result, lost>>

SearchStep ==
  \/ Start \/ WalkStep \/ Breaks \/ Lose \/ Collect \/ Finish \/ FinishBroken \/ Close \/ WalkersDie
  \/ UNCHANGED searchVars

LEMMA VisitTypes ==
  /\ \A f \in Found, n \in Nat :
       /\ Visit("searching", f, n) \in Visits /\ Visit("searching", f, n) # Idle
       /\ Visit("searching", f, n).at = "searching"
       /\ Visit("searching", f, n).file = f /\ Visit("searching", f, n).seen = n
  /\ \A v \in Visits :
       /\ v # Idle /\ v.at \in {"searching", "emitting"} /\ v.file \in Found /\ v.seen \in Nat
       /\ [v EXCEPT !.at = "emitting"] \in Visits
       /\ [v EXCEPT !.at = "emitting"].at = "emitting"
       /\ [v EXCEPT !.at = "emitting"].file = v.file /\ [v EXCEPT !.at = "emitting"].seen = v.seen
  /\ Idle.at = "idle"
BY DEF Visit, Visits, Idle

LEMMA WalkerTypes ==
  ASSUME SearchTypes, NEW w \in Walker
  PROVE  /\ walker[w] = Idle \/ walker[w] \in Visits
         /\ walker[w] # Idle => /\ walker[w] \in Visits
                                /\ walker[w].file \in Found /\ walker[w].seen \in Nat
                                /\ walker[w].at \in {"searching", "emitting"}
                                /\ Matches[walker[w].file] \in Nat \ {0}
         /\ walker[w].at \in {"searching", "emitting"} => walker[w] # Idle
         /\ walker[w] = Idle => walker[w].at = "idle"
BY VisitTypes, SearchAssumption DEF SearchTypes, SearchAssumption

\* A walker that moves moves alone.
LEMMA WalkerMoves ==
  ASSUME SearchTypes, NEW w \in Walker, NEW x \in {Idle} \union Visits, Goto(w, x)
  PROVE  /\ walker' \in [Walker -> {Idle} \union Visits]
         /\ walker'[w] = x
         /\ \A v \in Walker \ {w} : walker'[v] = walker[v]
BY DEF SearchTypes, Goto

LEMMA StepTypes == SearchTypes /\ SearchStep => SearchTypes'
<1> SUFFICES ASSUME SearchTypes, SearchStep PROVE SearchTypes'
  OBVIOUS
<1>1. CASE Start \/ Close \/ Finish \/ FinishBroken \/ Breaks \/ WalkersDie \/ UNCHANGED searchVars \/ Walked
  BY <1>1 DEF SearchTypes, Start, Close, Finish, FinishBroken, Breaks, WalkersDie, searchVars, Walked
<1>2. ASSUME NEW w \in Walker, Take(w) \/ TakeNone(w) PROVE SearchTypes'
  <2>1. CASE Take(w)
    <3>1. PICK f \in todo : Goto(w, Visit("searching", f, 0)) /\ todo' = todo \ {f}
      BY <2>1 DEF Take
    <3>2. Visit("searching", f, 0) \in Visits
      BY <3>1, VisitTypes DEF SearchTypes
    <3>3. walker' \in [Walker -> {Idle} \union Visits]
      BY <3>1, <3>2, WalkerMoves
    <3> QED
      BY <3>1, <3>3, <2>1 DEF Take, SearchTypes
  <2>2. CASE TakeNone(w)
    BY <2>2 DEF TakeNone, SearchTypes
  <2> QED
    BY <1>2, <2>1, <2>2
<1>3. ASSUME NEW w \in Walker, Accept(w) PROVE SearchTypes'
  <2>1. [walker[w] EXCEPT !.at = "emitting"] \in Visits
    BY <1>3, VisitTypes, WalkerTypes DEF Accept, Searching
  <2>2. walker' \in [Walker -> {Idle} \union Visits]
    BY <1>3, <2>1, WalkerMoves DEF Accept
  <2> QED
    BY <2>2, <1>3 DEF Accept, SearchTypes
<1>4. ASSUME NEW w \in Walker, Overflow(w) \/ Leave(w) PROVE SearchTypes'
  <2>1. walker' \in [Walker -> {Idle} \union Visits]
    BY <1>4, WalkerMoves DEF Overflow, Leave
  <2>2. CASE Overflow(w)
    BY <2>1, <2>2 DEF Overflow, SearchTypes
  <2>3. CASE Leave(w)
    <3>1. quit' \in BOOLEAN
      BY <2>3 DEF Leave
    <3> QED
      BY <2>1, <2>3, <3>1 DEF Leave, SearchTypes
  <2> QED
    BY <1>4, <2>2, <2>3
<1>5. ASSUME NEW w \in Walker, Emit(w) PROVE SearchTypes'
  <2>1. walker[w].file \in Found /\ walker[w].seen + 1 \in Nat
    BY <1>5, WalkerTypes DEF Emit
  <2>2. Visit("searching", walker[w].file, walker[w].seen + 1) \in Visits /\ Match(walker[w].file) \in Events
    BY <2>1, VisitTypes, EventTypes
  <2>3. walker' \in [Walker -> {Idle} \union Visits]
    BY <1>5, <2>2, WalkerMoves DEF Emit
  <2>4. feed' \in Seq(Events)
    BY <1>5, <2>2, AppendProperties DEF Emit, SearchTypes
  <2> QED
    BY <2>3, <2>4, <1>5 DEF Emit, SearchTypes
<1>6. CASE SendEnd
  <2>1. feed' \in Seq(Events)
    BY <1>6, EventTypes, AppendProperties DEF SendEnd, SearchTypes
  <2> QED
    BY <1>6, <2>1 DEF SendEnd, SearchTypes
<1>7. CASE Collect
  <2> DEFINE g == Head(feed).file
  <2>1. feed \in Seq(Events) /\ Head(feed) \in Events /\ feed' \in Seq(Events)
    BY <1>7, HeadTailProperties DEF Collect, SearchTypes
  <2>2. g \in Found
    BY <2>1, <1>7, EventTypes DEF Collect
  <2>3. Count(g) \in Nat \ {0}
    BY DEF Count, SearchTypes
  <2> HIDE DEF g
  <2>4. entries' = [h \in DOMAIN entries \union {g} |-> IF h = g THEN Count(g) ELSE entries[h]]
    BY <1>7 DEF Collect, g
  <2>5. DOMAIN entries' \subseteq Found /\ entries' \in [DOMAIN entries' -> Nat \ {0}]
    BY <2>2, <2>3, <2>4 DEF SearchTypes
  <2> QED
    BY <2>1, <2>5, <1>7 DEF Collect, SearchTypes
<1>8. CASE Lose
  <2>1. feed \in Seq(Events) /\ Head(feed) \in Events /\ feed' \in Seq(Events)
    BY <1>8, HeadTailProperties DEF Lose, SearchTypes
  <2>2. lost' \in [Found -> Nat]
    <3>1. CASE Head(feed).kind = "match"
      <4> DEFINE g == Head(feed).file
      <4>1. g \in Found
        BY <2>1, <3>1, EventTypes
      <4> HIDE DEF g
      <4>2. lost' = [lost EXCEPT ![g] = @ + 1]
        BY <1>8, <3>1 DEF Lose, g
      <4> QED
        BY <4>1, <4>2 DEF SearchTypes
    <3>2. CASE Head(feed).kind # "match"
      BY <1>8, <3>2 DEF Lose, SearchTypes
    <3> QED
      BY <3>1, <3>2
  <2>3. UNCHANGED <<search, todo, walker, reserved, truncated, quit, closed, entries>>
    BY <1>8 DEF Lose
  <2> QED
    BY <2>1, <2>2, <2>3 DEF SearchTypes
<1> QED
  BY <1>1, <1>2, <1>3, <1>4, <1>5, <1>6, <1>7, <1>8 DEF SearchStep, WalkStep

-----------------------------------------------------------------------------
(* Each step keeps the counts.                                             *)

\* While nothing changes but where the walkers are, and the same files have
\* a slot, the slots are as they were.
LEMMA SlotsStay ==
  ASSUME SlotsInv, UNCHANGED <<reserved, truncated>>,
         \A f \in Found : Emitted(f)' = Emitted(f),
         \A f \in Found : Emitting(f)' <=> Emitting(f)
  PROVE  SlotsInv'
<1>1. Slots' = Slots
  BY DEF Slots
<1> QED
  BY <1>1 DEF SlotsInv

\* While no walker moves and the counts stay, so do the files.
LEMMA FilesStay ==
  ASSUME SearchTypes, FilesInv, UNCHANGED <<todo, walker, truncated>>,
         \A f \in Found : Emitted(f)' = Emitted(f)
  PROVE  FilesInv'
<1>1. \A f \in todo' : Emitted(f)' = 0
  BY DEF FilesInv, SearchTypes
<1>2. ASSUME NEW w \in Walker, walker'[w] # Idle PROVE HandsOn(w)'
  <2>1. PICK f \in Found : f = walker[w].file
    BY <1>2, WalkerTypes
  <2>2. HandsOn(w) /\ walker'[w].file = f /\ walker'[w] = walker[w]
    BY <1>2, <2>1 DEF FilesInv
  <2>3. Emitted(f)' = walker[w].seen
    BY <2>1, <2>2 DEF HandsOn
  <2>4. Emitted(walker[w].file)' = walker'[w].seen
    BY <2>2, <2>3
  <2> QED
    BY <2>1, <2>2, <2>4 DEF HandsOn, Holds
<1>3. ASSUME NEW f \in Found \ (todo' \union Flaky), \A w \in Walker : ~Holds(w, f)' PROVE DoneWith(f)'
  <2>1. DoneWith(f)
    BY <1>3 DEF FilesInv, Holds
  <2> QED
    BY <2>1, <1>3 DEF DoneWith
<1> QED
  BY <1>1, <1>2, <1>3 DEF FilesInv

\* A search whose receiver is gone, or whose result is there, is kept by all.
LEMMA ClosedStays ==
  ASSUME SearchInv, SearchTypes', closed', UNCHANGED <<result, lost>>
  PROVE  SearchInv'
BY DEF SearchInv, ResultInv, ResultsAreWhole, Reported

LEMMA OpenStays ==
  ASSUME SearchInv, SearchTypes', UNCHANGED <<closed, result>>,
         lost' = lost \/ result = NoResult,
         ~closed => EndInv' /\ (Unbroken' => FilesInv' /\ SlotsInv')
  PROVE  SearchInv'
<1>1. CASE lost' = lost
  BY <1>1 DEF SearchInv, ResultInv, ResultsAreWhole, Reported, SearchTypes
<1>2. CASE result = NoResult
  BY <1>2 DEF SearchInv, ResultInv, ResultsAreWhole, NoResult, SearchTypes
<1> QED
  BY <1>1, <1>2

\* While the walk goes on, the feed holds matches only.
LEMMA WalkIsUnbroken ==
  ASSUME SearchInv, ~closed, search = "walking" \/ search = "ending" \/ search = "none"
  PROVE  /\ Unbroken /\ EndInv /\ FilesInv /\ SlotsInv
         /\ \A i \in 1..Len(feed) : feed[i].kind # "done"
BY DEF SearchInv, EndInv, Unbroken

LEMMA KeptByStart == SearchInv /\ SearchTypes' /\ Start => SearchInv'
<1> SUFFICES ASSUME SearchInv, SearchTypes', Start, ~closed
             PROVE  EndInv' /\ FilesInv' /\ SlotsInv'
  BY OpenStays DEF Start
<1>1. Unbroken /\ EndInv /\ FilesInv /\ SlotsInv /\ \A i \in 1..Len(feed) : feed[i].kind # "done"
  BY WalkIsUnbroken DEF Start
<1>2. \A f \in Found : Emitted(f)' = Emitted(f)
  BY EmittedStays DEF Start
<1>3. EndInv'
  BY <1>1 DEF EndInv, Start
<1>4. FilesInv'
  BY <1>1, <1>2, FilesStay DEF SearchInv, Start
<1>5. SlotsInv'
  BY <1>1, <1>2, SlotsStay DEF Start, Emitting, Holds
<1> QED
  BY <1>3, <1>4, <1>5

LEMMA KeptByTake ==
  ASSUME SearchInv, SearchTypes', NEW w \in Walker, Take(w)
  PROVE  SearchInv'
<1> SUFFICES ASSUME ~closed
             PROVE  EndInv' /\ FilesInv' /\ SlotsInv'
  BY OpenStays DEF Take
<1>1. Unbroken /\ EndInv /\ FilesInv /\ SlotsInv /\ \A i \in 1..Len(feed) : feed[i].kind # "done"
  BY WalkIsUnbroken DEF Take
<1>2. \A f \in Found : Emitted(f)' = Emitted(f)
  BY EmittedStays DEF Take
<1>3. PICK f \in todo : Goto(w, Visit("searching", f, 0)) /\ todo' = todo \ {f}
  BY DEF Take
<1>4. f \in Found /\ Matches[f] \in Nat
  BY <1>3, SearchAssumption DEF SearchInv, SearchTypes, SearchAssumption
<1>5. /\ walker'[w] = Visit("searching", f, 0)
      /\ \A v \in Walker \ {w} : walker'[v] = walker[v]
  BY <1>3, <1>4, VisitTypes, WalkerMoves DEF SearchInv
<1>6. /\ walker'[w] # Idle /\ walker'[w].at = "searching"
      /\ walker'[w].file = f /\ walker'[w].seen = 0 /\ walker[w] = Idle
  BY <1>4, <1>5, VisitTypes DEF Take
<1>7. EndInv'
  BY <1>1, <1>3 DEF EndInv, Take
<1>8. \A v \in Walker, g \in Found : Holds(v, g)' <=> Holds(v, g) \/ (v = w /\ g = f)
  BY <1>5, <1>6 DEF Holds
<1>9. \A v \in Walker : ~Holds(v, f)
  BY <1>1, <1>3 DEF FilesInv, HandsOn, Holds
<1>10. FilesInv'
  <2>1. \A g \in todo' : Emitted(g)' = 0
    BY <1>1, <1>2, <1>3 DEF FilesInv, SearchInv, SearchTypes
  <2>2. HandsOn(w)'
    <3>1. \A v \in Walker : Holds(v, f)' => v = w
      BY <1>4, <1>8, <1>9
    <3>2. Emitted(f)' = 0
      BY <1>1, <1>2, <1>3, <1>4 DEF FilesInv
    <3>3. f \notin todo'
      BY <1>3
    <3> QED
      BY <1>4, <1>6, <3>1, <3>2, <3>3 DEF HandsOn, Holds, Emitted, Counted
  <2>3. ASSUME NEW v \in Walker, v # w, walker'[v] # Idle PROVE HandsOn(v)'
    <3> DEFINE g == walker[v].file
    <3>1. walker'[v] = walker[v] /\ g \in Found /\ HandsOn(v)
      BY <1>1, <1>5, <2>3, WalkerTypes DEF FilesInv, SearchInv
    <3>2. g # f /\ g \notin todo
      BY <1>3, <3>1 DEF HandsOn
    <3>3. \A u \in Walker : Holds(u, g)' => u = v
      BY <1>8, <3>1, <3>2 DEF HandsOn
    <3>4. Emitted(g)' = Emitted(g) /\ g \notin todo'
      BY <1>2, <1>3, <3>1, <3>2
    <3> QED
      BY <3>1, <3>3, <3>4 DEF HandsOn, Holds, Emitted, Counted
  <2>4. ASSUME NEW g \in Found \ (todo' \union Flaky), \A v \in Walker : ~Holds(v, g)'
        PROVE  DoneWith(g)'
    <3>1. g # f
      BY <1>6, <2>4 DEF Holds
    <3>2. g \notin todo /\ \A v \in Walker : ~Holds(v, g)
      BY <1>3, <1>8, <2>4, <3>1
    <3>3. DoneWith(g)
      BY <1>1, <3>2, <2>4 DEF FilesInv
    <3> QED
      BY <1>2, <3>3, <2>4 DEF DoneWith, Take
  <2> QED
    BY <2>1, <2>2, <2>3, <2>4 DEF FilesInv
<1>11. SlotsInv'
  <2>1. \A g \in Found : Emitting(g)' <=> Emitting(g)
    BY <1>5, <1>6 DEF Emitting, Holds
  <2> QED
    BY <1>1, <1>2, <2>1, SlotsStay DEF Take
<1> QED
  BY <1>7, <1>10, <1>11

\* A walker goes on with the file in its hands, or puts it down.
LEMMA FilesMove ==
  ASSUME SearchTypes, FilesInv, NEW w \in Walker, NEW f \in Found, Holds(w, f),
         NEW x \in {Idle} \union Visits, Goto(w, x), x # Idle => x.file = f,
         UNCHANGED todo, truncated => truncated',
         \A g \in Found \ {f} : Emitted(g)' = Emitted(g),
         x # Idle => /\ Emitted(f)' = x.seen /\ x.seen <= Matches[f]
                     /\ x.at = "emitting" => x.seen < Matches[f],
         x = Idle => f \in Flaky \/ DoneWith(f)'
  PROVE  FilesInv'
<1>1. /\ walker'[w] = x
      /\ \A v \in Walker \ {w} : walker'[v] = walker[v]
  BY WalkerMoves
<1>2. HandsOn(w) /\ walker[w].file = f /\ f \notin todo
  BY DEF FilesInv, Holds, HandsOn
<1>3. \A v \in Walker, g \in Found : Holds(v, g)' => Holds(v, g)
  BY <1>1 DEF Holds
<1>4. \A g \in todo' : Emitted(g)' = 0
  BY <1>2 DEF FilesInv, SearchTypes
<1>5. ASSUME x # Idle PROVE HandsOn(w)'
  <2>1. walker'[w].file = f
    BY <1>1, <1>5
  <2>2. \A v \in Walker : Holds(v, f)' => v = w
    BY <1>2, <1>3 DEF HandsOn
  <2> QED
    BY <1>1, <1>2, <1>5, <2>1, <2>2 DEF HandsOn, Holds, Emitted, Counted
<1>6. ASSUME NEW v \in Walker, v # w, walker'[v] # Idle PROVE HandsOn(v)'
  <2> DEFINE g == walker[v].file
  <2>1. walker'[v] = walker[v] /\ g \in Found /\ HandsOn(v)
    BY <1>1, <1>6, WalkerTypes DEF FilesInv
  <2>2. g # f
    BY <1>2, <1>6, <2>1 DEF HandsOn, Holds
  <2>3. \A u \in Walker : Holds(u, g)' => u = v
    BY <1>3, <2>1 DEF HandsOn
  <2>4. Emitted(g)' = Emitted(g) /\ g \notin todo'
    BY <2>1, <2>2 DEF HandsOn
  <2> QED
    BY <2>1, <2>3, <2>4 DEF HandsOn, Holds, Emitted, Counted
<1>7. ASSUME NEW g \in Found \ (todo' \union Flaky), \A v \in Walker : ~Holds(v, g)'
      PROVE  DoneWith(g)'
  <2>1. CASE g = f
    <3>1. x = Idle
      BY <1>1, <1>7, <2>1 DEF Holds
    <3> QED
      BY <3>1, <1>7, <2>1 DEF DoneWith, Emitted, Counted
  <2>2. CASE g # f
    <3>1. \A v \in Walker : ~Holds(v, g)
      BY <1>1, <1>2, <1>7, <2>2 DEF Holds
    <3>2. DoneWith(g)
      BY <1>7, <3>1 DEF FilesInv
    <3> QED
      BY <1>7, <2>2, <3>2 DEF DoneWith
  <2> QED
    BY <2>1, <2>2
<1>8. \A v \in Walker : walker'[v] # Idle => HandsOn(v)'
  BY <1>1, <1>5, <1>6
<1> QED
  BY <1>4, <1>7, <1>8 DEF FilesInv

\* What is known of a walker that searches a file, when the receiver is there.
LEMMA AtWork ==
  ASSUME SearchInv, ~closed, NEW w \in Walker, walker[w].at \in {"searching", "emitting"}
  PROVE  /\ search = "walking"
         /\ Unbroken /\ EndInv /\ FilesInv /\ SlotsInv
         /\ \A i \in 1..Len(feed) : feed[i].kind # "done"
         /\ walker[w] \in Visits /\ walker[w].file \in Found /\ Holds(w, walker[w].file)
         /\ walker[w].seen \in Nat /\ Matches[walker[w].file] \in Nat \ {0}
         /\ HandsOn(w)
<1>1. /\ walker[w] # Idle /\ walker[w] \in Visits /\ walker[w].file \in Found
      /\ walker[w].seen \in Nat /\ Matches[walker[w].file] \in Nat \ {0}
  BY WalkerTypes DEF SearchInv
<1>2. search = "walking"
  BY <1>1 DEF SearchInv, EndInv
<1>3. /\ Unbroken /\ EndInv /\ FilesInv /\ SlotsInv
      /\ \A i \in 1..Len(feed) : feed[i].kind # "done"
  BY <1>2, WalkIsUnbroken
<1> QED
  BY <1>1, <1>2, <1>3 DEF FilesInv, Holds

\* A walk that goes on ends as before.
LEMMA EndStays ==
  ASSUME EndInv, search = "walking", UNCHANGED <<search, feed>>, quit' => truncated',
         \A i \in 1..Len(feed) : feed[i].kind # "done"
  PROVE  EndInv'
BY DEF EndInv

LEMMA KeptByAccept ==
  ASSUME SearchInv, SearchTypes', NEW w \in Walker, Accept(w)
  PROVE  SearchInv'
<1> SUFFICES ASSUME ~closed
             PROVE  EndInv' /\ FilesInv' /\ SlotsInv'
  BY OpenStays DEF Accept
<1>a. PICK f \in Found : f = walker[w].file
  BY AtWork DEF Accept, Searching
<1>b. PICK x : x = [walker[w] EXCEPT !.at = "emitting"]
  OBVIOUS
<1>1. /\ search = "walking"
      /\ Unbroken /\ EndInv /\ FilesInv /\ SlotsInv
      /\ \A i \in 1..Len(feed) : feed[i].kind # "done"
      /\ walker[w] \in Visits /\ f \in Found /\ Holds(w, f)
      /\ walker[w].seen \in Nat /\ Matches[f] \in Nat \ {0}
      /\ HandsOn(w)
  BY <1>a, AtWork DEF Accept, Searching
<1>2. \A g \in Found : Emitted(g)' = Emitted(g)
  BY EmittedStays DEF Accept
<1>3. x \in Visits /\ x # Idle /\ x.at = "emitting" /\ x.file = f /\ x.seen = walker[w].seen
  BY <1>a, <1>b, <1>1, VisitTypes
<1>4. EndInv'
  BY <1>1, EndStays DEF Accept, EndInv
<1>5. x.seen < Matches[f] /\ Emitted(f) = x.seen
  BY <1>a, <1>1, <1>3 DEF Accept, More, HandsOn
<1>6. Goto(w, x)
  BY <1>b DEF Accept
<1>7. /\ walker'[w] = x
      /\ \A v \in Walker \ {w} : walker'[v] = walker[v]
  BY <1>3, <1>6, WalkerMoves DEF SearchInv
<1>8. walker[w].at = "searching"
  BY DEF Accept, Searching
<1>9. \A g \in Found : Emitting(g)' <=> Emitting(g) \/ g = f
  <2>1. ASSUME NEW g \in Found, Emitting(g)' PROVE Emitting(g) \/ g = f
    BY <1>3, <1>7, <2>1 DEF Emitting, Holds
  <2>2. ASSUME NEW g \in Found, Emitting(g) PROVE Emitting(g)'
    <3>1. PICK v \in Walker : Holds(v, g) /\ walker[v].at = "emitting"
      BY <2>2 DEF Emitting
    <3>2. v # w
      BY <3>1, <1>8
    <3> QED
      BY <3>1, <3>2, <1>7 DEF Emitting, Holds
  <2>3. Emitting(f)'
    BY <1>3, <1>7 DEF Emitting, Holds
  <2> QED
    BY <2>1, <2>2, <2>3
<1>10. FilesInv'
  <2>1. Emitted(f)' = x.seen /\ x.seen <= Matches[f]
    BY <1>1, <1>2, <1>3, <1>5
  <2>2. UNCHANGED <<todo, truncated>>
    BY DEF Accept
  <2> QED
    BY <1>1, <1>2, <1>3, <1>5, <1>6, <2>1, <2>2, FilesMove DEF SearchInv
<1>11. Slots' = Slots \union {f}
  BY <1>1, <1>2, <1>9 DEF Slots
<1>12. reserved \in Nat /\ ResultCap \in Nat /\ IsFiniteSet(Slots)
  BY <1>1, SearchAssumption DEF SearchInv, SearchTypes, SearchAssumption, SlotsInv
<1>13. SlotsInv'
  <2>1. CASE NeedsSlot(w)
    <3>1. Emitted(f) = 0
      BY <1>a, <1>1, <2>1 DEF HandsOn, NeedsSlot
    <3>2. ~Emitting(f)
      BY <1>a, <1>1, <1>8 DEF Emitting, HandsOn
    <3>3. f \notin Slots
      BY <3>1, <3>2 DEF Slots
    <3>4. IsFiniteSet(Slots') /\ Cardinality(Slots') = Cardinality(Slots) + 1
      BY <1>11, <1>12, <3>3, FS_AddElement
    <3>5. reserved < ResultCap /\ reserved' = reserved + 1 /\ truncated' = truncated
      BY <2>1 DEF Accept, HasRoom
    <3>6. Cardinality(Slots) = reserved /\ (truncated <=> reserved > ResultCap)
      BY <1>1, <1>12, <3>5 DEF SlotsInv
    <3>7. Cardinality(Slots') = reserved' /\ reserved' <= ResultCap /\ ~(reserved' > ResultCap)
      BY <3>4, <3>5, <3>6, <1>12
    <3>8. ~truncated'
      BY <3>5, <3>6, <1>12
    <3> QED
      BY <3>4, <3>7, <3>8 DEF SlotsInv
  <2>2. CASE ~NeedsSlot(w)
    <3>1. Emitted(f) > 0
      BY <1>a, <1>1, <2>2 DEF HandsOn, NeedsSlot
    <3>2. Slots' = Slots
      BY <1>1, <1>11, <3>1 DEF Slots
    <3>3. UNCHANGED <<reserved, truncated>>
      BY <2>2 DEF Accept
    <3> QED
      BY <1>1, <3>2, <3>3 DEF SlotsInv
  <2> QED
    BY <2>1, <2>2
<1> QED
  BY <1>4, <1>10, <1>13

LEMMA KeptByOverflow ==
  ASSUME SearchInv, SearchTypes', NEW w \in Walker, Overflow(w)
  PROVE  SearchInv'
<1> SUFFICES ASSUME ~closed
             PROVE  EndInv' /\ FilesInv' /\ SlotsInv'
  BY OpenStays DEF Overflow
<1>a. PICK f \in Found : f = walker[w].file
  BY AtWork DEF Overflow, Searching
<1>1. /\ search = "walking"
      /\ Unbroken /\ EndInv /\ FilesInv /\ SlotsInv
      /\ \A i \in 1..Len(feed) : feed[i].kind # "done"
      /\ walker[w] \in Visits /\ f \in Found /\ Holds(w, f)
      /\ HandsOn(w)
  BY <1>a, AtWork DEF Overflow, Searching
<1>2. \A g \in Found : Emitted(g)' = Emitted(g)
  BY EmittedStays DEF Overflow
<1>3. EndInv'
  BY <1>1, EndStays DEF Overflow
<1>4. /\ walker'[w] = Idle
      /\ \A v \in Walker \ {w} : walker'[v] = walker[v]
  BY WalkerMoves DEF Overflow, SearchInv
<1>5. Emitted(f) = 0 /\ truncated' /\ UNCHANGED todo /\ Goto(w, Idle) /\ walker[w].at = "searching"
  BY <1>a, <1>1 DEF Overflow, NeedsSlot, HandsOn, Searching
<1>6. FilesInv'
  <2>1. DoneWith(f)'
    BY <1>1, <1>2, <1>5 DEF DoneWith
  <2> QED
    BY <1>1, <1>2, <1>5, <2>1, FilesMove DEF SearchInv
<1>7. SlotsInv'
  <2>1. \A g \in Found : Emitting(g)' <=> Emitting(g)
    BY <1>4, <1>5 DEF Emitting, Holds, Idle
  <2>2. Slots' = Slots
    BY <1>2, <2>1 DEF Slots
  <2>3. reserved \in Nat /\ ResultCap \in Nat /\ reserved' = reserved + 1 /\ ~(reserved < ResultCap)
    BY SearchAssumption DEF SearchInv, SearchTypes, SearchAssumption, Overflow, HasRoom
  <2>4. reserved' > ResultCap /\ Cardinality(Slots) = ResultCap
    BY <1>1, <2>3 DEF SlotsInv
  <2> QED
    BY <1>1, <1>5, <2>2, <2>3, <2>4 DEF SlotsInv
<1> QED
  BY <1>3, <1>6, <1>7

LEMMA KeptByEmit ==
  ASSUME SearchInv, SearchTypes', NEW w \in Walker, Emit(w)
  PROVE  SearchInv'
<1> SUFFICES ASSUME ~closed
             PROVE  EndInv' /\ FilesInv' /\ SlotsInv'
  BY OpenStays DEF Emit
<1>a. PICK f \in Found : f = walker[w].file
  BY AtWork DEF Emit
<1>1. /\ search = "walking"
      /\ Unbroken /\ EndInv /\ FilesInv /\ SlotsInv
      /\ \A i \in 1..Len(feed) : feed[i].kind # "done"
      /\ walker[w] \in Visits /\ f \in Found /\ Holds(w, f)
      /\ walker[w].seen \in Nat /\ Matches[f] \in Nat \ {0}
      /\ HandsOn(w)
  BY <1>a, AtWork DEF Emit
<1>b. PICK x : x = Visit("searching", f, walker[w].seen + 1)
  OBVIOUS
<1>2. /\ feed' = Append(feed, Match(f)) /\ Goto(w, x) /\ walker[w].at = "emitting"
      /\ UNCHANGED <<search, quit, todo, reserved, truncated, entries, lost>>
  BY <1>a, <1>b DEF Emit
<1>3. \A g \in Found : Emitted(g)' = IF g = f THEN Emitted(g) + 1 ELSE Emitted(g)
  BY <1>2, EmittedByMatch DEF SearchInv
<1>4. x \in Visits /\ x # Idle /\ x.at = "searching" /\ x.file = f /\ x.seen = walker[w].seen + 1
  BY <1>b, <1>1, VisitTypes
<1>5. /\ Emitted(f) = walker[w].seen /\ Emitted(f)' = x.seen
      /\ x.seen <= Matches[f] /\ x.seen > 0
  BY <1>a, <1>1, <1>2, <1>3, <1>4 DEF HandsOn
<1>6. /\ walker'[w] = x
      /\ \A v \in Walker \ {w} : walker'[v] = walker[v]
  BY <1>2, <1>4, WalkerMoves DEF SearchInv
<1>7. EndInv'
  <2>1. /\ feed \in Seq(Events) /\ Match(f) \in Events
        /\ Match(f).kind = "match"
    BY EventTypes DEF SearchInv, SearchTypes
  <2>2. \A i \in 1..Len(feed') : feed'[i].kind # "done"
    BY <1>1, <1>2, <2>1, AppendProperties, LenProperties
  <2> QED
    BY <1>1, <1>2, <2>2 DEF EndInv
<1>8. FilesInv'
  BY <1>1, <1>2, <1>3, <1>4, <1>5, FilesMove DEF SearchInv
<1>9. SlotsInv'
  <2>1. ASSUME NEW g \in Found, g # f PROVE Emitting(g)' <=> Emitting(g)
    BY <1>a, <1>4, <1>6, <2>1 DEF Emitting, Holds
  <2>2. Emitting(f)
    BY <1>1, <1>2 DEF Emitting
  <2>3. \A g \in Found : Emitted(g)' > 0 \/ Emitting(g)' <=> Emitted(g) > 0 \/ Emitting(g)
    BY <1>3, <1>5, <2>1, <2>2
  <2>4. Slots' = Slots
    BY <2>3 DEF Slots
  <2> QED
    BY <1>1, <1>2, <2>4 DEF SlotsInv
<1> QED
  BY <1>7, <1>8, <1>9

LEMMA KeptByLeave ==
  ASSUME SearchInv, SearchTypes', NEW w \in Walker, Leave(w)
  PROVE  SearchInv'
<1> SUFFICES ASSUME ~closed
             PROVE  EndInv' /\ FilesInv' /\ SlotsInv'
  BY OpenStays DEF Leave
<1>a. PICK f \in Found : f = walker[w].file
  BY AtWork DEF Leave, Searching
<1>1. /\ search = "walking"
      /\ Unbroken /\ EndInv /\ FilesInv /\ SlotsInv
      /\ \A i \in 1..Len(feed) : feed[i].kind # "done"
      /\ walker[w] \in Visits /\ f \in Found /\ Holds(w, f)
      /\ walker[w].seen \in Nat /\ Matches[f] \in Nat \ {0}
      /\ HandsOn(w)
  BY <1>a, AtWork DEF Leave, Searching
<1>2. \A g \in Found : Emitted(g)' = Emitted(g)
  BY EmittedStays DEF Leave
<1>3. quit' => quit
  BY DEF Leave
<1>4. EndInv'
  BY <1>1, <1>3, EndStays DEF Leave, EndInv
<1>5. /\ walker'[w] = Idle
      /\ \A v \in Walker \ {w} : walker'[v] = walker[v]
  BY WalkerMoves DEF Leave, SearchInv
<1>6. UNCHANGED <<todo, reserved, truncated>> /\ Goto(w, Idle) /\ walker[w].at = "searching"
  BY DEF Leave, Searching
<1>7. FilesInv'
  <2>1. f \in Flaky \/ DoneWith(f)'
    <3>1. CASE More(w)
      BY <1>a, <3>1 DEF Leave
    <3>2. CASE ~More(w)
      <4>1. Emitted(f) = Matches[f]
        BY <1>a, <1>1, <3>2 DEF More, HandsOn
      <4> QED
        BY <4>1, <1>2 DEF DoneWith
    <3> QED
      BY <3>1, <3>2
  <2> QED
    BY <1>1, <1>2, <1>6, <2>1, FilesMove DEF SearchInv
<1>8. SlotsInv'
  <2>1. \A g \in Found : Emitting(g)' <=> Emitting(g)
    BY <1>5, <1>6 DEF Emitting, Holds, Idle
  <2> QED
    BY <1>1, <1>2, <1>6, <2>1, SlotsStay
<1> QED
  BY <1>4, <1>7, <1>8

LEMMA KeptByWalked == SearchInv /\ SearchTypes' /\ Walked => SearchInv'
<1> SUFFICES ASSUME SearchInv, SearchTypes', Walked, ~closed
             PROVE  EndInv' /\ FilesInv' /\ SlotsInv'
  BY OpenStays DEF Walked
<1>1. Unbroken /\ EndInv /\ FilesInv /\ SlotsInv /\ \A i \in 1..Len(feed) : feed[i].kind # "done"
  BY WalkIsUnbroken DEF Walked
<1>2. \A f \in Found : Emitted(f)' = Emitted(f)
  BY EmittedStays DEF Walked
<1>3. EndInv'
  BY <1>1 DEF EndInv, Walked
<1>4. FilesInv'
  BY <1>1, <1>2, FilesStay DEF SearchInv, Walked
<1>5. SlotsInv'
  BY <1>1, <1>2, SlotsStay DEF Walked, Emitting, Holds
<1> QED
  BY <1>3, <1>4, <1>5

\* A walk that failed leaves no end in the feed, and nothing to keep.
LEMMA KeptByFailing ==
  ASSUME SearchInv, SearchTypes', Breaks \/ (SendEnd /\ search = "failing")
  PROVE  SearchInv'
<1> SUFFICES ASSUME ~closed
             PROVE  EndInv' /\ ~Unbroken'
  BY OpenStays DEF Breaks, SendEnd
<1>1. /\ EndInv /\ feed \in Seq(Events)
      /\ search # "over" /\ search' \in {"failing", "over"}
      /\ UNCHANGED <<quit, truncated>>
      /\ \A w \in Walker : walker'[w] = Idle
  BY DEF SearchInv, SearchTypes, EndInv, Breaks, SendEnd
<1>2. \A i \in 1..Len(feed) : feed[i].kind # "done"
  BY <1>1 DEF EndInv
<1>3. feed' = feed \/ feed' = Append(feed, Error)
  BY DEF Breaks, SendEnd
<1>4. \A i \in 1..Len(feed') : feed'[i].kind # "done"
  <2>1. CASE feed' = feed
    BY <1>2, <2>1
  <2>2. CASE feed' = Append(feed, Error)
    BY <1>1, <1>2, <2>2, EventTypes, AppendProperties, LenProperties
  <2> QED
    BY <1>3, <2>1, <2>2
<1>5. EndInv'
  BY <1>1, <1>4 DEF EndInv
<1> QED
  BY <1>1, <1>4, <1>5 DEF Unbroken

LEMMA KeptBySendEnd == SearchInv /\ SearchTypes' /\ SendEnd /\ search = "ending" => SearchInv'
<1> SUFFICES ASSUME SearchInv, SearchTypes', SendEnd, search = "ending", ~closed
             PROVE  EndInv' /\ FilesInv' /\ SlotsInv'
  BY OpenStays DEF SendEnd
<1>1. Unbroken /\ EndInv /\ FilesInv /\ SlotsInv /\ \A i \in 1..Len(feed) : feed[i].kind # "done"
  BY WalkIsUnbroken DEF SendEnd
<1>2. /\ feed' = Append(feed, Done(truncated)) /\ search = "ending" /\ search' = "over"
      /\ UNCHANGED <<todo, walker, reserved, truncated, quit, entries, lost>>
  BY DEF SendEnd
<1>3. feed \in Seq(Events) /\ truncated \in BOOLEAN
  BY DEF SearchInv, SearchTypes
<1>5. /\ Done(truncated) \in Events /\ Done(truncated).kind = "done"
      /\ Done(truncated).truncated = truncated
  BY <1>3, EventTypes
<1>4. \A f \in Found : Emitted(f)' = Emitted(f)
  BY <1>2, <1>5, EmittedByEnd DEF SearchInv
<1>6. EndInv'
  <2>1. /\ Len(feed) \in Nat /\ Len(feed') = Len(feed) + 1
        /\ feed'[Len(feed')] = Done(truncated)
        /\ \A i \in 1..Len(feed) : feed'[i] = feed[i]
    BY <1>2, <1>3, <1>5, LenProperties, AppendProperties
  <2>2. \A i \in 1..Len(feed') : feed'[i].kind = "done" => i = Len(feed')
    BY <1>1, <2>1
  <2> QED
    BY <1>1, <1>2, <1>5, <2>1, <2>2 DEF EndInv
<1>7. FilesInv'
  BY <1>1, <1>2, <1>4, FilesStay DEF SearchInv
<1>8. SlotsInv'
  BY <1>1, <1>2, <1>4, SlotsStay DEF Emitting, Holds
<1> QED
  BY <1>6, <1>7, <1>8

LEMMA KeptByCollect == SearchInv /\ SearchTypes' /\ (Collect \/ Lose) => SearchInv'
<1> SUFFICES ASSUME SearchInv, SearchTypes', Collect \/ Lose, ~closed
             PROVE  EndInv' /\ (Unbroken' => FilesInv' /\ SlotsInv')
  BY OpenStays DEF Collect, Lose
<1>1. /\ EndInv /\ (Unbroken => FilesInv /\ SlotsInv)
      /\ feed' = Tail(feed) /\ feed # <<>> /\ feed \in Seq(Events)
      /\ UNCHANGED <<search, todo, walker, reserved, truncated, quit>>
  BY DEF SearchInv, SearchTypes, Collect, Lose
<1>2. /\ Len(feed) \in Nat /\ Len(feed') = Len(feed) - 1
      /\ \A i \in 1..Len(feed') : feed'[i] = feed[i + 1] /\ i + 1 \in 1..Len(feed)
  BY <1>1, LenProperties, EmptySeq, HeadTailProperties
<1>3. \A f \in Found : Emitted(f)' = Emitted(f)
  BY EmittedByCollect, EmittedByLose DEF SearchInv
<1>4. EndInv'
  <2>1. ASSUME NEW i \in 1..Len(feed'), feed'[i].kind = "done"
        PROVE  i = Len(feed') /\ search = "over" /\ feed'[i].truncated = truncated /\ (quit \/ todo = {})
    <3>1. feed[i + 1].kind = "done" /\ i + 1 \in 1..Len(feed) /\ feed'[i] = feed[i + 1]
      BY <1>2, <2>1
    <3>2. /\ i + 1 = Len(feed) /\ search = "over" /\ feed[i + 1].truncated = truncated
          /\ quit \/ todo = {}
      BY <1>1, <3>1 DEF EndInv
    <3> QED
      BY <1>2, <2>1, <3>1, <3>2
  <2> QED
    BY <1>1, <2>1 DEF EndInv
<1>5. Unbroken' => Unbroken
  BY <1>1, <1>2 DEF Unbroken
<1>6. ASSUME FilesInv PROVE FilesInv'
  BY <1>1, <1>3, <1>6, FilesStay DEF SearchInv
<1>7. ASSUME SlotsInv PROVE SlotsInv'
  BY <1>1, <1>3, <1>7, SlotsStay DEF Emitting, Holds
<1> QED
  BY <1>1, <1>4, <1>5, <1>6, <1>7

LEMMA KeptByDeath == SearchInv /\ SearchTypes' /\ WalkersDie => SearchInv'
<1> SUFFICES ASSUME SearchInv, SearchTypes', WalkersDie, ~closed
             PROVE  EndInv' /\ (Unbroken' => FilesInv' /\ SlotsInv')
  BY OpenStays DEF WalkersDie
<1>1. EndInv /\ (Unbroken => FilesInv /\ SlotsInv)
  BY DEF SearchInv
<1>2. EndInv'
  BY <1>1 DEF EndInv, WalkersDie
<1>3. ASSUME Unbroken' PROVE FilesInv' /\ SlotsInv'
  <2>1. Unbroken /\ search = "over"
    BY <1>1, <1>3 DEF Unbroken, WalkersDie, EndInv
  <2>2. walker' = walker
    BY <1>1, <2>1 DEF EndInv, WalkersDie, SearchInv, SearchTypes
  <2>3. \A f \in Found : Emitted(f)' = Emitted(f)
    BY EmittedStays DEF WalkersDie
  <2>4. FilesInv'
    BY <1>1, <2>1, <2>2, <2>3, FilesStay DEF WalkersDie, SearchInv
  <2>5. SlotsInv'
    BY <1>1, <2>1, <2>2, <2>3, SlotsStay DEF Emitting, Holds, WalkersDie
  <2> QED
    BY <2>4, <2>5
<1> QED
  BY <1>2, <1>3

\* The end is heard: what has been counted is all there was to count.
LEMMA KeptByFinish == SearchInv /\ SearchTypes' /\ Finish => SearchInv'
<1> SUFFICES ASSUME SearchInv, SearchTypes', Finish
             PROVE  SearchInv'
  OBVIOUS
<1>1. /\ ~closed /\ closed' = TRUE /\ feed # <<>> /\ feed \in Seq(Events)
      /\ Head(feed).kind = "done" /\ result' = Results(entries, Head(feed).truncated)
      /\ EndInv /\ UNCHANGED entries /\ Head(feed) = feed[1]
  BY HeadTailProperties DEF SearchInv, SearchTypes, Finish
<1>2. 1 \in 1..Len(feed) /\ Len(feed) \in Nat
  BY <1>1, LenProperties, EmptySeq
<1>3. /\ Len(feed) = 1 /\ search = "over" /\ feed[1].truncated = truncated
      /\ quit \/ todo = {}
  BY <1>1, <1>2 DEF EndInv
<1>4. /\ FilesInv /\ SlotsInv /\ (quit => truncated)
      /\ \A w \in Walker : walker[w] = Idle
  BY <1>1, <1>2, <1>3 DEF SearchInv, Unbroken, EndInv
<1>5. \A f \in Found : Reported(f)' = Emitted(f) /\ Emitted(f) \in Nat
  <2> TAKE f \in Found
  <2>1. feed[1] # Match(f)
    BY <1>1, EventTypes
  <2>2. Places(feed, Match(f)) = {}
    BY <1>3, <2>1 DEF Places
  <2>3. Counted(f) \in Nat /\ lost[f] \in Nat
    BY EmittedIsNat DEF SearchInv
  <2>4. Emitted(f) = lost[f] + Counted(f)
    BY <2>2, <2>3, FS_EmptySet DEF Emitted
  <2>5. result'.entries = entries /\ lost' = lost
    BY <1>1 DEF Results, Finish
  <2>6. Reported(f)' = lost[f] + Counted(f)
    BY <2>5 DEF Reported, Counted
  <2> QED
    BY <2>3, <2>4, <2>6
<1>6. {f \in Found : Reported(f)' > 0} = Slots
  BY <1>4, <1>5 DEF Slots, Emitting, Holds
<1>7. \A f \in Slots \ Flaky : Reported(f)' = Matches[f]
  <2> TAKE f \in Slots \ Flaky
  <2>1. f \in Found /\ Emitted(f) > 0
    BY <1>5, <1>6
  <2>2. f \notin todo /\ \A w \in Walker : ~Holds(w, f)
    BY <1>4, <2>1 DEF FilesInv, Holds
  <2>3. DoneWith(f)
    BY <1>4, <2>1, <2>2 DEF FilesInv
  <2> QED
    BY <1>5, <2>1, <2>3 DEF DoneWith
<1>8. IF truncated THEN Cardinality(Slots) = ResultCap ELSE Found \ Flaky \subseteq Slots
  <2>1. CASE truncated
    BY <1>4, <2>1 DEF SlotsInv
  <2>2. ASSUME ~truncated, NEW f \in Found \ Flaky PROVE f \in Slots
    <3>1. f \notin todo /\ \A w \in Walker : ~Holds(w, f)
      BY <1>3, <1>4, <2>2 DEF Holds
    <3>2. Emitted(f) = Matches[f] /\ Matches[f] \in Nat \ {0}
      BY <1>4, <2>2, <3>1, SearchAssumption DEF FilesInv, DoneWith, SearchAssumption
    <3> QED
      BY <3>2 DEF Slots
  <2> QED
    BY <2>1, <2>2
<1>9. result'.truncated = truncated
  BY <1>1, <1>3 DEF Results
<1>10. ResultsAreWhole'
  BY <1>6, <1>7, <1>8, <1>9 DEF ResultsAreWhole
<1> QED
  BY <1>1, <1>10 DEF SearchInv, ResultInv

\* A call that fails reports nothing.
LEMMA KeptByBroken == SearchInv /\ SearchTypes' /\ FinishBroken => SearchInv'
BY DEF FinishBroken, Failed, SearchInv, ResultInv, ResultsAreWhole

LEMMA SearchSteps == SearchInv /\ SearchStep => SearchInv'
<1> SUFFICES ASSUME SearchInv, SearchStep PROVE SearchInv'
  OBVIOUS
<1>1. SearchTypes'
  BY StepTypes DEF SearchInv
<1>2. CASE \E w \in Walker : Take(w) \/ TakeNone(w) \/ Accept(w) \/ Overflow(w) \/ Emit(w) \/ Leave(w)
  <2>1. PICK w \in Walker : Take(w) \/ TakeNone(w) \/ Accept(w) \/ Overflow(w) \/ Emit(w) \/ Leave(w)
    BY <1>2
  <2>2. CASE TakeNone(w)
    BY <1>1, <2>2, ClosedStays DEF TakeNone
  <2> QED
    BY <1>1, <2>1, <2>2, KeptByTake, KeptByAccept, KeptByOverflow, KeptByEmit, KeptByLeave
<1>3. CASE Close
  BY <1>1, <1>3, ClosedStays DEF Close
<1>4. CASE UNCHANGED searchVars
  <2>1. ASSUME ~closed PROVE EndInv' /\ (Unbroken' => FilesInv' /\ SlotsInv')
    <3>1. EndInv /\ (Unbroken => FilesInv /\ SlotsInv)
      BY <2>1 DEF SearchInv
    <3>2. \A f \in Found : Emitted(f)' = Emitted(f)
      BY <1>4, EmittedStays DEF searchVars
    <3>3. FilesInv => FilesInv'
      BY <1>4, <3>2, FilesStay DEF SearchInv, searchVars
    <3>4. SlotsInv => SlotsInv'
      BY <1>4, <3>2, SlotsStay DEF searchVars, Emitting, Holds
    <3>5. EndInv' /\ (Unbroken' => Unbroken)
      BY <1>4, <3>1 DEF EndInv, Unbroken, searchVars
    <3> QED
      BY <3>1, <3>3, <3>4, <3>5
  <2> QED
    BY <1>1, <1>4, <2>1, OpenStays DEF searchVars
<1>5. CASE Breaks \/ SendEnd
  BY <1>1, <1>5, KeptByFailing, KeptBySendEnd DEF SendEnd
<1> QED
  BY <1>1, <1>2, <1>3, <1>4, <1>5, KeptByStart, KeptByWalked, KeptByCollect, KeptByFinish,
    KeptByBroken, KeptByDeath DEF SearchStep, WalkStep

LEMMA SearchStarts == SearchInit => SearchInv
<1> SUFFICES ASSUME SearchInit PROVE SearchInv
  OBVIOUS
<1>1. SearchTypes
  <2>1. <<>> \in Seq(Events) /\ DOMAIN <<>> = {}
    OBVIOUS
  <2>2. entries \in [DOMAIN entries -> Nat \ {0}]
    <3>1. entries = <<>> /\ DOMAIN entries = {}
      BY <2>1 DEF SearchInit
    <3>2. entries = [f \in {} |-> 1]
      BY <3>1
    <3> QED
      BY <3>1, <3>2
  <2> QED
    BY <2>1, <2>2 DEF SearchInit, SearchTypes
<1>2. \A f \in Found : Emitted(f) = 0
  <2> TAKE f \in Found
  <2>1. Places(feed, Match(f)) = {} /\ Counted(f) = 0 /\ lost[f] = 0
    BY DEF SearchInit, Places, Counted
  <2> QED
    BY <2>1, FS_EmptySet DEF Emitted
<1>3. Slots = {}
  BY <1>2 DEF Slots, Emitting, Holds, SearchInit
<1>4. SlotsInv
  <2>1. IsFiniteSet(Slots) /\ Cardinality(Slots) = 0
    BY <1>3, FS_EmptySet
  <2> QED
    BY <2>1, SearchAssumption DEF SlotsInv, SearchInit, SearchAssumption
<1>5. FilesInv
  BY <1>2 DEF FilesInv, SearchInit
<1>6. EndInv
  BY DEF EndInv, SearchInit
<1> QED
  BY <1>1, <1>4, <1>5, <1>6 DEF SearchInv, ResultInv, ResultsAreWhole, NoResult, SearchInit

\* What a step of the session, its worker or the line does to the search.
LEMMA FilesSearch == [Next]_vars => SearchStep
<1> SUFFICES ASSUME [Next]_vars PROVE SearchStep
  OBVIOUS
<1>1. CASE UNCHANGED vars
  BY <1>1 DEF vars, SearchStep
<1>2. ASSUME NEW op \in Ops, NEW p \in Path, Make(op, p) PROVE SearchStep
  BY <1>2 DEF Make, SearchStep
<1>3. CASE Drop \/ DropSearch \/ FeedBreaks \/ SearchBreaks
  BY <1>3 DEF Drop, DropSearch, FeedBreaks, SearchBreaks, SearchStep
<1>4. CASE Dies
  <2>1. CASE search = "none"
    BY <1>4, <2>1 DEF Dies, SearchStep, searchVars
  <2>2. CASE search # "none"
    BY <1>4, <2>2 DEF Dies, SearchStep, WalkersDie
  <2> QED
    BY <2>1, <2>2
<1>5. CASE HostStep
  BY <1>5 DEF HostStep, Answered, Fails, SearchReturns, Hear, Overtaken, SearchStep
<1>6. CASE TaskStep
  <2>1. CASE Receive \/ CancelTask \/ ServeFails \/ LateCall
    BY <2>1 DEF Receive, CancelTask, ServeFails, LateCall, SearchStep
  <2>2. ASSUME NEW t \in tasks,
               Open(t) \/ Copy(t) \/ Copied(t) \/ OpFails(t) \/ Read(t) \/ MakeFolder(t) \/ OpenSearch(t)
        PROVE  SearchStep
    BY <2>2 DEF Open, Copy, Copied, OpFails, Read, MakeFolder, OpenSearch, SearchStep
  <2> QED
    BY <1>6, <2>1, <2>2 DEF TaskStep
<1>7. CASE Walk
  BY <1>7 DEF Walk, SearchStep
<1>8. ASSUME NEW d \in Direction, Line(d) PROVE SearchStep
  BY <1>8 DEF Line, Write, SearchStep
<1> QED
  BY <1>1, <1>2, <1>3, <1>4, <1>5, <1>6, <1>7, <1>8 DEF Next

(* A search that reports its end accounts for every match it should have   *)
(* found, as counted or as thrown away before the answer was decoded, for  *)
(* any number of walkers, any files and capacities, and whatever becomes   *)
(* of the worker and the call (search.rs, feed.rs:506, io/mod.rs).         *)
THEOREM ResultsWhole == Spec => []ResultsAreWhole
<1>1. Init => SearchInv
  BY SearchStarts DEF Init
<1>2. SearchInv /\ [Next]_vars => SearchInv'
  BY SearchSteps, FilesSearch
<1>3. SearchInv => ResultsAreWhole
  BY DEF SearchInv
<1> QED
  BY <1>1, <1>2, <1>3, PTL DEF Spec

-----------------------------------------------------------------------------
(* The line.                                                               *)

Chunk == Nat \X Nat
Body == Seq(Chunk)

Requests == [kind : {"request"}, call : 1..MaxCalls, op : Ops, path : Path,
             attached : BOOLEAN, body : {<<>>}]
Cancels == [kind : {"cancel"}, call : 1..MaxCalls, attached : {FALSE}]
Responses == [kind : {"response"}, call : 0..MaxCalls, status : {"ok", "error", "failed", "search"},
              attached : BOOLEAN, body : {<<>>}]
Messages == Requests \union Cancels \union Responses

Sources == {NoSource} \union [kind : {"bytes"}, body : Body] \union [kind : {"file"}, path : Path]
Items == [msg : Messages, source : Sources]
Frames == [kind : {"json"}, msg : Messages] \union [kind : {"content"}, body : Body] \union {Torn}

LineTypes ==
  /\ queue \in [Direction -> Seq(Items)]
  /\ staging \in [Direction -> Body]
  /\ staged \in [Direction -> BOOLEAN]
  /\ wire \in [Direction -> Seq(Frames)]
  /\ received \in [Direction -> Seq(Body)]
  /\ writing \in [Direction -> BOOLEAN]
  /\ reading \in [Direction -> {"open", "ended", "failed"}]
  /\ linked \in BOOLEAN

\* The last thing written is an attachment: its message is the next to be written.
Trailing(d) ==
  IF wire[d] = <<>> THEN received[d] # <<>> ELSE wire[d][Len(wire[d])].kind = "content"

\* No attachment follows another, neither on the wire nor behind one received, and
\* nothing follows a torn frame.
ApartInv(d) ==
  /\ Len(received[d]) <= 1
  /\ received[d] # <<>> /\ wire[d] # <<>> => wire[d][1].kind # "content"
  /\ \A i \in 1..Len(wire[d]) :
       wire[d][i].kind = "content" /\ i + 1 \in 1..Len(wire[d]) => wire[d][i + 1].kind # "content"
  /\ \A i \in 1..Len(wire[d]) : wire[d][i].kind = "torn" => i = Len(wire[d]) /\ ~linked

WriterInv(d) ==
  /\ linked /\ Trailing(d) => staged[d] /\ queue[d] # <<>>
  /\ ~linked => queue[d] = <<>> /\ ~writing[d]
  /\ staging[d] # <<>> => queue[d] # <<>> /\ ~staged[d] /\ Head(queue[d]).source # NoSource

\* Attachment b goes with message m.
Carries(d, m, b) ==
  \/ \E i \in 1..Len(wire[d]) :
       i + 1 \in 1..Len(wire[d]) /\ wire[d][i] = Attached(b) /\ wire[d][i + 1] = Json(m)
  \/ received[d] = <<b>> /\ wire[d] # <<>> /\ wire[d][1] = Json(m)
  \/ /\ linked /\ staged[d] /\ queue[d] # <<>> /\ Head(queue[d]).msg = m
     /\ IF wire[d] = <<>> THEN received[d] = <<b>> ELSE wire[d][Len(wire[d])] = Attached(b)

\* The messages on their way.
Waits(d) == {queue[d][i].msg : i \in 1..Len(queue[d])}
Flies(d) == {m \in Messages : \E i \in 1..Len(wire[d]) : wire[d][i] = Json(m)}
Under(d) == Waits(d) \union Flies(d)

IsRequest(m) == m.kind = "request"

\* A request is on its way once.
OnceInv ==
  /\ \A i, j \in 1..Len(queue["up"]) :
       IsRequest(queue["up"][i].msg) /\ IsRequest(queue["up"][j].msg)
         /\ queue["up"][i].msg.call = queue["up"][j].msg.call => i = j
  /\ \A i, j \in 1..Len(wire["up"]) :
       wire["up"][i].kind = "json" /\ wire["up"][j].kind = "json"
         /\ IsRequest(wire["up"][i].msg) /\ IsRequest(wire["up"][j].msg)
         /\ wire["up"][i].msg.call = wire["up"][j].msg.call => i = j
  /\ \A m \in Waits("up"), n \in Flies("up") : IsRequest(m) /\ IsRequest(n) => m.call # n.call

-----------------------------------------------------------------------------
(* Calls, tasks and files.                                                 *)

Entries == {Absent, Dir} \union [kind : {"file"}, body : Body]
Tasks == [id : 1..MaxCalls, op : Ops, path : Path, at : {"open", "copy"}, next : Nat \ {0}, body : Body]
Lates == [op : Writes \union {"folder"}, path : Path]
           \union [op : {"piece"}, path : Path, at : Nat \ {0}, piece : Chunk]
Calls == [at : {"sending", "waiting", "hearing"}, id : 1..MaxCalls, op : Ops, path : Path, clean : BOOLEAN]

FileTypes ==
  /\ disk \in [Path -> Entries]
  /\ made \in 0..MaxCalls
  /\ call \in {NoCall} \union Calls
  /\ tasks \subseteq Tasks
  /\ late \subseteq Lates
  /\ known \in [Path -> [sure : BOOLEAN, file : Entries]]
  /\ seen \in {NotSeen} \union [sure : BOOLEAN, path : Path, file : Entries]

Waiting == call.at \in {"sending", "waiting"}

\* Requests go up and responses down; none is of a call to come.
WayInv ==
  /\ \A m \in Under("up") : m.kind \in {"request", "cancel"} /\ m.call <= made
  /\ \A m \in Under("down") : m.kind = "response" /\ m.call <= made
  /\ \A t \in tasks : t.id <= made

\* A call is in one place: asked, being done, or answered.
Asked(n) == \E m \in Under("up") : IsRequest(m) /\ m.call = n
Doing(n) == \E t \in tasks : t.id = n
Replied(n) == \E m \in Under("down") : m.call = n

PlaceInv ==
  /\ \A n \in 1..MaxCalls : /\ Asked(n) => ~Doing(n) /\ ~Replied(n)
                            /\ Doing(n) => ~Replied(n)
  /\ \A t, u \in tasks : t.id = u.id => t = u

\* The call the tools wait in is the last, and nobody has cancelled it.
CallInv == Waiting =>
  /\ call.id = made
  /\ \A m \in Under("up") : m.call = call.id => IsRequest(m) /\ m.op = call.op /\ m.path = call.path
  /\ \A t \in tasks : t.id = call.id => t.op = call.op /\ t.path = call.path

\* What a request carries is what it is to write.
UpInv ==
  /\ \A i \in 1..Len(queue["up"]) : queue["up"][i].source # NoSource =>
       /\ IsRequest(queue["up"][i].msg)
       /\ queue["up"][i].source = [kind |-> "bytes", body |-> Content(queue["up"][i].msg.call)]
  /\ \A m \in Under("up") : IsRequest(m) => (m.attached <=> m.op \in Writes)
  /\ staging["up"] # <<>> => staging["up"] = Head(queue["up"]).source.body
  /\ \A m \in Messages, b \in Body : Carries("up", m, b) => b = Content(m.call)

TaskInv == \A t \in tasks :
  /\ t.op \in Writes => t.body = Content(t.id)
  /\ t.at = "copy" => t.op \in Writes
  /\ t.at = "open" => t.next = 1
  /\ t.next <= Len(t.body) + 1

\* Nothing changes a file of which something is known.
Harmless(op, p) == op \in {"read", "search"} \/ (op = "create" /\ known[p].file # Absent)
SureInv == \A p \in Path : known[p].sure =>
  /\ disk[p] = known[p].file
  /\ \A m \in Under("up") : IsRequest(m) /\ m.path = p => Harmless(m.op, p)
  /\ \A t \in tasks : t.path = p => Harmless(t.op, p) /\ t.at = "open"
  /\ \A e \in late : e.path = p => Harmless(e.op, p)

\* A write beside no others has the file to itself.
CleanInv == Waiting /\ call.clean /\ call.op \in Writes \union {"folder"} =>
  /\ \A m \in Under("up") : IsRequest(m) /\ m.path = call.path => m.call = call.id
  /\ \A t \in tasks : t.path = call.path =>
       /\ t.id = call.id
       /\ t.at = "copy" => disk[call.path] = File(SubSeq(Content(call.id), 1, t.next - 1))
  /\ \A e \in late : e.path # call.path
  /\ \A m \in Under("down") : m.call = call.id /\ m.status = "ok" =>
       disk[call.path] = IF call.op = "folder" THEN Dir ELSE File(Content(call.id))

\* A read of a file of which something is known brings back that.
ReadInv == Waiting /\ call.op = "read" /\ known[call.path].sure =>
  LET f == known[call.path].file IN
  /\ \A m \in Under("down") : m.call = call.id =>
       IF m.status = "ok" THEN m.attached /\ f # Absent ELSE m.status = "failed" \/ f = Absent
  /\ \A i \in 1..Len(queue["down"]) :
       queue["down"][i].msg.call = call.id /\ queue["down"][i].source # NoSource =>
         /\ queue["down"][i].msg.status = "ok"
         /\ queue["down"][i].source = [kind |-> "file", path |-> call.path]
  /\ staging["down"] # <<>> /\ Head(queue["down"]).msg.call = call.id =>
       Len(staging["down"]) <= Len(f.body)
         /\ staging["down"] = SubSeq(f.body, 1, Len(staging["down"]))
  /\ \A m \in Messages, b \in Body : Carries("down", m, b) /\ m.call = call.id => f = File(b)

SeenInv == seen.sure => ~Waiting /\ seen.file = known[seen.path].file

RestInv == \A d \in Direction : ApartInv(d) /\ WriterInv(d)
FilesKept ==
  /\ LineTypes /\ FileTypes /\ RestInv /\ OnceInv /\ WayInv /\ PlaceInv /\ CallInv
  /\ UpInv /\ TaskInv /\ SureInv /\ CleanInv /\ ReadInv /\ SeenInv


-----------------------------------------------------------------------------
(* Sequences.                                                              *)

\* The element that is appended is the last, the others keep their places.
LEMMA Appended ==
  ASSUME NEW S, NEW q \in Seq(S), NEW e \in S
  PROVE  /\ Append(q, e) \in Seq(S) /\ Append(q, e) # <<>>
         /\ Len(q) \in Nat /\ Len(Append(q, e)) = Len(q) + 1
         /\ 1..Len(Append(q, e)) = 1..Len(q) \union {Len(q) + 1}
         /\ Len(q) + 1 \notin 1..Len(q)
         /\ \A i \in 1..Len(q) : Append(q, e)[i] = q[i]
         /\ Append(q, e)[Len(q) + 1] = e
         /\ Head(Append(q, e)) = IF q = <<>> THEN e ELSE Head(q)
<1>1. /\ Append(q, e) \in Seq(S) /\ Append(q, e) # <<>> /\ Len(Append(q, e)) = Len(q) + 1
      /\ \A i \in 1..Len(q) : Append(q, e)[i] = q[i]
      /\ Append(q, e)[Len(q) + 1] = e
  BY AppendProperties
<1>2. Len(q) \in Nat
  BY LenProperties
<1>3. 1..(Len(q) + 1) = 1..Len(q) \union {Len(q) + 1}
  BY <1>2
<1>4. Head(Append(q, e)) = Append(q, e)[1]
  BY <1>1, HeadTailProperties
<1>5. CASE q = <<>>
  BY <1>1, <1>2, <1>3, <1>4, <1>5, EmptySeq
<1>6. CASE q # <<>>
  <2>1. Head(q) = q[1] /\ 1 \in 1..Len(q)
    BY <1>2, <1>6, EmptySeq, HeadTailProperties
  <2> QED
    BY <1>1, <1>2, <1>3, <1>4, <1>6, <2>1
<1> QED
  BY <1>5, <1>6

\* The elements of a tail were one place further back.
LEMMA Tailed ==
  ASSUME NEW S, NEW q \in Seq(S), q # <<>>
  PROVE  /\ Tail(q) \in Seq(S) /\ Head(q) = q[1] /\ q[1] \in S /\ 1 \in 1..Len(q)
         /\ Len(q) \in Nat \ {0} /\ Len(Tail(q)) = Len(q) - 1
         /\ Tail(q) = <<>> <=> Len(q) = 1
         /\ \A i \in 1..Len(Tail(q)) : i \in Nat /\ i + 1 \in 1..Len(q) /\ i + 1 # 1 /\ Tail(q)[i] = q[i + 1]
         /\ \A i \in 1..Len(q) : i # 1 => i - 1 \in 1..Len(Tail(q)) /\ Tail(q)[i - 1] = q[i]
<1>1. /\ Tail(q) \in Seq(S) /\ Head(q) \in S /\ Len(Tail(q)) = Len(q) - 1
      /\ \A i \in 1..Len(Tail(q)) : Tail(q)[i] = q[i + 1]
      /\ Head(q) = q[1]
  BY HeadTailProperties
<1>2. Len(q) \in Nat \ {0}
  BY LenProperties, EmptySeq
<1>3. Tail(q) = <<>> <=> Len(q) = 1
  BY <1>1, <1>2, EmptySeq
<1>4. \A i \in 1..Len(Tail(q)) : i \in Nat /\ i + 1 \in 1..Len(q) /\ i + 1 # 1
  BY <1>1, <1>2
<1>5. ASSUME NEW i \in 1..Len(q), i # 1
      PROVE  i - 1 \in 1..Len(Tail(q)) /\ Tail(q)[i - 1] = q[i]
  <2>1. i - 1 \in 1..Len(Tail(q))
    BY <1>1, <1>2, <1>5
  <2>2. Tail(q)[i - 1] = q[(i - 1) + 1]
    BY <1>1, <2>1
  <2> QED
    BY <1>2, <1>5, <2>1, <2>2
<1> QED
  BY <1>1, <1>2, <1>3, <1>4, <1>5

LEMMA Placed ==
  ASSUME NEW S, NEW q \in Seq(S)
  PROVE  /\ Len(q) \in Nat /\ (q = <<>> <=> Len(q) = 0)
         /\ \A i \in 1..Len(q) : q[i] \in S
         /\ q # <<>> => 1 \in 1..Len(q) /\ Len(q) \in 1..Len(q) /\ Head(q) = q[1]
BY LenProperties, EmptySeq, ElementOfSeq, HeadTailProperties

LEMMA OnlyOne ==
  ASSUME NEW S, NEW q \in Seq(S), q # <<>>, Len(q) <= 1
  PROVE  q = <<Head(q)>> /\ Len(q) = 1
BY Tailed

-----------------------------------------------------------------------------
(* One direction of the line.                                              *)

LEMMA LineParts ==
  ASSUME LineTypes, NEW d \in Direction
  PROVE  /\ queue[d] \in Seq(Items) /\ staging[d] \in Body /\ staged[d] \in BOOLEAN
         /\ wire[d] \in Seq(Frames) /\ received[d] \in Seq(Body)
         /\ \A i \in 1..Len(queue[d]) : queue[d][i].msg \in Messages /\ queue[d][i].source \in Sources
         /\ \A i \in 1..Len(wire[d]) : wire[d][i] \in Frames
         /\ Len(wire[d]) \in Nat /\ Len(queue[d]) \in Nat /\ Len(received[d]) \in Nat
<1>1. /\ queue[d] \in Seq(Items) /\ staging[d] \in Body /\ staged[d] \in BOOLEAN
      /\ wire[d] \in Seq(Frames) /\ received[d] \in Seq(Body)
  BY DEF LineTypes
<1>2. \A x \in Items : x.msg \in Messages /\ x.source \in Sources
  BY DEF Items
<1> QED
  BY <1>1, <1>2, Placed

LEMMA FrameKinds ==
  /\ \A m \in Messages : Json(m) \in Frames /\ Json(m).kind = "json" /\ Json(m).msg = m
  /\ \A b \in Body : Attached(b) \in Frames /\ Attached(b).kind = "content" /\ Attached(b).body = b
  /\ Torn \in Frames /\ Torn.kind = "torn"
  /\ \A f \in Frames : f.kind = "json" => f.msg \in Messages /\ f = Json(f.msg)
  /\ \A f \in Frames : f.kind = "content" => f.body \in Body /\ f = Attached(f.body)
  /\ \A m, n \in Messages : Json(m) = Json(n) => m = n
  /\ \A b, c \in Body : Attached(b) = Attached(c) => b = c
BY DEF Frames, Json, Attached, Torn

\* A direction in which nothing happens.
Still(d) ==
  /\ queue'[d] = queue[d] /\ staging'[d] = staging[d] /\ staged'[d] = staged[d]
  /\ wire'[d] = wire[d] /\ received'[d] = received[d] /\ writing'[d] = writing[d]
  /\ linked' = linked

\* What has not come up with m and b in this step.
CarriesNoMore(d) == \A m \in Messages, b \in Body : Carries(d, m, b)' => Carries(d, m, b)

LEMMA StillLine ==
  ASSUME NEW d \in Direction, Still(d)
  PROVE  /\ ApartInv(d) => ApartInv(d)'
         /\ WriterInv(d) => WriterInv(d)'
         /\ Waits(d)' = Waits(d) /\ Flies(d)' = Flies(d) /\ Under(d)' = Under(d)
         /\ CarriesNoMore(d)
BY DEF Still, ApartInv, WriterInv, Trailing, Waits, Flies, Under, CarriesNoMore, Carries

\* A message is queued where the writer runs.
Queues(d, m, src) ==
  /\ queue'[d] = Append(queue[d], [msg |-> m, source |-> src])
  /\ staging'[d] = staging[d] /\ staged'[d] = staged[d]
  /\ wire'[d] = wire[d] /\ received'[d] = received[d] /\ writing'[d] = writing[d]
  /\ linked' = linked /\ writing[d]

LEMMA QueuesLine ==
  ASSUME LineTypes, NEW d \in Direction, ApartInv(d), WriterInv(d),
         NEW m \in Messages, NEW src \in Sources, Queues(d, m, src)
  PROVE  /\ ApartInv(d)' /\ WriterInv(d)'
         /\ Waits(d)' = Waits(d) \union {m} /\ Flies(d)' = Flies(d)
         /\ Under(d)' = Under(d) \union {m}
         /\ CarriesNoMore(d)
<1> DEFINE x == [msg |-> m, source |-> src]
<1>1. x \in Items /\ x.msg = m
  BY DEF Items
<1>2. queue[d] \in Seq(Items)
  BY LineParts
<1>3. /\ queue'[d] # <<>>
      /\ Len(queue[d]) \in Nat /\ Len(queue'[d]) = Len(queue[d]) + 1
      /\ 1..Len(queue'[d]) = 1..Len(queue[d]) \union {Len(queue[d]) + 1}
      /\ \A i \in 1..Len(queue[d]) : queue'[d][i] = queue[d][i]
      /\ queue'[d][Len(queue[d]) + 1] = x
      /\ Head(queue'[d]) = IF queue[d] = <<>> THEN x ELSE Head(queue[d])
  <2>1. queue'[d] = Append(queue[d], x)
    BY DEF Queues
  <2> HIDE DEF x
  <2> QED
    BY <1>1, <1>2, <2>1, Appended
<1>4. linked
  BY DEF Queues, WriterInv
<1> HIDE DEF x
<1>5. ApartInv(d)'
  BY <1>4 DEF ApartInv, Queues
<1>6. WriterInv(d)'
  BY <1>3, <1>4 DEF WriterInv, Queues, Trailing
<1>7. Waits(d)' = Waits(d) \union {m}
  BY <1>1, <1>3 DEF Waits
<1>8. Flies(d)' = Flies(d)
  BY DEF Flies, Queues
<1>9. CarriesNoMore(d)
  <2>1. ASSUME NEW n \in Messages, NEW b \in Body, Carries(d, n, b)' PROVE Carries(d, n, b)
    <3>1. CASE \/ \E i \in 1..Len(wire[d]) :
                    i + 1 \in 1..Len(wire[d]) /\ wire[d][i] = Attached(b) /\ wire[d][i + 1] = Json(n)
               \/ received[d] = <<b>> /\ wire[d] # <<>> /\ wire[d][1] = Json(n)
      BY <3>1 DEF Carries
    <3>2. CASE /\ staged[d] /\ Head(queue'[d]).msg = n
               /\ IF wire[d] = <<>> THEN received[d] = <<b>> ELSE wire[d][Len(wire[d])] = Attached(b)
      <4>1. Trailing(d)
        BY <3>2, FrameKinds DEF Trailing
      <4>2. queue[d] # <<>>
        BY <1>4, <4>1 DEF WriterInv
      <4> QED
        BY <1>3, <1>4, <3>2, <4>2 DEF Carries
    <3> QED
      BY <2>1, <3>1, <3>2 DEF Carries, Queues
  <2> QED
    BY <2>1 DEF CarriesNoMore
<1> QED
  BY <1>5, <1>6, <1>7, <1>8, <1>9 DEF Under


\* A message is taken off the wire.
Delivers(d) ==
  /\ wire[d] # <<>> /\ Head(wire[d]).kind = "json"
  /\ wire'[d] = Tail(wire[d]) /\ received'[d] = <<>>
  /\ queue'[d] = queue[d] /\ staging'[d] = staging[d] /\ staged'[d] = staged[d]
  /\ writing'[d] = writing[d] /\ linked' = linked

LEMMA DeliversLine ==
  ASSUME LineTypes, NEW d \in Direction, ApartInv(d), WriterInv(d), Delivers(d)
  PROVE  /\ ApartInv(d)' /\ WriterInv(d)'
         /\ Waits(d)' = Waits(d) /\ Flies(d)' \subseteq Flies(d)
         /\ Head(wire[d]).msg \in Flies(d) /\ Flies(d) \subseteq Flies(d)' \union {Head(wire[d]).msg}
         /\ CarriesNoMore(d)
<1>1. wire[d] \in Seq(Frames) /\ wire[d] # <<>>
  BY LineParts DEF Delivers
<1>2. /\ Head(wire[d]) = wire[d][1] /\ wire[d][1] \in Frames /\ 1 \in 1..Len(wire[d])
      /\ Len(wire[d]) \in Nat \ {0} /\ Len(wire'[d]) = Len(wire[d]) - 1
      /\ wire'[d] = <<>> <=> Len(wire[d]) = 1
      /\ \A i \in 1..Len(wire'[d]) : i \in Nat /\ i + 1 \in 1..Len(wire[d]) /\ i + 1 # 1 /\ wire'[d][i] = wire[d][i + 1]
      /\ \A i \in 1..Len(wire[d]) : i # 1 => i - 1 \in 1..Len(wire'[d]) /\ wire'[d][i - 1] = wire[d][i]
  BY <1>1, Tailed DEF Delivers
<1>3. wire[d][1] = Json(Head(wire[d]).msg) /\ Head(wire[d]).msg \in Messages
  BY <1>2, FrameKinds DEF Delivers
<1>4. wire'[d] # <<>> => wire'[d][Len(wire'[d])] = wire[d][Len(wire[d])] /\ Len(wire'[d]) \in 1..Len(wire'[d])
  BY <1>2
<1>5. ApartInv(d)'
  <2>1. Len(received'[d]) = 0 /\ received'[d] = <<>>
    BY EmptySeq DEF Delivers
  <2>2. ASSUME NEW i \in 1..Len(wire'[d]), wire'[d][i].kind = "content", i + 1 \in 1..Len(wire'[d])
        PROVE  wire'[d][i + 1].kind # "content"
    <3>1. wire'[d][i] = wire[d][i + 1] /\ wire'[d][i + 1] = wire[d][(i + 1) + 1]
          /\ i + 1 \in 1..Len(wire[d]) /\ (i + 1) + 1 \in 1..Len(wire[d])
      BY <1>2, <2>2
    <3> QED
      BY <2>2, <3>1 DEF ApartInv
  <2>3. ASSUME NEW i \in 1..Len(wire'[d]), wire'[d][i].kind = "torn" PROVE i = Len(wire'[d]) /\ ~linked
    <3>1. wire'[d][i] = wire[d][i + 1] /\ i + 1 \in 1..Len(wire[d]) /\ i \in Nat
      BY <1>2
    <3>2. i + 1 = Len(wire[d]) /\ ~linked
      BY <2>3, <3>1 DEF ApartInv
    <3> QED
      BY <1>2, <3>1, <3>2
  <2>4. (linked' <=> linked) /\ Len(received'[d]) <= 1
    BY <2>1 DEF Delivers
  <2>5. \A i \in 1..Len(wire'[d]) : wire'[d][i].kind = "torn" => i = Len(wire'[d]) /\ ~linked'
    BY <2>3, <2>4
  <2> QED
    BY <2>1, <2>2, <2>4, <2>5 DEF ApartInv
<1>6. Trailing(d)' => Trailing(d)
  BY <1>1, <1>4 DEF Trailing, Delivers
<1>7. WriterInv(d)'
  BY <1>6 DEF WriterInv, Delivers
<1>8. Waits(d)' = Waits(d)
  BY DEF Waits, Delivers
<1>9. Flies(d)' \subseteq Flies(d)
  BY <1>2 DEF Flies
<1>10. Head(wire[d]).msg \in Flies(d)
  BY <1>2, <1>3 DEF Flies
<1>11. ASSUME NEW m \in Flies(d) PROVE m \in Flies(d)' \union {Head(wire[d]).msg}
  <2>1. PICK i \in 1..Len(wire[d]) : wire[d][i] = Json(m)
    BY <1>11 DEF Flies
  <2>2. m \in Messages
    BY <1>11 DEF Flies
  <2>3. CASE i = 1
    <3>1. Json(m) = Json(Head(wire[d]).msg)
      BY <1>3, <2>1, <2>3
    <3> QED
      BY <1>3, <2>2, <3>1, FrameKinds
  <2>4. CASE i # 1
    BY <1>2, <2>1, <2>2, <2>4 DEF Flies
  <2> QED
    BY <2>3, <2>4
<1>12. CarriesNoMore(d)
  <2>1. ASSUME NEW n \in Messages, NEW b \in Body, Carries(d, n, b)' PROVE Carries(d, n, b)
    <3>0. received'[d] # <<b>>
      BY DEF Delivers
    <3>1. CASE \E i \in 1..Len(wire'[d]) :
                  i + 1 \in 1..Len(wire'[d]) /\ wire'[d][i] = Attached(b) /\ wire'[d][i + 1] = Json(n)
      <4>1. PICK i \in 1..Len(wire'[d]) :
                  i + 1 \in 1..Len(wire'[d]) /\ wire'[d][i] = Attached(b) /\ wire'[d][i + 1] = Json(n)
        BY <3>1
      <4>2. wire[d][i + 1] = Attached(b) /\ wire[d][(i + 1) + 1] = Json(n)
            /\ i + 1 \in 1..Len(wire[d]) /\ (i + 1) + 1 \in 1..Len(wire[d])
        BY <1>2, <4>1
      <4> QED
        BY <4>2 DEF Carries
    <3>2. CASE /\ linked' /\ staged'[d] /\ queue'[d] # <<>> /\ Head(queue'[d]).msg = n
               /\ wire'[d] # <<>> /\ wire'[d][Len(wire'[d])] = Attached(b)
      BY <1>1, <1>4, <3>2 DEF Carries, Delivers
    <3> QED
      BY <2>1, <3>0, <3>1, <3>2 DEF Carries
  <2> QED
    BY <2>1 DEF CarriesNoMore
<1> QED
  BY <1>5, <1>7, <1>8, <1>9, <1>10, <1>11, <1>12

\* What has been received goes with the message that claims it.
LEMMA Claimed ==
  ASSUME LineTypes, NEW d \in Direction, ApartInv(d), wire[d] # <<>>, Head(wire[d]).kind = "json",
         received[d] # <<>>
  PROVE  Head(received[d]) \in Body /\ Carries(d, Head(wire[d]).msg, Head(received[d]))
<1>1. /\ wire[d] \in Seq(Frames) /\ received[d] \in Seq(Body)
      /\ Len(received[d]) <= 1
  BY LineParts DEF ApartInv
<1>2. /\ Head(wire[d]) = wire[d][1] /\ wire[d][1] \in Frames
      /\ Head(received[d]) = received[d][1] /\ received[d][1] \in Body /\ Len(received[d]) \in Nat \ {0}
  BY <1>1, Tailed
<1>3. received[d] = <<Head(received[d])>>
  BY <1>1, OnlyOne
<1>4. wire[d][1] = Json(Head(wire[d]).msg)
  BY <1>2, FrameKinds
<1> QED
  BY <1>2, <1>3, <1>4 DEF Carries


\* The writer task puts the message at the head on the wire.
LEMMA WritesJsonLine ==
  ASSUME LineTypes, NEW d \in Direction, ApartInv(d), WriterInv(d), WriteJson(d)
  PROVE  /\ ApartInv(d)' /\ WriterInv(d)'
         /\ queue[d] # <<>> /\ queue'[d] = Tail(queue[d]) /\ staging'[d] = <<>>
         /\ Waits(d)' \subseteq Waits(d) /\ Head(queue[d]).msg \in Waits(d)
         /\ Flies(d)' = Flies(d) \union {Head(queue[d]).msg}
         /\ Under(d)' = Under(d)
         /\ CarriesNoMore(d)
<1> DEFINE h == Head(queue[d]).msg
<1>1. /\ queue[d] # <<>> /\ queue'[d] = Tail(queue[d]) /\ wire'[d] = Append(wire[d], Json(h))
      /\ linked /\ linked' = linked /\ writing'[d] = writing[d]
      /\ staged'[d] = FALSE /\ staging'[d] = staging[d] /\ received'[d] = received[d]
      /\ AtHead(d) = NoSource \/ staged[d]
  BY DEF WriteJson, Busy, MustStage, LineTypes
<1>2. /\ Head(queue[d]) = queue[d][1] /\ 1 \in 1..Len(queue[d]) /\ queue[d][1] \in Items
      /\ \A i \in 1..Len(queue'[d]) : i + 1 \in 1..Len(queue[d]) /\ queue'[d][i] = queue[d][i + 1]
      /\ \A i \in 1..Len(queue[d]) : i # 1 => i - 1 \in 1..Len(queue'[d]) /\ queue'[d][i - 1] = queue[d][i]
  <2>1. queue[d] \in Seq(Items) /\ queue[d] # <<>> /\ queue'[d] = Tail(queue[d])
    BY <1>1, LineParts
  <2> QED
    BY <2>1, Tailed
<1>3. h \in Messages
  BY <1>2 DEF Items
<1> HIDE DEF h
<1>4. /\ Json(h) \in Frames /\ Json(h).kind = "json" /\ wire[d] \in Seq(Frames)
  BY <1>3, LineParts, FrameKinds
<1>5. /\ wire'[d] # <<>> /\ Len(wire[d]) \in Nat /\ Len(wire'[d]) = Len(wire[d]) + 1
      /\ 1..Len(wire'[d]) = 1..Len(wire[d]) \union {Len(wire[d]) + 1}
      /\ \A i \in 1..Len(wire[d]) : wire'[d][i] = wire[d][i]
      /\ wire'[d][Len(wire[d]) + 1] = Json(h)
      /\ wire[d] = <<>> <=> Len(wire[d]) = 0
  BY <1>1, <1>4, Appended, EmptySeq
<1>6. ApartInv(d)'
  <2>1. wire'[d][1].kind = "content" => wire[d] # <<>> /\ wire'[d][1] = wire[d][1]
    BY <1>4, <1>5
  <2>2. ASSUME NEW i \in 1..Len(wire'[d]), wire'[d][i].kind = "content", i + 1 \in 1..Len(wire'[d])
        PROVE  wire'[d][i + 1].kind # "content"
    <3>1. CASE i + 1 \in 1..Len(wire[d])
      <4>1. i \in 1..Len(wire[d])
        BY <1>5, <3>1
      <4> QED
        BY <1>5, <2>2, <3>1, <4>1 DEF ApartInv
    <3>2. CASE i + 1 = Len(wire[d]) + 1
      BY <1>4, <1>5, <3>2
    <3> QED
      BY <1>5, <2>2, <3>1, <3>2
  <2>3. ASSUME NEW i \in 1..Len(wire'[d]) PROVE wire'[d][i].kind # "torn"
    BY <1>1, <1>4, <1>5 DEF ApartInv
  <2> QED
    BY <1>1, <2>1, <2>2, <2>3 DEF ApartInv
<1>7. staging[d] = <<>>
  BY <1>1 DEF WriterInv, AtHead
<1>8. WriterInv(d)'
  <2>1. ~Trailing(d)'
    BY <1>4, <1>5 DEF Trailing
  <2> QED
    BY <1>1, <1>7, <2>1 DEF WriterInv
<1>9. Waits(d)' \subseteq Waits(d) /\ h \in Waits(d) /\ Waits(d) \subseteq Waits(d)' \union {h}
  <2>1. h = queue[d][1].msg
    BY <1>2 DEF h
  <2>2. ASSUME NEW m \in Waits(d)' PROVE m \in Waits(d)
    <3>1. PICK i \in 1..Len(queue'[d]) : m = queue'[d][i].msg
      BY <2>2 DEF Waits
    <3>2. i + 1 \in 1..Len(queue[d]) /\ m = queue[d][i + 1].msg
      BY <1>2, <3>1
    <3> QED
      BY <3>2 DEF Waits
  <2>3. h \in Waits(d)
    BY <1>2, <2>1 DEF Waits
  <2>4. ASSUME NEW m \in Waits(d) PROVE m \in Waits(d)' \union {h}
    <3>1. PICK i \in 1..Len(queue[d]) : m = queue[d][i].msg
      BY <2>4 DEF Waits
    <3>2. CASE i # 1
      <4>1. i - 1 \in 1..Len(queue'[d]) /\ m = queue'[d][i - 1].msg
        BY <1>2, <3>1, <3>2
      <4> QED
        BY <4>1 DEF Waits
    <3> QED
      BY <2>1, <3>1, <3>2
  <2> QED
    BY <2>2, <2>3, <2>4
<1>10. Flies(d)' = Flies(d) \union {h}
  <2>1. ASSUME NEW m \in Flies(d)' PROVE m \in Flies(d) \union {h}
    <3>1. m \in Messages /\ \E i \in 1..Len(wire'[d]) : wire'[d][i] = Json(m)
      BY <2>1 DEF Flies
    <3> QED
      BY <1>3, <1>5, <3>1, FrameKinds DEF Flies
  <2>2. ASSUME NEW m \in Flies(d) PROVE m \in Flies(d)'
    BY <1>5, <2>2 DEF Flies
  <2>3. h \in Flies(d)'
    BY <1>3, <1>5 DEF Flies
  <2> QED
    BY <2>1, <2>2, <2>3
<1>11. CarriesNoMore(d)
  <2>1. ASSUME NEW n \in Messages, NEW b \in Body, Carries(d, n, b)' PROVE Carries(d, n, b)
    <3>1. ASSUME NEW i \in 1..Len(wire'[d]), i + 1 \in 1..Len(wire'[d]),
                 wire'[d][i] = Attached(b), wire'[d][i + 1] = Json(n)
          PROVE  Carries(d, n, b)
      <4>1. i \in 1..Len(wire[d])
        BY <1>5, <3>1
      <4>2. CASE i + 1 \in 1..Len(wire[d])
        BY <1>5, <3>1, <4>1, <4>2 DEF Carries
      <4>3. CASE i + 1 = Len(wire[d]) + 1
        <5>1. n = h /\ wire[d][Len(wire[d])] = Attached(b) /\ wire[d] # <<>>
          BY <1>3, <1>5, <3>1, <4>1, <4>3, FrameKinds
        <5>2. Trailing(d)
          BY <5>1, FrameKinds DEF Trailing
        <5> QED
          BY <1>1, <5>1, <5>2 DEF Carries, WriterInv, h
      <4> QED
        BY <1>5, <3>1, <4>2, <4>3
    <3>2. ASSUME received[d] = <<b>>, wire'[d][1] = Json(n) PROVE Carries(d, n, b)
      <4>1. CASE wire[d] # <<>>
        BY <1>5, <3>2, <4>1 DEF Carries
      <4>2. CASE wire[d] = <<>>
        <5>1. n = h
          BY <1>3, <1>5, <3>2, <4>2, FrameKinds
        <5>2. Trailing(d)
          BY <3>2, <4>2 DEF Trailing
        <5> QED
          BY <1>1, <3>2, <4>2, <5>1, <5>2 DEF Carries, WriterInv, h
      <4> QED
        BY <4>1, <4>2
    <3> QED
      BY <1>1, <2>1, <3>1, <3>2 DEF Carries
  <2> QED
    BY <2>1 DEF CarriesNoMore
<1> QED
  BY <1>1, <1>6, <1>7, <1>8, <1>9, <1>10, <1>11 DEF Under, h

\* The staged bytes become a frame, which goes with the message at the head.
LEMMA WritesContentLine ==
  ASSUME LineTypes, NEW d \in Direction, ApartInv(d), WriterInv(d), WriteContent(d)
  PROVE  /\ ApartInv(d)' /\ WriterInv(d)'
         /\ Waits(d)' = Waits(d) /\ Flies(d)' = Flies(d) /\ Under(d)' = Under(d)
         /\ queue'[d] = queue[d] /\ staging'[d] = <<>>
         /\ \A m \in Messages, b \in Body :
              Carries(d, m, b)' => \/ Carries(d, m, b)
                                   \/ queue[d] # <<>> /\ m = Head(queue[d]).msg /\ b = staging[d]
<1>1. /\ queue[d] # <<>> /\ queue'[d] = queue[d] /\ wire'[d] = Append(wire[d], Attached(staging[d]))
      /\ linked /\ linked' = linked /\ writing'[d] = writing[d]
      /\ staged'[d] /\ staging'[d] = <<>> /\ received'[d] = received[d]
      /\ ~staged[d]
  BY DEF WriteContent, Busy, MustStage, LineTypes
<1>2. PICK f : f = Attached(staging[d])
  OBVIOUS
<1>3. /\ f \in Frames /\ f.kind = "content" /\ wire[d] \in Seq(Frames) /\ staging[d] \in Body
      /\ wire'[d] = Append(wire[d], f)
  BY <1>1, <1>2, LineParts, FrameKinds
<1>5. /\ wire'[d] # <<>> /\ Len(wire[d]) \in Nat /\ Len(wire'[d]) = Len(wire[d]) + 1
      /\ 1..Len(wire'[d]) = 1..Len(wire[d]) \union {Len(wire[d]) + 1}
      /\ \A i \in 1..Len(wire[d]) : wire'[d][i] = wire[d][i]
      /\ wire'[d][Len(wire[d]) + 1] = f
      /\ wire[d] = <<>> <=> Len(wire[d]) = 0
  BY <1>1, <1>3, Appended, EmptySeq
<1>6. ~Trailing(d)
  BY <1>1 DEF WriterInv
<1>7. ApartInv(d)'
  <2>1. received[d] # <<>> => wire[d] # <<>> /\ wire'[d][1] = wire[d][1]
    BY <1>5, <1>6 DEF Trailing
  <2>2. ASSUME NEW i \in 1..Len(wire'[d]), wire'[d][i].kind = "content", i + 1 \in 1..Len(wire'[d])
        PROVE  wire'[d][i + 1].kind # "content"
    <3>1. CASE i + 1 \in 1..Len(wire[d])
      <4>1. i \in 1..Len(wire[d])
        BY <1>5, <3>1
      <4> QED
        BY <1>5, <2>2, <3>1, <4>1 DEF ApartInv
    <3>2. CASE i + 1 = Len(wire[d]) + 1
      <4>1. i = Len(wire[d]) /\ i \in 1..Len(wire[d]) /\ wire[d] # <<>>
        BY <1>5, <3>2
      <4> QED
        BY <1>5, <1>6, <2>2, <4>1 DEF Trailing
    <3> QED
      BY <1>5, <2>2, <3>1, <3>2
  <2>3. ASSUME NEW i \in 1..Len(wire'[d]) PROVE wire'[d][i].kind # "torn"
    BY <1>1, <1>3, <1>5 DEF ApartInv
  <2> QED
    BY <1>1, <2>1, <2>2, <2>3 DEF ApartInv
<1>8. WriterInv(d)'
  BY <1>1 DEF WriterInv
<1>9. Waits(d)' = Waits(d)
  BY <1>1 DEF Waits
<1>10. Flies(d)' = Flies(d)
  <2>1. \A m \in Messages : f # Json(m)
    BY <1>3, FrameKinds
  <2> QED
    BY <1>5, <2>1 DEF Flies
<1>11. ASSUME NEW n \in Messages, NEW b \in Body, Carries(d, n, b)'
       PROVE  Carries(d, n, b) \/ (n = Head(queue[d]).msg /\ b = staging[d])
  <2>0. f # Json(n) /\ (f = Attached(b) => b = staging[d])
    BY <1>2, <1>3, FrameKinds
  <2>1. ASSUME NEW i \in 1..Len(wire'[d]), i + 1 \in 1..Len(wire'[d]),
               wire'[d][i] = Attached(b), wire'[d][i + 1] = Json(n)
        PROVE  Carries(d, n, b)
    <3>1. i \in 1..Len(wire[d]) /\ i + 1 \in 1..Len(wire[d])
      BY <1>5, <2>0, <2>1
    <3> QED
      BY <1>5, <2>1, <3>1 DEF Carries
  <2>2. ASSUME received[d] = <<b>>, wire'[d][1] = Json(n) PROVE Carries(d, n, b)
    <3>1. wire[d] # <<>>
      BY <1>5, <2>0, <2>2
    <3> QED
      BY <1>5, <2>2, <3>1 DEF Carries
  <2>3. ASSUME Head(queue[d]).msg = n, wire'[d][Len(wire'[d])] = Attached(b)
        PROVE  n = Head(queue[d]).msg /\ b = staging[d]
    BY <1>5, <2>0, <2>3
  <2> QED
    BY <1>1, <1>5, <1>11, <2>1, <2>2, <2>3 DEF Carries
<1> QED
  BY <1>1, <1>7, <1>8, <1>9, <1>10, <1>11 DEF Under


\* Part of the attachment is staged.
LEMMA StagesLine ==
  ASSUME LineTypes, NEW d \in Direction, ApartInv(d), WriterInv(d),
         NEW pieces \in Body, StagePieces(d, pieces)
  PROVE  /\ ApartInv(d)' /\ WriterInv(d)'
         /\ Waits(d)' = Waits(d) /\ Flies(d)' = Flies(d) /\ Under(d)' = Under(d)
         /\ queue'[d] = queue[d] /\ queue[d] # <<>> /\ staging'[d] = staging[d] \o pieces
         /\ CarriesNoMore(d)
<1>1. /\ queue[d] # <<>> /\ queue'[d] = queue[d] /\ wire'[d] = wire[d]
      /\ linked /\ linked' = linked /\ writing'[d] = writing[d]
      /\ staged'[d] = staged[d] /\ received'[d] = received[d]
      /\ ~staged[d] /\ Head(queue[d]).source # NoSource
      /\ staging'[d] = staging[d] \o pieces
  BY DEF StagePieces, Busy, MustStage, AtHead, LineTypes
<1> QED
  BY <1>1 DEF ApartInv, WriterInv, Trailing, Waits, Flies, Under, CarriesNoMore, Carries

\* The writer task stops.
LEMMA FailsLine ==
  ASSUME LineTypes, NEW d \in Direction, ApartInv(d), WriterInv(d), StageFails(d)
  PROVE  /\ ApartInv(d)' /\ WriterInv(d)'
         /\ queue'[d] = <<>> /\ staging'[d] = <<>> /\ wire'[d] = wire[d]
         /\ Waits(d)' = {} /\ Flies(d)' = Flies(d)
         /\ CarriesNoMore(d)
<1>1. /\ queue'[d] = <<>> /\ wire'[d] = wire[d] /\ linked /\ linked' = linked
      /\ staged'[d] = staged[d] /\ received'[d] = received[d] /\ staging'[d] = <<>>
      /\ ~staged[d]
  BY DEF StageFails, Busy, MustStage, LineTypes
<1>2. ~Trailing(d)
  BY <1>1 DEF WriterInv
<1>3. Len(queue'[d]) = 0
  BY <1>1, EmptySeq
<1>4. Waits(d)' = {}
  BY <1>3 DEF Waits
<1> QED
  BY <1>1, <1>2, <1>4 DEF ApartInv, WriterInv, Trailing, Flies, CarriesNoMore, Carries

\* An attachment is taken off the wire, to be claimed by what follows it.
LEMMA ReadsContentLine ==
  ASSUME LineTypes, NEW d \in Direction, ApartInv(d), WriterInv(d), ReadContent(d)
  PROVE  /\ ApartInv(d)' /\ WriterInv(d)'
         /\ queue'[d] = queue[d] /\ staging'[d] = staging[d] /\ wire'[d] = Tail(wire[d])
         /\ received'[d] \in Seq(Body)
         /\ Waits(d)' = Waits(d) /\ Flies(d)' \subseteq Flies(d)
         /\ CarriesNoMore(d)
<1>1. /\ wire[d] # <<>> /\ Head(wire[d]).kind = "content" /\ wire'[d] = Tail(wire[d])
      /\ queue'[d] = queue[d] /\ staging'[d] = staging[d] /\ staged'[d] = staged[d]
      /\ writing'[d] = writing[d] /\ linked' = linked
      /\ received'[d] = Append(received[d], Head(wire[d]).body)
  BY DEF ReadContent, Arrived, Consume, LineTypes
<1>2. /\ Head(wire[d]) = wire[d][1] /\ wire[d][1] \in Frames /\ 1 \in 1..Len(wire[d])
      /\ Len(wire[d]) \in Nat \ {0} /\ Len(wire'[d]) = Len(wire[d]) - 1
      /\ wire'[d] = <<>> <=> Len(wire[d]) = 1
      /\ \A i \in 1..Len(wire'[d]) : i \in Nat /\ i + 1 \in 1..Len(wire[d]) /\ i + 1 # 1 /\ wire'[d][i] = wire[d][i + 1]
      /\ \A i \in 1..Len(wire[d]) : i # 1 => i - 1 \in 1..Len(wire'[d]) /\ wire'[d][i - 1] = wire[d][i]
  BY <1>1, LineParts, Tailed
<1>3. PICK a \in Body : a = Head(wire[d]).body /\ wire[d][1] = Attached(a)
  BY <1>1, <1>2, FrameKinds
<1>4. received[d] = <<>>
  BY <1>1, <1>2 DEF ApartInv
<1>5. received'[d] = <<a>> /\ received'[d] \in Seq(Body) /\ received'[d] # <<>> /\ Len(received'[d]) = 1
  BY <1>1, <1>3, <1>4
<1>6. wire'[d] # <<>> => /\ wire'[d][Len(wire'[d])] = wire[d][Len(wire[d])] /\ Len(wire'[d]) \in 1..Len(wire'[d])
                         /\ 1 \in 1..Len(wire'[d]) /\ wire'[d][1] = wire[d][2] /\ 1 + 1 \in 1..Len(wire[d])
  BY <1>2
<1>7. ApartInv(d)'
  <2>1. wire'[d] # <<>> => wire'[d][1].kind # "content"
    BY <1>1, <1>2, <1>6 DEF ApartInv
  <2>2. ASSUME NEW i \in 1..Len(wire'[d]), wire'[d][i].kind = "content", i + 1 \in 1..Len(wire'[d])
        PROVE  wire'[d][i + 1].kind # "content"
    <3>1. wire'[d][i] = wire[d][i + 1] /\ wire'[d][i + 1] = wire[d][(i + 1) + 1]
          /\ i + 1 \in 1..Len(wire[d]) /\ (i + 1) + 1 \in 1..Len(wire[d])
      BY <1>2, <2>2
    <3> QED
      BY <2>2, <3>1 DEF ApartInv
  <2>3. ASSUME NEW i \in 1..Len(wire'[d]), wire'[d][i].kind = "torn" PROVE i = Len(wire'[d]) /\ ~linked'
    <3>1. wire'[d][i] = wire[d][i + 1] /\ i + 1 \in 1..Len(wire[d]) /\ i \in Nat
      BY <1>2
    <3>2. i + 1 = Len(wire[d]) /\ ~linked
      BY <2>3, <3>1 DEF ApartInv
    <3> QED
      BY <1>1, <1>2, <3>1, <3>2
  <2> QED
    BY <1>5, <2>1, <2>2, <2>3 DEF ApartInv
<1>8. Trailing(d)' => Trailing(d)
  <2>1. CASE wire'[d] = <<>>
    BY <1>1, <1>2, <2>1 DEF Trailing
  <2>2. CASE wire'[d] # <<>>
    BY <1>1, <1>6, <2>2 DEF Trailing
  <2> QED
    BY <2>1, <2>2
<1>9. WriterInv(d)'
  BY <1>1, <1>8 DEF WriterInv
<1>10. Waits(d)' = Waits(d)
  BY <1>1 DEF Waits
<1>11. Flies(d)' \subseteq Flies(d)
  BY <1>2 DEF Flies
<1>12. CarriesNoMore(d)
  <2>1. ASSUME NEW n \in Messages, NEW b \in Body, Carries(d, n, b)' PROVE Carries(d, n, b)
    <3>1. ASSUME NEW i \in 1..Len(wire'[d]), i + 1 \in 1..Len(wire'[d]),
                 wire'[d][i] = Attached(b), wire'[d][i + 1] = Json(n)
          PROVE  Carries(d, n, b)
      <4>1. wire[d][i + 1] = Attached(b) /\ wire[d][(i + 1) + 1] = Json(n)
            /\ i + 1 \in 1..Len(wire[d]) /\ (i + 1) + 1 \in 1..Len(wire[d])
        BY <1>2, <3>1
      <4> QED
        BY <4>1 DEF Carries
    <3>2. ASSUME received'[d] = <<b>>, wire'[d] # <<>>, wire'[d][1] = Json(n) PROVE Carries(d, n, b)
      <4>1. a = b
        BY <1>5, <3>2
      <4>2. wire[d][1] = Attached(b) /\ wire[d][1 + 1] = Json(n)
        BY <1>3, <1>6, <3>2, <4>1
      <4> QED
        BY <1>2, <1>6, <3>2, <4>2 DEF Carries
    <3>3. ASSUME linked', staged'[d], queue'[d] # <<>>, Head(queue'[d]).msg = n,
                 IF wire'[d] = <<>> THEN received'[d] = <<b>> ELSE wire'[d][Len(wire'[d])] = Attached(b)
          PROVE  Carries(d, n, b)
      <4>1. CASE wire'[d] = <<>>
        <5>1. a = b
          BY <1>5, <3>3, <4>1
        <5>2. wire[d][Len(wire[d])] = Attached(b)
          BY <1>2, <1>3, <4>1, <5>1
        <5> QED
          BY <1>1, <3>3, <5>2 DEF Carries
      <4>2. CASE wire'[d] # <<>>
        BY <1>1, <1>6, <3>3, <4>2 DEF Carries
      <4> QED
        BY <4>1, <4>2
    <3> QED
      BY <2>1, <3>1, <3>2, <3>3 DEF Carries
  <2> QED
    BY <2>1 DEF CarriesNoMore
<1> QED
  BY <1>1, <1>5, <1>7, <1>9, <1>10, <1>11, <1>12

\* What is left of a frame is the end of the wire.
LEMMA ReadsTornLine ==
  ASSUME LineTypes, NEW d \in Direction, ApartInv(d), WriterInv(d), ReadTorn(d)
  PROVE  /\ ApartInv(d)' /\ WriterInv(d)'
         /\ queue'[d] = queue[d] /\ staging'[d] = staging[d] /\ wire'[d] = Tail(wire[d])
         /\ Waits(d)' = Waits(d) /\ Flies(d)' \subseteq Flies(d)
         /\ CarriesNoMore(d)
<1>1. /\ wire[d] # <<>> /\ Head(wire[d]).kind = "torn" /\ wire'[d] = Tail(wire[d])
      /\ queue'[d] = queue[d] /\ staging'[d] = staging[d] /\ staged'[d] = staged[d]
      /\ writing'[d] = writing[d] /\ linked' = linked /\ received'[d] = received[d]
  BY DEF ReadTorn, Arrived, Consume, LineTypes
<1>2. /\ Head(wire[d]) = wire[d][1] /\ 1 \in 1..Len(wire[d])
      /\ wire'[d] = <<>> <=> Len(wire[d]) = 1
  BY <1>1, LineParts, Tailed
<1>3. wire'[d] = <<>> /\ ~linked
  BY <1>1, <1>2 DEF ApartInv
<1>4. Len(wire'[d]) = 0
  BY <1>3, EmptySeq
<1>5. ApartInv(d)'
  <2>1. Len(received'[d]) <= 1
    BY <1>1 DEF ApartInv
  <2>2. ASSUME NEW i \in 1..Len(wire'[d]) PROVE FALSE
    BY <1>4
  <2> QED
    BY <1>3, <2>1, <2>2 DEF ApartInv
<1>6. WriterInv(d)'
  BY <1>1, <1>3 DEF WriterInv
<1>7. Waits(d)' = Waits(d)
  BY <1>1 DEF Waits
<1>8. Flies(d)' \subseteq Flies(d)
  BY <1>4 DEF Flies
<1>9. CarriesNoMore(d)
  <2>1. ASSUME NEW n \in Messages, NEW b \in Body, Carries(d, n, b)' PROVE FALSE
    BY <1>1, <1>3, <1>4, <2>1 DEF Carries
  <2> QED
    BY <2>1 DEF CarriesNoMore
<1> QED
  BY <1>1, <1>5, <1>6, <1>7, <1>8, <1>9

\* The connection is gone, maybe within a frame.
LEMMA UnlinksLine ==
  ASSUME LineTypes, NEW d \in Direction, ApartInv(d), WriterInv(d),
         NEW frames, Unlink(frames)
  PROVE  /\ ApartInv(d)' /\ WriterInv(d)'
         /\ queue'[d] = <<>> /\ staging'[d] = <<>>
         /\ wire'[d] \in {<<>>, wire[d], Append(wire[d], Torn)}
         /\ d = "up" => wire'[d] = <<>>
         /\ Waits(d)' = {} /\ Flies(d)' \subseteq Flies(d)
         /\ CarriesNoMore(d)
<1>1. /\ queue'[d] = <<>> /\ staging'[d] = <<>> /\ staged'[d] = staged[d]
      /\ ~writing'[d] /\ linked /\ ~linked' /\ received'[d] = received[d]
      /\ frames \in {<<>>, <<Torn>>}
      /\ wire'[d] = IF d = "up" THEN <<>> ELSE wire[d] \o frames
  <2>1. /\ wire' = [up |-> <<>>, down |-> wire["down"] \o frames]
        /\ writing' = [e \in Direction |-> FALSE] /\ queue' = [e \in Direction |-> <<>>]
        /\ staging' = [e \in Direction |-> <<>>]
        /\ linked /\ ~linked' /\ staged' = staged /\ received' = received
        /\ frames \in {<<>>, <<Torn>>}
    BY DEF Unlink
  <2>2. d = "up" \/ d = "down"
    BY DEF Direction
  <2>3. queue'[d] = <<>> /\ staging'[d] = <<>> /\ staged'[d] = staged[d] /\ received'[d] = received[d]
    BY <2>1, Zenon
  <2>4. ~writing'[d]
    BY <2>1, Zenon
  <2>5. wire'[d] = IF d = "up" THEN <<>> ELSE wire[d] \o frames
    <3>1. PICK rest : rest = wire["down"] \o frames
      OBVIOUS
    <3>2. wire' = [up |-> <<>>, down |-> rest]
      BY <2>1, <3>1
    <3>3. wire'["up"] = <<>> /\ wire'["down"] = rest
      BY <3>2
    <3> QED
      BY <2>2, <3>1, <3>3
  <2> QED
    BY <2>1, <2>3, <2>4, <2>5
<1>2. wire[d] \in Seq(Frames) /\ Len(wire[d]) \in Nat /\ Torn \in Frames
  BY LineParts, FrameKinds
<1>3. Len(queue'[d]) = 0
  BY <1>1, EmptySeq
<1>4. Waits(d)' = {}
  BY <1>3 DEF Waits
<1>5. \A i \in 1..Len(wire[d]) : wire[d][i].kind # "torn"
  BY <1>1 DEF ApartInv
<1>6. WriterInv(d)'
  BY <1>1 DEF WriterInv
<1>7. CASE wire'[d] = <<>>
  <2>1. Len(wire'[d]) = 0
    BY <1>7, EmptySeq
  <2>2. ApartInv(d)'
    <3>1. Len(received'[d]) <= 1
      BY <1>1 DEF ApartInv
    <3>2. ASSUME NEW i \in 1..Len(wire'[d]) PROVE FALSE
      BY <2>1
    <3> QED
      BY <1>7, <3>1, <3>2 DEF ApartInv
  <2>3. Flies(d)' \subseteq Flies(d)
    BY <2>1 DEF Flies
  <2>4. CarriesNoMore(d)
    <3>1. ASSUME NEW n \in Messages, NEW b \in Body, Carries(d, n, b)' PROVE FALSE
      <4>1. ~\E i \in 1..Len(wire'[d]) : i + 1 \in 1..Len(wire'[d])
        BY <2>1
      <4> QED
        BY <1>1, <1>7, <3>1, <4>1, Zenon DEF Carries
    <3> QED
      BY <3>1 DEF CarriesNoMore
  <2> QED
    BY <1>1, <1>4, <1>6, <1>7, <2>2, <2>3, <2>4
<1>8. CASE d # "up" /\ frames = <<>>
  <2>1. wire'[d] = wire[d]
    BY <1>1, <1>2, <1>8, ConcatEmptySeq
  <2>2. ApartInv(d)'
    BY <1>1, <1>5, <2>1 DEF ApartInv
  <2>3. Flies(d)' \subseteq Flies(d)
    BY <2>1 DEF Flies
  <2>4. CarriesNoMore(d)
    BY <1>1, <2>1 DEF Carries, CarriesNoMore
  <2> QED
    BY <1>1, <1>4, <1>6, <1>8, <2>1, <2>2, <2>3, <2>4
<1>9. CASE d # "up" /\ frames = <<Torn>>
  <2>1. wire'[d] = Append(wire[d], Torn)
    BY <1>1, <1>2, <1>9, AppendIsConcat
  <2>2. /\ wire'[d] # <<>> /\ Len(wire'[d]) = Len(wire[d]) + 1
        /\ 1..Len(wire'[d]) = 1..Len(wire[d]) \union {Len(wire[d]) + 1}
        /\ \A i \in 1..Len(wire[d]) : wire'[d][i] = wire[d][i]
        /\ wire'[d][Len(wire[d]) + 1] = Torn
        /\ wire[d] = <<>> <=> Len(wire[d]) = 0
    BY <1>2, <2>1, Appended, EmptySeq
  <2>3. Torn.kind = "torn"
    BY FrameKinds
  <2>4. ApartInv(d)'
    <3>1. Len(received'[d]) <= 1
      BY <1>1 DEF ApartInv
    <3>2. wire'[d][1].kind = "content" => wire[d] # <<>> /\ wire'[d][1] = wire[d][1]
      BY <1>2, <2>2, <2>3
    <3>3. ASSUME NEW i \in 1..Len(wire'[d]), wire'[d][i].kind = "content", i + 1 \in 1..Len(wire'[d])
          PROVE  wire'[d][i + 1].kind # "content"
      <4>1. CASE i + 1 \in 1..Len(wire[d])
        <5>1. i \in 1..Len(wire[d])
          BY <1>2, <2>2, <4>1
        <5> QED
          BY <2>2, <3>3, <4>1, <5>1 DEF ApartInv
      <4>2. CASE i + 1 = Len(wire[d]) + 1
        BY <2>2, <2>3, <4>2
      <4> QED
        BY <2>2, <3>3, <4>1, <4>2
    <3>4. \A i \in 1..Len(wire'[d]) : wire'[d][i].kind = "torn" => i = Len(wire'[d])
      BY <1>5, <2>2
    <3> QED
      BY <1>1, <3>1, <3>2, <3>3, <3>4 DEF ApartInv
  <2>5. Flies(d)' \subseteq Flies(d)
    <3>1. \A m \in Messages : Torn # Json(m)
      BY FrameKinds
    <3> QED
      BY <2>2, <3>1 DEF Flies
  <2>6. CarriesNoMore(d)
    <3>1. ASSUME NEW n \in Messages, NEW b \in Body, Carries(d, n, b)' PROVE Carries(d, n, b)
      <4>0. Torn # Json(n) /\ Torn # Attached(b)
        BY FrameKinds
      <4>1. ASSUME NEW i \in 1..Len(wire'[d]), i + 1 \in 1..Len(wire'[d]),
                   wire'[d][i] = Attached(b), wire'[d][i + 1] = Json(n)
            PROVE  Carries(d, n, b)
        <5>1. i \in 1..Len(wire[d]) /\ i + 1 \in 1..Len(wire[d])
          BY <2>2, <4>0, <4>1
        <5> QED
          BY <2>2, <4>1, <5>1 DEF Carries
      <4>2. ASSUME received[d] = <<b>>, wire'[d][1] = Json(n) PROVE Carries(d, n, b)
        <5>1. wire[d] # <<>> /\ wire'[d][1] = wire[d][1]
          BY <1>2, <2>2, <4>0, <4>2
        <5> QED
          BY <4>2, <5>1 DEF Carries
      <4> QED
        BY <1>1, <3>1, <4>1, <4>2 DEF Carries
    <3> QED
      BY <3>1 DEF CarriesNoMore
  <2> QED
    BY <1>1, <1>4, <1>6, <1>9, <2>1, <2>4, <2>5, <2>6
<1> QED
  BY <1>1, <1>7, <1>8, <1>9


-----------------------------------------------------------------------------
(* Types of the line.                                                      *)

LEMMA QueuedTypes ==
  ASSUME LineTypes, NEW d \in Direction, NEW m \in Messages, NEW src \in Sources,
         queue' = Queued(d, m, src),
         UNCHANGED <<staging, staged, wire, received, writing, reading, linked>>
  PROVE  LineTypes'
<1>1. [msg |-> m, source |-> src] \in Items
  BY DEF Items
<1>2. PICK x \in Items : queue' = [queue EXCEPT ![d] = Append(@, x)]
  BY <1>1 DEF Queued
<1>3. Append(queue[d], x) \in Seq(Items)
  BY LineParts, Appended
<1>4. queue' \in [Direction -> Seq(Items)]
  BY <1>2, <1>3 DEF LineTypes
<1> QED
  BY <1>4 DEF LineTypes

LEMMA StagedTypes ==
  ASSUME LineTypes, NEW d \in Direction, NEW pieces \in Body, StagePieces(d, pieces)
  PROVE  LineTypes'
<1>1. staging[d] \o pieces \in Body
  BY LineParts, ConcatProperties DEF Body
<1>2. staging' \in [Direction -> Body]
  BY <1>1 DEF StagePieces, LineTypes
<1> QED
  BY <1>2 DEF StagePieces, LineTypes

LEMMA AppendedFrame ==
  ASSUME LineTypes, NEW d \in Direction, NEW f \in Frames, wire' = [wire EXCEPT ![d] = Append(@, f)]
  PROVE  wire' \in [Direction -> Seq(Frames)]
<1>1. Append(wire[d], f) \in Seq(Frames)
  BY LineParts, Appended
<1> QED
  BY <1>1 DEF LineTypes

LEMMA ConsumedFrame ==
  ASSUME LineTypes, NEW d \in Direction, wire[d] # <<>>, Consume(d)
  PROVE  wire' \in [Direction -> Seq(Frames)] /\ wire'[d] = Tail(wire[d])
<1>1. Tail(wire[d]) \in Seq(Frames)
  BY LineParts, Tailed
<1> QED
  BY <1>1 DEF LineTypes, Consume

LEMMA NothingIsTyped == <<>> \in Body /\ <<>> \in Seq(Items) /\ <<>> \in Seq(Frames) /\ <<>> \in Seq(Body)
BY EmptySeq DEF Body

LEMMA WroteContentTypes ==
  ASSUME LineTypes, NEW d \in Direction, WriteContent(d)
  PROVE  LineTypes'
<1>1. PICK f \in Frames : f = Attached(staging[d])
  BY LineParts, FrameKinds
<1>2. wire' \in [Direction -> Seq(Frames)]
  BY <1>1, AppendedFrame DEF WriteContent
<1>3. staging' \in [Direction -> Body]
  BY NothingIsTyped DEF WriteContent, LineTypes
<1>4. staged' \in [Direction -> BOOLEAN]
  BY DEF WriteContent, LineTypes
<1> QED
  BY <1>2, <1>3, <1>4 DEF WriteContent, LineTypes

LEMMA WroteJsonTypes ==
  ASSUME LineTypes, NEW d \in Direction, WriteJson(d)
  PROVE  LineTypes'
<1>1. queue[d] # <<>> /\ queue[d] \in Seq(Items)
  BY LineParts DEF WriteJson, Busy
<1>2. Head(queue[d]) \in Items /\ Tail(queue[d]) \in Seq(Items)
  BY <1>1, Tailed
<1>3. PICK f \in Frames : f = Json(Head(queue[d]).msg)
  BY <1>2, FrameKinds DEF Items
<1>4. wire' \in [Direction -> Seq(Frames)]
  BY <1>3, AppendedFrame DEF WriteJson
<1>5. queue' \in [Direction -> Seq(Items)]
  BY <1>2 DEF WriteJson, LineTypes
<1>6. staged' \in [Direction -> BOOLEAN]
  BY DEF WriteJson, LineTypes
<1> QED
  BY <1>4, <1>5, <1>6 DEF WriteJson, LineTypes

LEMMA StageFailedTypes ==
  ASSUME LineTypes, NEW d \in Direction, StageFails(d)
  PROVE  LineTypes'
<1>1. queue' \in [Direction -> Seq(Items)] /\ staging' \in [Direction -> Body] /\ writing' \in [Direction -> BOOLEAN]
  BY NothingIsTyped DEF StageFails, LineTypes
<1> QED
  BY <1>1 DEF StageFails, LineTypes

LEMMA ReadTypes ==
  ASSUME LineTypes, NEW d \in Direction, ReadContent(d) \/ ReadTorn(d) \/ ReadEnd(d)
  PROVE  LineTypes'
<1>1. CASE ReadContent(d)
  <2>1. wire' \in [Direction -> Seq(Frames)]
    BY <1>1, ConsumedFrame DEF ReadContent, Arrived
  <2>2. Head(wire[d]) \in Frames /\ Head(wire[d]).kind = "content"
    BY <1>1, LineParts, Tailed DEF ReadContent, Arrived
  <2>3. Head(wire[d]).body \in Body
    BY <2>2, FrameKinds
  <2>4. Append(received[d], Head(wire[d]).body) \in Seq(Body)
    BY <2>3, LineParts, Appended
  <2>5. received' \in [Direction -> Seq(Body)]
    BY <1>1, <2>4 DEF ReadContent, LineTypes
  <2> QED
    BY <1>1, <2>1, <2>5 DEF ReadContent, LineTypes
<1>2. CASE ReadTorn(d)
  <2>1. wire' \in [Direction -> Seq(Frames)]
    BY <1>2, ConsumedFrame DEF ReadTorn, Arrived
  <2> QED
    BY <1>2, <2>1 DEF ReadTorn, LineTypes
<1>3. CASE ReadEnd(d)
  BY <1>3 DEF ReadEnd, LineTypes
<1> QED
  BY <1>1, <1>2, <1>3

LEMMA DeliveredTypes ==
  ASSUME LineTypes, NEW d \in Direction, Delivered(d),
         queue' \in [Direction -> Seq(Items)],
         UNCHANGED <<staging, staged, writing, reading, linked>>
  PROVE  LineTypes'
<1>1. wire' \in [Direction -> Seq(Frames)]
  BY ConsumedFrame DEF Delivered, Arrived
<1>2. received' \in [Direction -> Seq(Body)]
  BY NothingIsTyped DEF Delivered, LineTypes
<1> QED
  BY <1>1, <1>2 DEF LineTypes

LEMMA BothWays ==
  ASSUME NEW S, NEW a \in S, NEW b \in S
  PROVE  [up |-> a, down |-> b] \in [{"up", "down"} -> S]
OBVIOUS

LEMMA UnlinkedTypes ==
  ASSUME LineTypes, NEW frames, Unlink(frames)
  PROVE  LineTypes'
<1>1. /\ writing' = [e \in Direction |-> FALSE] /\ queue' = [e \in Direction |-> <<>>]
      /\ staging' = [e \in Direction |-> <<>>] /\ ~linked' /\ linked' \in BOOLEAN
      /\ staged' = staged /\ received' = received
      /\ reading' = [reading EXCEPT !["up"] = "ended"]
      /\ frames \in {<<>>, <<Torn>>}
  BY DEF Unlink
<1>2. Direction = {"up", "down"}
  BY DEF Direction
<1>3. wire["down"] \o frames \in Seq(Frames)
  <2>1. Torn \in Frames
    BY FrameKinds
  <2>2. frames \in Seq(Frames)
    <3>1. CASE frames = <<>>
      BY <3>1, NothingIsTyped
    <3>2. CASE frames = <<Torn>>
      <4>1. PICK f \in Frames : f = Torn
        BY <2>1
      <4>2. frames = <<f>>
        BY <3>2, <4>1
      <4> QED
        BY <4>2
    <3> QED
      BY <1>1, <3>1, <3>2
  <2>3. wire["down"] \in Seq(Frames)
    BY <1>2, LineParts
  <2> QED
    BY <2>2, <2>3, ConcatProperties
<1>4. wire' \in [Direction -> Seq(Frames)]
  <2>1. PICK rest \in Seq(Frames) : rest = wire["down"] \o frames
    BY <1>3
  <2>2. wire' = [up |-> <<>>, down |-> rest]
    BY <2>1 DEF Unlink
  <2> QED
    BY <1>2, <2>2, NothingIsTyped, BothWays
<1>5. queue' \in [Direction -> Seq(Items)] /\ staging' \in [Direction -> Body] /\ writing' \in [Direction -> BOOLEAN]
  BY <1>1, NothingIsTyped
<1>6. reading' \in [Direction -> {"open", "ended", "failed"}]
  BY <1>1, <1>2 DEF LineTypes
<1> QED
  BY <1>1, <1>4, <1>5, <1>6 DEF LineTypes

-----------------------------------------------------------------------------
(* A request is on its way once.                                           *)

LEMMA OnceStill ==
  ASSUME OnceInv, Still("up")
  PROVE  OnceInv'
<1>1. Waits("up")' = Waits("up") /\ Flies("up")' = Flies("up")
  BY DEF Still, Waits, Flies
<1> QED
  BY <1>1 DEF OnceInv, Still

LEMMA OnceQueued ==
  ASSUME LineTypes, OnceInv, NEW m \in Messages, NEW src \in Sources, Queues("up", m, src),
         \A n \in Under("up") : IsRequest(m) /\ IsRequest(n) => n.call # m.call
  PROVE  OnceInv'
<1> DEFINE x == [msg |-> m, source |-> src]
<1>1. x \in Items /\ x.msg = m
  BY DEF Items
<1>2. queue["up"] \in Seq(Items)
  BY LineParts DEF Direction
<1>3. /\ 1..Len(queue'["up"]) = 1..Len(queue["up"]) \union {Len(queue["up"]) + 1}
      /\ \A i \in 1..Len(queue["up"]) : queue'["up"][i] = queue["up"][i]
      /\ queue'["up"][Len(queue["up"]) + 1] = x
  <2>1. queue'["up"] = Append(queue["up"], x)
    BY DEF Queues
  <2> HIDE DEF x
  <2> QED
    BY <1>1, <1>2, <2>1, Appended
<1> HIDE DEF x
<1>4. \A i \in 1..Len(queue["up"]) : queue["up"][i].msg \in Under("up")
  BY DEF Under, Waits
<1>5. \A i \in 1..Len(queue["up"]) : IsRequest(m) /\ IsRequest(queue["up"][i].msg) => queue["up"][i].msg.call # m.call
  BY <1>4
<1>6. \A i, j \in 1..Len(queue'["up"]) :
        IsRequest(queue'["up"][i].msg) /\ IsRequest(queue'["up"][j].msg)
          /\ queue'["up"][i].msg.call = queue'["up"][j].msg.call => i = j
  <2> SUFFICES ASSUME NEW i \in 1..Len(queue'["up"]), NEW j \in 1..Len(queue'["up"]),
                      IsRequest(queue'["up"][i].msg), IsRequest(queue'["up"][j].msg),
                      queue'["up"][i].msg.call = queue'["up"][j].msg.call
               PROVE  i = j
    OBVIOUS
  <2>1. CASE i \in 1..Len(queue["up"]) /\ j \in 1..Len(queue["up"])
    BY <1>3, <2>1 DEF OnceInv
  <2>2. CASE i \in 1..Len(queue["up"]) /\ j = Len(queue["up"]) + 1
    BY <1>1, <1>3, <1>5, <2>2
  <2>3. CASE i = Len(queue["up"]) + 1 /\ j \in 1..Len(queue["up"])
    BY <1>1, <1>3, <1>5, <2>3
  <2> QED
    BY <1>3, <2>1, <2>2, <2>3
<1>7. wire'["up"] = wire["up"]
  BY DEF Queues
<1>8. Flies("up")' = Flies("up")
  BY <1>7 DEF Flies
<1>9. Waits("up")' = Waits("up") \union {m}
  BY <1>1, <1>3 DEF Waits
<1>10. \A k \in Waits("up")', n \in Flies("up")' : IsRequest(k) /\ IsRequest(n) => k.call # n.call
  BY <1>8, <1>9 DEF OnceInv, Under
<1> QED
  BY <1>6, <1>7, <1>10 DEF OnceInv

\* What is taken off the wire, or with the queue, was there once.
LEMMA OnceFewer ==
  ASSUME LineTypes, OnceInv, queue'["up"] = queue["up"] \/ queue'["up"] = <<>>,
         \/ wire'["up"] = wire["up"] \/ wire'["up"] = <<>>
         \/ wire["up"] # <<>> /\ wire'["up"] = Tail(wire["up"])
  PROVE  OnceInv'
<1>1. wire["up"] \in Seq(Frames)
  BY LineParts DEF Direction
<1>2. \A i, j \in 1..Len(queue'["up"]) :
        IsRequest(queue'["up"][i].msg) /\ IsRequest(queue'["up"][j].msg)
          /\ queue'["up"][i].msg.call = queue'["up"][j].msg.call => i = j
  <2>1. CASE queue'["up"] = queue["up"]
    BY <2>1 DEF OnceInv
  <2>2. CASE queue'["up"] = <<>>
    <3>1. Len(queue'["up"]) = 0
      BY <2>2, EmptySeq
    <3> QED
      BY <3>1
  <2> QED
    BY <2>1, <2>2
<1>3. \A i \in 1..Len(wire'["up"]) : \E k \in 1..Len(wire["up"]) :
        wire'["up"][i] = wire["up"][k] /\ (k = i \/ (k = i + 1 /\ wire'["up"] = Tail(wire["up"]) /\ wire'["up"] # wire["up"]))
  <2>1. CASE wire'["up"] = wire["up"]
    BY <2>1
  <2>2. CASE wire'["up"] = <<>>
    <3>1. Len(wire'["up"]) = 0
      BY <2>2, EmptySeq
    <3> QED
      BY <3>1
  <2>3. CASE wire["up"] # <<>> /\ wire'["up"] = Tail(wire["up"]) /\ wire'["up"] # wire["up"]
    BY <1>1, <2>3, Tailed
  <2> QED
    BY <2>1, <2>2, <2>3
<1>4. ASSUME NEW i \in 1..Len(wire'["up"]), NEW j \in 1..Len(wire'["up"]),
             wire'["up"][i].kind = "json", wire'["up"][j].kind = "json",
             IsRequest(wire'["up"][i].msg), IsRequest(wire'["up"][j].msg),
             wire'["up"][i].msg.call = wire'["up"][j].msg.call
      PROVE  i = j
  <2>1. CASE wire'["up"] = wire["up"]
    BY <1>4, <2>1 DEF OnceInv
  <2>2. CASE wire'["up"] # wire["up"] /\ wire'["up"] # <<>>
    <3>1. wire["up"] # <<>> /\ wire'["up"] = Tail(wire["up"])
      BY <2>2
    <3>2. /\ i \in Nat /\ j \in Nat
          /\ i + 1 \in 1..Len(wire["up"]) /\ wire'["up"][i] = wire["up"][i + 1]
          /\ j + 1 \in 1..Len(wire["up"]) /\ wire'["up"][j] = wire["up"][j + 1]
      BY <1>1, <3>1, Tailed
    <3>3. i + 1 = j + 1
      BY <1>4, <3>2 DEF OnceInv
    <3> QED
      BY <3>2, <3>3
  <2>3. CASE wire'["up"] = <<>>
    <3>1. Len(wire'["up"]) = 0
      BY <2>3, EmptySeq
    <3> QED
      BY <3>1
  <2> QED
    BY <2>1, <2>2, <2>3
<1>5. Waits("up")' \subseteq Waits("up")
  <2>1. CASE queue'["up"] = queue["up"]
    BY <2>1 DEF Waits
  <2>2. CASE queue'["up"] = <<>>
    <3>1. Len(queue'["up"]) = 0
      BY <2>2, EmptySeq
    <3> QED
      BY <3>1 DEF Waits
  <2> QED
    BY <2>1, <2>2
<1>6. Flies("up")' \subseteq Flies("up")
  BY <1>3 DEF Flies
<1>7. \A k \in Waits("up")', n \in Flies("up")' : IsRequest(k) /\ IsRequest(n) => k.call # n.call
  BY <1>5, <1>6 DEF OnceInv
<1>8. \A i, j \in 1..Len(wire'["up"]) :
        wire'["up"][i].kind = "json" /\ wire'["up"][j].kind = "json"
          /\ IsRequest(wire'["up"][i].msg) /\ IsRequest(wire'["up"][j].msg)
          /\ wire'["up"][i].msg.call = wire'["up"][j].msg.call => i = j
  BY <1>4
<1> QED
  BY <1>2, <1>7, <1>8 DEF OnceInv

LEMMA OnceWritten ==
  ASSUME LineTypes, OnceInv, WriteJson("up")
  PROVE  OnceInv'
<1> DEFINE h == Head(queue["up"]).msg
<1>1. /\ queue["up"] # <<>> /\ queue'["up"] = Tail(queue["up"])
      /\ wire'["up"] = Append(wire["up"], Json(h)) /\ queue["up"] \in Seq(Items) /\ wire["up"] \in Seq(Frames)
  BY LineParts DEF WriteJson, Busy, LineTypes, Direction
<1>2. /\ Head(queue["up"]) = queue["up"][1] /\ queue["up"][1] \in Items /\ 1 \in 1..Len(queue["up"])
      /\ \A i \in 1..Len(queue'["up"]) : i \in Nat /\ i + 1 \in 1..Len(queue["up"]) /\ i + 1 # 1
                                         /\ queue'["up"][i] = queue["up"][i + 1]
  BY <1>1, Tailed
<1>3. h = queue["up"][1].msg /\ h \in Messages /\ h \in Waits("up")
  BY <1>2 DEF Items, Waits
<1> HIDE DEF h
<1>4. Json(h) \in Frames /\ Json(h).msg = h
  BY <1>3, FrameKinds
<1>5. /\ 1..Len(wire'["up"]) = 1..Len(wire["up"]) \union {Len(wire["up"]) + 1}
      /\ \A i \in 1..Len(wire["up"]) : wire'["up"][i] = wire["up"][i]
      /\ wire'["up"][Len(wire["up"]) + 1] = Json(h)
  BY <1>1, <1>4, Appended
<1>6. \A i \in 1..Len(wire["up"]) : wire["up"][i].kind = "json" => wire["up"][i].msg \in Flies("up")
  <2>1. \A i \in 1..Len(wire["up"]) : wire["up"][i] \in Frames
    BY <1>1, Placed
  <2> QED
    BY <2>1, FrameKinds DEF Flies
<1>7. \A i \in 1..Len(wire["up"]) : wire["up"][i].kind = "json" /\ IsRequest(wire["up"][i].msg) /\ IsRequest(h)
        => wire["up"][i].msg.call # h.call
  BY <1>3, <1>6 DEF OnceInv
<1>8. ASSUME NEW i \in 1..Len(queue'["up"]), NEW j \in 1..Len(queue'["up"]),
             IsRequest(queue'["up"][i].msg), IsRequest(queue'["up"][j].msg),
             queue'["up"][i].msg.call = queue'["up"][j].msg.call
      PROVE  i = j
  <2>1. /\ i \in Nat /\ i + 1 \in 1..Len(queue["up"]) /\ queue'["up"][i] = queue["up"][i + 1]
        /\ j \in Nat /\ j + 1 \in 1..Len(queue["up"]) /\ queue'["up"][j] = queue["up"][j + 1]
    BY <1>2
  <2>2. /\ IsRequest(queue["up"][i + 1].msg) /\ IsRequest(queue["up"][j + 1].msg)
        /\ queue["up"][i + 1].msg.call = queue["up"][j + 1].msg.call
    BY <1>8, <2>1
  <2>3. i + 1 = j + 1
    BY <2>1, <2>2 DEF OnceInv
  <2> QED
    BY <2>1, <2>3
<1>9. ASSUME NEW i \in 1..Len(wire'["up"]), NEW j \in 1..Len(wire'["up"]),
             wire'["up"][i].kind = "json", wire'["up"][j].kind = "json",
             IsRequest(wire'["up"][i].msg), IsRequest(wire'["up"][j].msg),
             wire'["up"][i].msg.call = wire'["up"][j].msg.call
      PROVE  i = j
  <2>1. CASE i \in 1..Len(wire["up"]) /\ j \in 1..Len(wire["up"])
    BY <1>5, <1>9, <2>1 DEF OnceInv
  <2>2. CASE i \in 1..Len(wire["up"]) /\ j = Len(wire["up"]) + 1
    BY <1>4, <1>5, <1>7, <1>9, <2>2
  <2>3. CASE i = Len(wire["up"]) + 1 /\ j \in 1..Len(wire["up"])
    BY <1>4, <1>5, <1>7, <1>9, <2>3
  <2> QED
    BY <1>5, <2>1, <2>2, <2>3
<1>10. Flies("up")' \subseteq Flies("up") \union {h}
  <2>1. ASSUME NEW m \in Flies("up")' PROVE m \in Flies("up") \union {h}
    <3>1. m \in Messages /\ \E i \in 1..Len(wire'["up"]) : wire'["up"][i] = Json(m)
      BY <2>1 DEF Flies
    <3> QED
      BY <1>3, <1>5, <3>1, FrameKinds DEF Flies
  <2> QED
    BY <2>1
<1>11. ASSUME NEW k \in Waits("up")', NEW n \in Flies("up")', IsRequest(k), IsRequest(n) PROVE k.call # n.call
  <2>1. PICK i \in 1..Len(queue'["up"]) : k = queue'["up"][i].msg
    BY <1>11 DEF Waits
  <2>2. i + 1 \in 1..Len(queue["up"]) /\ k = queue["up"][i + 1].msg /\ i + 1 # 1
    BY <1>2, <2>1
  <2>3. CASE n = h
    BY <1>2, <1>3, <1>11, <2>2, <2>3 DEF OnceInv
  <2>4. CASE n \in Flies("up")
    <3>1. k \in Waits("up")
      BY <2>2 DEF Waits
    <3> QED
      BY <1>11, <2>4, <3>1 DEF OnceInv
  <2> QED
    BY <1>10, <2>3, <2>4
<1> QED
  BY <1>8, <1>9, <1>11 DEF OnceInv

\* A request that is taken off the wire is not on its way any more.
LEMMA OnceTaken ==
  ASSUME LineTypes, OnceInv, Delivers("up"), IsRequest(Head(wire["up"]).msg)
  PROVE  \A n \in Under("up")' : IsRequest(n) => n.call # Head(wire["up"]).msg.call
<1>1. wire["up"] \in Seq(Frames) /\ wire["up"] # <<>>
  BY LineParts DEF Delivers, Direction
<1>2. /\ Head(wire["up"]) = wire["up"][1] /\ wire["up"][1] \in Frames /\ 1 \in 1..Len(wire["up"])
      /\ \A i \in 1..Len(wire'["up"]) : i + 1 \in 1..Len(wire["up"]) /\ i + 1 # 1 /\ wire'["up"][i] = wire["up"][i + 1]
  BY <1>1, Tailed DEF Delivers
<1>3. wire["up"][1].kind = "json" /\ wire["up"][1].msg \in Flies("up")
  BY <1>2, FrameKinds DEF Delivers, Flies
<1>4. ASSUME NEW n \in Waits("up")', IsRequest(n) PROVE n.call # Head(wire["up"]).msg.call
  <2>1. n \in Waits("up")
    BY <1>4 DEF Waits, Delivers
  <2> QED
    BY <1>2, <1>3, <1>4, <2>1 DEF OnceInv
<1>5. ASSUME NEW n \in Flies("up")', IsRequest(n) PROVE n.call # Head(wire["up"]).msg.call
  <2>1. PICK i \in 1..Len(wire'["up"]) : wire'["up"][i] = Json(n)
    BY <1>5 DEF Flies
  <2>2. n \in Messages
    BY <1>5 DEF Flies
  <2>3. /\ i + 1 \in 1..Len(wire["up"]) /\ i + 1 # 1
        /\ wire["up"][i + 1].kind = "json" /\ wire["up"][i + 1].msg = n
    BY <1>2, <2>1, <2>2, FrameKinds
  <2> QED
    BY <1>2, <1>3, <1>5, <2>3 DEF OnceInv
<1> QED
  BY <1>4, <1>5 DEF Under


-----------------------------------------------------------------------------
(* Directions in which nothing is queued or staged.                        *)

Lessens(d) ==
  /\ ApartInv(d)' /\ WriterInv(d)'
  /\ Under(d)' \subseteq Under(d) /\ CarriesNoMore(d)
  /\ \A i \in 1..Len(queue'[d]) : \E j \in 1..Len(queue[d]) : queue'[d][i] = queue[d][j]
  /\ staging'[d] # <<>> => staging'[d] = staging[d] /\ Head(queue'[d]) = Head(queue[d])

LEMMA StillLessens ==
  ASSUME NEW d \in Direction, ApartInv(d), WriterInv(d), Still(d)
  PROVE  Lessens(d)
<1>1. queue'[d] = queue[d] /\ staging'[d] = staging[d]
  BY DEF Still
<1> QED
  BY <1>1, StillLine DEF Lessens

LEMMA DeliversLessens ==
  ASSUME LineTypes, NEW d \in Direction, ApartInv(d), WriterInv(d), Delivers(d)
  PROVE  Lessens(d)
<1>1. queue'[d] = queue[d] /\ staging'[d] = staging[d]
  BY DEF Delivers
<1>2. /\ ApartInv(d)' /\ WriterInv(d)' /\ Waits(d)' = Waits(d) /\ Flies(d)' \subseteq Flies(d) /\ CarriesNoMore(d)
  BY DeliversLine
<1> QED
  BY <1>1, <1>2 DEF Lessens, Under

LEMMA WriteLessens ==
  ASSUME LineTypes, NEW d \in Direction, ApartInv(d), WriterInv(d),
         WriteJson(d) \/ StageFails(d) \/ ReadContent(d) \/ ReadTorn(d)
  PROVE  Lessens(d)
<1>1. CASE WriteJson(d)
  <2>1. /\ ApartInv(d)' /\ WriterInv(d)' /\ Under(d)' = Under(d) /\ CarriesNoMore(d)
        /\ queue[d] # <<>> /\ queue'[d] = Tail(queue[d]) /\ staging'[d] = <<>>
    BY <1>1, WritesJsonLine
  <2>2. \A i \in 1..Len(queue'[d]) : \E j \in 1..Len(queue[d]) : queue'[d][i] = queue[d][j]
    BY <2>1, LineParts, Tailed
  <2> QED
    BY <2>1, <2>2 DEF Lessens
<1>2. CASE StageFails(d)
  <2>1. /\ ApartInv(d)' /\ WriterInv(d)' /\ Waits(d)' = {} /\ Flies(d)' = Flies(d) /\ CarriesNoMore(d)
        /\ queue'[d] = <<>> /\ staging'[d] = <<>>
    BY <1>2, FailsLine
  <2>2. Len(queue'[d]) = 0
    BY <2>1, EmptySeq
  <2> QED
    BY <2>1, <2>2 DEF Lessens, Under
<1>3. CASE ReadContent(d)
  <2>1. /\ ApartInv(d)' /\ WriterInv(d)' /\ Waits(d)' = Waits(d) /\ Flies(d)' \subseteq Flies(d) /\ CarriesNoMore(d)
        /\ queue'[d] = queue[d] /\ staging'[d] = staging[d]
    BY <1>3, ReadsContentLine
  <2> QED
    BY <2>1 DEF Lessens, Under
<1>4. CASE ReadTorn(d)
  <2>1. /\ ApartInv(d)' /\ WriterInv(d)' /\ Waits(d)' = Waits(d) /\ Flies(d)' \subseteq Flies(d) /\ CarriesNoMore(d)
        /\ queue'[d] = queue[d] /\ staging'[d] = staging[d]
    BY <1>4, ReadsTornLine
  <2> QED
    BY <2>1 DEF Lessens, Under
<1> QED
  BY <1>1, <1>2, <1>3, <1>4

LEMMA UnlinkLessens ==
  ASSUME LineTypes, NEW d \in Direction, ApartInv(d), WriterInv(d), NEW frames, Unlink(frames)
  PROVE  Lessens(d)
<1>1. /\ ApartInv(d)' /\ WriterInv(d)' /\ Waits(d)' = {} /\ Flies(d)' \subseteq Flies(d) /\ CarriesNoMore(d)
      /\ queue'[d] = <<>> /\ staging'[d] = <<>>
  BY UnlinksLine
<1>2. Len(queue'[d]) = 0
  BY <1>1, EmptySeq
<1> QED
  BY <1>1, <1>2 DEF Lessens, Under

\* What is carried goes with a message on its way.
LEMMA CarriedUnder ==
  ASSUME LineTypes, NEW d \in Direction, NEW m \in Messages, NEW b \in Body, Carries(d, m, b)
  PROVE  m \in Under(d)
<1>1. \A i \in 1..Len(wire[d]) : wire[d][i] = Json(m) => m \in Flies(d)
  BY DEF Flies
<1>2. wire[d] # <<>> => 1 \in 1..Len(wire[d])
  BY LineParts, Placed
<1>3. queue[d] # <<>> => Head(queue[d]) = queue[d][1] /\ 1 \in 1..Len(queue[d])
  BY LineParts, Placed
<1>4. CASE \/ \E i \in 1..Len(wire[d]) : i + 1 \in 1..Len(wire[d]) /\ wire[d][i + 1] = Json(m)
           \/ wire[d] # <<>> /\ wire[d][1] = Json(m)
  BY <1>1, <1>2, <1>4 DEF Under
<1>5. CASE queue[d] # <<>> /\ Head(queue[d]).msg = m
  BY <1>3, <1>5 DEF Under, Waits
<1> QED
  BY <1>4, <1>5 DEF Carries

\* What waits first for the writer.
LEMMA FirstWaits ==
  ASSUME LineTypes, NEW d \in Direction, queue[d] # <<>>
  PROVE  /\ 1 \in 1..Len(queue[d]) /\ Head(queue[d]) = queue[d][1]
         /\ Head(queue[d]).msg \in Under(d) /\ Head(queue[d]).msg \in Messages
         /\ Head(queue[d]).source \in Sources
<1>1. 1 \in 1..Len(queue[d]) /\ Head(queue[d]) = queue[d][1]
  BY LineParts, Placed
<1> QED
  BY <1>1, LineParts DEF Under, Waits

LEMMA LessUp ==
  ASSUME UpInv, Lessens("up")
  PROVE  UpInv'
<1>1. \A i \in 1..Len(queue'["up"]) : queue'["up"][i].source # NoSource =>
        /\ IsRequest(queue'["up"][i].msg)
        /\ queue'["up"][i].source = [kind |-> "bytes", body |-> Content(queue'["up"][i].msg.call)]
  BY DEF UpInv, Lessens
<1>2. \A m \in Under("up")' : IsRequest(m) => (m.attached <=> m.op \in Writes)
  BY DEF UpInv, Lessens
<1>3. staging'["up"] # <<>> => staging'["up"] = Head(queue'["up"]).source.body
  BY DEF UpInv, Lessens
<1>4. \A m \in Messages, b \in Body : Carries("up", m, b)' => b = Content(m.call)
  BY DEF UpInv, Lessens, CarriesNoMore
<1> QED
  BY <1>1, <1>2, <1>3, <1>4 DEF UpInv

LEMMA LessDown ==
  ASSUME ReadInv, Lessens("down"), known' = known, Waiting' => Waiting,
         Waiting' => call'.id = call.id /\ call'.op = call.op /\ call'.path = call.path
  PROVE  ReadInv'
<1> SUFFICES ASSUME Waiting', call'.op = "read", known'[call'.path].sure
             PROVE  LET f == known'[call'.path].file IN
                    /\ \A m \in Under("down")' : m.call = call'.id =>
                         IF m.status = "ok" THEN m.attached /\ f # Absent ELSE m.status = "failed" \/ f = Absent
                    /\ \A i \in 1..Len(queue'["down"]) :
                         queue'["down"][i].msg.call = call'.id /\ queue'["down"][i].source # NoSource =>
                           /\ queue'["down"][i].msg.status = "ok"
                           /\ queue'["down"][i].source = [kind |-> "file", path |-> call'.path]
                    /\ staging'["down"] # <<>> /\ Head(queue'["down"]).msg.call = call'.id =>
                         Len(staging'["down"]) <= Len(f.body)
                           /\ staging'["down"] = SubSeq(f.body, 1, Len(staging'["down"]))
                    /\ \A m \in Messages, b \in Body : Carries("down", m, b)' /\ m.call = call'.id => f = File(b)
  BY DEF ReadInv
<1>1. PICK f : f = known[call.path].file
  OBVIOUS
<1>2. /\ Waiting /\ call.op = "read" /\ known[call.path].sure
      /\ call'.id = call.id /\ call'.path = call.path
      /\ f = known'[call'.path].file
  BY <1>1
<1>3. /\ \A m \in Under("down") : m.call = call.id =>
           IF m.status = "ok" THEN m.attached /\ f # Absent ELSE m.status = "failed" \/ f = Absent
      /\ \A i \in 1..Len(queue["down"]) :
           queue["down"][i].msg.call = call.id /\ queue["down"][i].source # NoSource =>
             /\ queue["down"][i].msg.status = "ok"
             /\ queue["down"][i].source = [kind |-> "file", path |-> call.path]
      /\ staging["down"] # <<>> /\ Head(queue["down"]).msg.call = call.id =>
           Len(staging["down"]) <= Len(f.body) /\ staging["down"] = SubSeq(f.body, 1, Len(staging["down"]))
      /\ \A m \in Messages, b \in Body : Carries("down", m, b) /\ m.call = call.id => f = File(b)
  BY <1>1, <1>2 DEF ReadInv
<1>4. \A m \in Under("down")' : m.call = call'.id => IF m.status = "ok" THEN m.attached /\ f # Absent ELSE m.status = "failed" \/ f = Absent
  BY <1>2, <1>3 DEF Lessens
<1>5. \A i \in 1..Len(queue'["down"]) :
        queue'["down"][i].msg.call = call'.id /\ queue'["down"][i].source # NoSource =>
          /\ queue'["down"][i].msg.status = "ok"
          /\ queue'["down"][i].source = [kind |-> "file", path |-> call'.path]
  BY <1>2, <1>3 DEF Lessens
<1>6. staging'["down"] # <<>> /\ Head(queue'["down"]).msg.call = call'.id =>
        Len(staging'["down"]) <= Len(f.body) /\ staging'["down"] = SubSeq(f.body, 1, Len(staging'["down"]))
  BY <1>2, <1>3 DEF Lessens
<1>7. \A m \in Messages, b \in Body : Carries("down", m, b)' /\ m.call = call'.id => f = File(b)
  BY <1>2, <1>3 DEF Lessens, CarriesNoMore
<1> QED
  BY <1>2, <1>4, <1>5, <1>6, <1>7

-----------------------------------------------------------------------------
(* Steps in which no file changes, and no call, request, task or answer    *)
(* comes up.                                                               *)

Fewer ==
  /\ Under("up")' \subseteq Under("up") /\ Under("down")' \subseteq Under("down")
  /\ tasks' \subseteq tasks /\ late' = late /\ made' = made
  /\ disk' = disk /\ known' = known /\ seen' = seen
  /\ Waiting' => /\ Waiting
                 /\ call'.id = call.id /\ call'.op = call.op /\ call'.path = call.path /\ call'.clean = call.clean

CallsKept == WayInv /\ PlaceInv /\ CallInv /\ TaskInv /\ SureInv /\ CleanInv /\ SeenInv

LEMMA FewerPlaces ==
  ASSUME WayInv, PlaceInv, TaskInv, made' = made, tasks' \subseteq tasks,
         Under("up")' \subseteq Under("up"), Under("down")' \subseteq Under("down")
  PROVE  WayInv' /\ PlaceInv' /\ TaskInv'
<1>1. WayInv'
  BY DEF WayInv
<1>2. PlaceInv'
  <2>1. \A n \in 1..MaxCalls : (Asked(n)' => Asked(n)) /\ (Doing(n)' => Doing(n)) /\ (Replied(n)' => Replied(n))
    BY DEF Asked, Doing, Replied
  <2> QED
    BY <2>1 DEF PlaceInv
<1>3. TaskInv'
  BY DEF TaskInv
<1> QED
  BY <1>1, <1>2, <1>3

LEMMA FewerKeeps ==
  ASSUME CallsKept, Fewer
  PROVE  CallsKept'
<1> USE DEF CallsKept
<1>1. WayInv' /\ PlaceInv' /\ TaskInv'
  BY FewerPlaces DEF Fewer
<1>3. CallInv'
  BY DEF CallInv, Fewer
<1>5. SureInv'
  BY DEF SureInv, Fewer, Harmless
<1>6. CleanInv'
  <2> SUFFICES ASSUME Waiting', call'.clean, call'.op \in Writes \union {"folder"}
               PROVE  /\ \A m \in Under("up")' : IsRequest(m) /\ m.path = call'.path => m.call = call'.id
                      /\ \A t \in tasks' : t.path = call'.path =>
                           /\ t.id = call'.id
                           /\ t.at = "copy" => disk'[call'.path] = File(SubSeq(Content(call'.id), 1, t.next - 1))
                      /\ \A e \in late' : e.path # call'.path
                      /\ \A m \in Under("down")' : m.call = call'.id /\ m.status = "ok" =>
                           disk'[call'.path] = IF call'.op = "folder" THEN Dir ELSE File(Content(call'.id))
    BY DEF CleanInv
  <2>1. /\ Waiting /\ call.clean /\ call.op \in Writes \union {"folder"}
        /\ call'.id = call.id /\ call'.op = call.op /\ call'.path = call.path
    BY DEF Fewer
  <2>2. /\ \A m \in Under("up") : IsRequest(m) /\ m.path = call.path => m.call = call.id
        /\ \A t \in tasks : t.path = call.path =>
             /\ t.id = call.id
             /\ t.at = "copy" => disk[call.path] = File(SubSeq(Content(call.id), 1, t.next - 1))
        /\ \A e \in late : e.path # call.path
        /\ \A m \in Under("down") : m.call = call.id /\ m.status = "ok" =>
             disk[call.path] = IF call.op = "folder" THEN Dir ELSE File(Content(call.id))
    BY <2>1 DEF CleanInv
  <2> QED
    BY <2>1, <2>2 DEF Fewer
<1>7. SeenInv'
  BY DEF SeenInv, Fewer
<1> QED
  BY <1>1, <1>3, <1>5, <1>6, <1>7


LEMMA LessKeeps ==
  ASSUME FilesKept, LineTypes', FileTypes', OnceInv', Lessens("up"), Lessens("down"), Fewer
  PROVE  FilesKept'
<1>1. CallsKept'
  BY FewerKeeps DEF FilesKept, CallsKept
<1>2. UpInv'
  BY LessUp DEF FilesKept
<1>3. ReadInv'
  BY LessDown DEF FilesKept, Fewer
<1>4. RestInv'
  BY DEF RestInv, Lessens, Direction
<1> QED
  BY <1>1, <1>2, <1>3, <1>4 DEF FilesKept, CallsKept

LEMMA BothLess ==
  ASSUME FilesKept, UNCHANGED lineVars
  PROVE  LineTypes' /\ OnceInv' /\ Lessens("up") /\ Lessens("down") /\ Under("up")' = Under("up") /\ Under("down")' = Under("down")
<1>1. Still("up") /\ Still("down")
  BY DEF Still, lineVars
<1>2. "up" \in Direction /\ "down" \in Direction
  BY DEF Direction
<1>3. Lessens("up") /\ Lessens("down")
  BY <1>1, <1>2, StillLessens DEF FilesKept, RestInv
<1>4. Under("up")' = Under("up") /\ Under("down")' = Under("down")
  BY <1>1, <1>2, StillLine
<1>5. OnceInv'
  BY <1>1, OnceStill DEF FilesKept
<1> QED
  BY <1>3, <1>4, <1>5 DEF FilesKept, LineTypes, lineVars

\* The call ends, or nothing of the calls moves at all.
LEMMA EndsKeeps ==
  ASSUME FilesKept, UNCHANGED <<disk, made, tasks, late, known, seen, lineVars>>, call' \in {call, NoCall}
  PROVE  FilesKept'
<1>1. /\ LineTypes' /\ OnceInv' /\ Lessens("up") /\ Lessens("down")
      /\ Under("up")' = Under("up") /\ Under("down")' = Under("down")
  BY BothLess
<1>2. FileTypes'
  BY DEF FilesKept, FileTypes
<1>3. Fewer
  BY <1>1 DEF Fewer, Waiting, NoCall
<1> QED
  BY <1>1, <1>2, <1>3, LessKeeps

\* A message is taken off one direction.
LEMMA DeliveredSides ==
  ASSUME LineTypes, NEW d \in Direction, Delivered(d), UNCHANGED <<staging, staged, writing, linked>>
  PROVE  /\ wire[d] # <<>> /\ Head(wire[d]).kind = "json"
         /\ Claims(Head(wire[d]).msg, received[d])
         /\ queue'[d] = queue[d] => Delivers(d)
         /\ \A e \in Direction : e # d => /\ wire'[e] = wire[e] /\ received'[e] = received[e]
                                          /\ queue'[e] = queue[e] => Still(e)
<1>1. /\ wire[d] # <<>> /\ Head(wire[d]).kind = "json" /\ Claims(Head(wire[d]).msg, received[d])
      /\ wire' = [wire EXCEPT ![d] = Tail(@)] /\ received' = [received EXCEPT ![d] = <<>>]
  BY DEF Delivered, Arrived, Consume
<1>2. wire'[d] = Tail(wire[d]) /\ received'[d] = <<>>
  BY <1>1 DEF LineTypes
<1>3. \A e \in Direction : e # d => wire'[e] = wire[e] /\ received'[e] = received[e]
  BY <1>1 DEF LineTypes
<1> QED
  BY <1>1, <1>2, <1>3 DEF Delivers, Still

\* The message that is taken, with the attachment it claims.
LEMMA MessageParts ==
  ASSUME LineTypes, NEW d \in Direction, ApartInv(d), wire[d] # <<>>, Head(wire[d]).kind = "json",
         Claims(Head(wire[d]).msg, received[d])
  PROVE  /\ Head(wire[d]).msg \in Messages /\ Head(wire[d]).msg \in Under(d)
         /\ Message(d).kind = Head(wire[d]).msg.kind /\ Message(d).call = Head(wire[d]).msg.call
         /\ Message(d).kind = "request" => /\ Head(wire[d]).msg \in Requests
                                           /\ Message(d).op = Head(wire[d]).msg.op
                                           /\ Message(d).path = Head(wire[d]).msg.path
         /\ Message(d).kind = "response" => /\ Head(wire[d]).msg \in Responses
                                            /\ Message(d).status = Head(wire[d]).msg.status
         /\ Message(d).kind # "cancel" => Message(d).body \in Body
         /\ Head(wire[d]).msg.attached => Carries(d, Head(wire[d]).msg, Message(d).body)
<1>1. Head(wire[d]) \in Frames /\ Head(wire[d]) = wire[d][1] /\ 1 \in 1..Len(wire[d])
  BY LineParts, Tailed
<1>2. PICK m \in Messages : m = Head(wire[d]).msg /\ Head(wire[d]) = Json(m)
  BY <1>1, FrameKinds
<1>3. m \in Under(d)
  BY <1>1, <1>2 DEF Under, Flies
<1>4. CASE m.attached
  <2>1. received[d] # <<>>
    BY <1>2, <1>4 DEF Claims
  <2>2. PICK b \in Body : b = Head(received[d]) /\ Carries(d, m, b)
    BY <1>2, <2>1, Claimed
  <2>3. Message(d) = [m EXCEPT !.body = b]
    BY <1>2, <1>4, <2>2 DEF Message, Decoded
  <2>4. m \in Requests \/ m \in Responses
    BY <1>2, <1>4 DEF Messages, Cancels
  <2>5. /\ Message(d).kind = m.kind /\ Message(d).call = m.call /\ Message(d).body = b
        /\ m \in Requests => Message(d).op = m.op /\ Message(d).path = m.path /\ m.kind = "request"
        /\ m \in Responses => Message(d).status = m.status /\ m.kind = "response"
    BY <2>3, <2>4 DEF Requests, Responses
  <2> QED
    BY <1>2, <1>3, <2>2, <2>4, <2>5
<1>5. CASE ~m.attached
  <2>1. Message(d) = m
    BY <1>2, <1>5 DEF Message, Decoded
  <2>2. /\ m.kind = "request" => m \in Requests
        /\ m.kind = "response" => m \in Responses
        /\ m.kind # "cancel" => m.body = <<>>
    BY <1>2 DEF Messages, Requests, Responses, Cancels
  <2> QED
    BY <1>2, <1>3, <1>5, <2>1, <2>2, NothingIsTyped
<1> QED
  BY <1>4, <1>5

\* The steps of the two writers and readers that stage nothing.
LEMMA LineKeeps ==
  ASSUME FilesKept, NEW d \in Direction,
         WriteJson(d) \/ StageFails(d) \/ ReadContent(d) \/ ReadTorn(d) \/ ReadEnd(d)
  PROVE  /\ LineTypes' /\ OnceInv' /\ Lessens("up") /\ Lessens("down")
         /\ Under("up")' \subseteq Under("up") /\ Under("down")' \subseteq Under("down")
<1> USE DEF FilesKept
<1>1. "up" \in Direction /\ "down" \in Direction /\ ApartInv(d) /\ WriterInv(d)
  BY DEF Direction, RestInv
<1>2. LineTypes'
  BY WroteJsonTypes, StageFailedTypes, ReadTypes
<1>3. ASSUME NEW e \in Direction, e # d PROVE Still(e)
  BY <1>3 DEF Still, LineTypes, WriteJson, StageFails, ReadContent, ReadTorn, ReadEnd, Consume
<1>4. ASSUME NEW e \in Direction PROVE Lessens(e)
  <2>1. CASE e # d
    BY <1>3, <2>1, StillLessens DEF RestInv
  <2>2. CASE e = d /\ ReadEnd(d)
    <3>1. Still(d)
      BY <2>2 DEF Still, ReadEnd
    <3> QED
      BY <1>1, <2>2, <3>1, StillLessens
  <2>3. CASE e = d /\ ~ReadEnd(d)
    BY <1>1, <2>3, WriteLessens
  <2> QED
    BY <2>1, <2>2, <2>3
<1>5. OnceInv'
  <2>1. CASE d = "up" /\ WriteJson(d)
    BY <2>1, OnceWritten
  <2>2. CASE d = "up" /\ StageFails(d)
    BY <1>1, <2>2, FailsLine, OnceFewer
  <2>3. CASE d = "up" /\ ReadContent(d)
    <3>1. wire["up"] # <<>>
      BY <2>3 DEF ReadContent, Arrived
    <3> QED
      BY <1>1, <2>3, <3>1, ReadsContentLine, OnceFewer
  <2>4. CASE d = "up" /\ ReadTorn(d)
    <3>1. wire["up"] # <<>>
      BY <2>4 DEF ReadTorn, Arrived
    <3> QED
      BY <1>1, <2>4, <3>1, ReadsTornLine, OnceFewer
  <2>5. CASE d = "up" /\ ReadEnd(d)
    <3>1. Still("up")
      BY <2>5 DEF Still, ReadEnd
    <3> QED
      BY <3>1, OnceStill
  <2>6. CASE d # "up"
    BY <1>1, <1>3, <2>6, OnceStill
  <2> QED
    BY <2>1, <2>2, <2>3, <2>4, <2>5, <2>6
<1> QED
  BY <1>1, <1>2, <1>4, <1>5 DEF Lessens

LEMMA UnlinkKeeps ==
  ASSUME FilesKept, NEW frames, Unlink(frames)
  PROVE  /\ LineTypes' /\ OnceInv' /\ Lessens("up") /\ Lessens("down")
         /\ Under("up")' \subseteq Under("up") /\ Under("down")' \subseteq Under("down")
<1>1. "up" \in Direction /\ "down" \in Direction
  BY DEF Direction
<1>2. LineTypes /\ ApartInv("up") /\ WriterInv("up") /\ ApartInv("down") /\ WriterInv("down")
  BY <1>1 DEF FilesKept, RestInv
<1>3. Lessens("up") /\ Lessens("down")
  BY <1>1, <1>2, UnlinkLessens
<1>4. queue'["up"] = <<>> /\ wire'["up"] = <<>>
  BY <1>1, <1>2, UnlinksLine
<1>5. OnceInv'
  BY <1>2, <1>4, OnceFewer DEF FilesKept
<1>6. LineTypes'
  BY <1>2, UnlinkedTypes
<1> QED
  BY <1>3, <1>5, <1>6 DEF Lessens


-----------------------------------------------------------------------------
(* Staging.                                                                *)

LEMMA Cut ==
  ASSUME NEW S, NEW q \in Seq(S), NEW n \in Nat
  PROVE  /\ SubSeq(q, n + 1, Len(q)) \in Seq(S)
         /\ SubSeq(q, n + 1, Len(q)) = <<>> <=> n >= Len(q)
         /\ n < Len(q) => SubSeq(q, n + 1, Len(q))[1] = q[n + 1] /\ n + 1 \in 1..Len(q) /\ q[n + 1] \in S
<1>1. Len(q) \in Nat /\ \A i \in 1..Len(q) : q[i] \in S
  BY Placed
<1>2. \A i \in (n + 1)..Len(q) : q[i] \in S
  BY <1>1
<1>3. /\ SubSeq(q, n + 1, Len(q)) \in Seq(S)
      /\ Len(SubSeq(q, n + 1, Len(q))) = IF n + 1 <= Len(q) THEN Len(q) - (n + 1) + 1 ELSE 0
      /\ \A i \in 1..(Len(q) - (n + 1) + 1) : SubSeq(q, n + 1, Len(q))[i] = q[(n + 1) + i - 1]
  BY <1>1, <1>2, SubSeqProperties
<1>4. SubSeq(q, n + 1, Len(q)) = <<>> <=> Len(SubSeq(q, n + 1, Len(q))) = 0
  BY <1>3, EmptySeq
<1>5. SubSeq(q, n + 1, Len(q)) = <<>> <=> n >= Len(q)
  BY <1>1, <1>3, <1>4
<1>6. ASSUME n < Len(q) PROVE SubSeq(q, n + 1, Len(q))[1] = q[n + 1] /\ n + 1 \in 1..Len(q)
  <2>1. 1 \in 1..(Len(q) - (n + 1) + 1) /\ (n + 1) + 1 - 1 = n + 1
    BY <1>1, <1>6
  <2> QED
    BY <1>1, <1>3, <1>6, <2>1
<1> QED
  BY <1>1, <1>3, <1>5, <1>6

LEMMA Front ==
  ASSUME NEW S, NEW q \in Seq(S), NEW n \in Nat, n <= Len(q)
  PROVE  /\ SubSeq(q, 1, n) \in Seq(S) /\ Len(SubSeq(q, 1, n)) = n
         /\ \A i \in 1..n : SubSeq(q, 1, n)[i] = q[i]
         /\ n = Len(q) => SubSeq(q, 1, n) = q
<1>1. Len(q) \in Nat /\ \A i \in 1..Len(q) : q[i] \in S
  BY Placed
<1>2. \A i \in 1..n : q[i] \in S
  BY <1>1
<1>3. /\ SubSeq(q, 1, n) \in Seq(S)
      /\ Len(SubSeq(q, 1, n)) = IF 1 <= n THEN n - 1 + 1 ELSE 0
      /\ \A i \in 1..(n - 1 + 1) : SubSeq(q, 1, n)[i] = q[1 + i - 1]
  BY <1>2, SubSeqProperties
<1>4. Len(SubSeq(q, 1, n)) = n /\ \A i \in 1..n : SubSeq(q, 1, n)[i] = q[i]
  BY <1>3
<1>5. n = Len(q) => SubSeq(q, 1, n) = q
  BY <1>3, <1>4, SeqEqual
<1> QED
  BY <1>3, <1>4, <1>5

\* One piece more.
LEMMA Grown ==
  ASSUME NEW S, NEW q \in Seq(S), NEW n \in Nat, n < Len(q)
  PROVE  SubSeq(q, 1, n) \o <<q[n + 1]>> = SubSeq(q, 1, n + 1)
<1>1. Len(q) \in Nat /\ 1 \in 1..Len(q) /\ n + 1 \in 1..Len(q)
  BY Placed
<1>2. SubSeq(q, 1, n + 1) = SubSeq(q, 1, (n + 1) - 1) \o <<q[n + 1]>>
  BY <1>1, SubSeqRecursiveSecond
<1> QED
  BY <1>2

LEMMA ContentTyped ==
  ASSUME NEW c \in 1..MaxCalls
  PROVE  Content(c) \in Body /\ Len(Content(c)) = Pieces[c] /\ Content(c) # <<>>
         /\ \A k \in 1..Pieces[c] : Content(c)[k] = <<c, k>>
<1>1. Pieces[c] \in Nat \ {0} /\ c \in Nat
  BY FilesAssumption
<1>2. Content(c) = [k \in 1..Pieces[c] |-> <<c, k>>]
  BY DEF Content
<1>3. \A k \in 1..Pieces[c] : <<c, k>> \in Chunk
  BY <1>1 DEF Chunk
<1>4. Content(c) \in Seq(Chunk)
  BY <1>1, <1>2, <1>3, IsASeq
<1>5. Len(Content(c)) = Pieces[c]
  BY <1>1, <1>2
<1>6. Content(c) # <<>>
  BY <1>1, <1>5, EmptySeq
<1> QED
  BY <1>2, <1>4, <1>5, <1>6 DEF Body


\* An attachment that is written is no request.
LEMMA OnceWroteContent ==
  ASSUME LineTypes, OnceInv, NEW f \in Frames, f.kind = "content",
         queue'["up"] = queue["up"], wire'["up"] = Append(wire["up"], f)
  PROVE  OnceInv'
<1>1. /\ 1..Len(wire'["up"]) = 1..Len(wire["up"]) \union {Len(wire["up"]) + 1}
      /\ \A i \in 1..Len(wire["up"]) : wire'["up"][i] = wire["up"][i]
      /\ wire'["up"][Len(wire["up"]) + 1] = f
  <2>1. wire["up"] \in Seq(Frames)
    BY LineParts DEF Direction
  <2> QED
    BY <2>1, Appended
<1>2. \A i \in 1..Len(wire'["up"]) : wire'["up"][i].kind = "json" => i \in 1..Len(wire["up"])
  BY <1>1
<1>3. ASSUME NEW i \in 1..Len(wire'["up"]), NEW j \in 1..Len(wire'["up"]),
             wire'["up"][i].kind = "json", wire'["up"][j].kind = "json",
             IsRequest(wire'["up"][i].msg), IsRequest(wire'["up"][j].msg),
             wire'["up"][i].msg.call = wire'["up"][j].msg.call
      PROVE  i = j
  BY <1>1, <1>2, <1>3 DEF OnceInv
<1>4. Waits("up")' = Waits("up")
  BY DEF Waits
<1>5. Flies("up")' \subseteq Flies("up")
  <2>1. \A m \in Messages : f # Json(m)
    BY FrameKinds
  <2> QED
    BY <1>1, <2>1 DEF Flies
<1>6. \A k \in Waits("up")', n \in Flies("up")' : IsRequest(k) /\ IsRequest(n) => k.call # n.call
  BY <1>4, <1>5 DEF OnceInv
<1>7. \A i, j \in 1..Len(queue'["up"]) :
        IsRequest(queue'["up"][i].msg) /\ IsRequest(queue'["up"][j].msg)
          /\ queue'["up"][i].msg.call = queue'["up"][j].msg.call => i = j
  BY DEF OnceInv
<1> QED
  BY <1>3, <1>6, <1>7 DEF OnceInv

\* What a request is staged from is what its call is to write.
LEMMA UpHead ==
  ASSUME LineTypes, UpInv, queue["up"] # <<>>, Head(queue["up"]).source # NoSource
  PROVE  \E c \in 1..MaxCalls :
           /\ Head(queue["up"]).msg.call = c
           /\ Head(queue["up"]).source.kind = "bytes"
           /\ Head(queue["up"]).source.body = Content(c)
<1>1. /\ 1 \in 1..Len(queue["up"]) /\ Head(queue["up"]) = queue["up"][1] /\ queue["up"][1].msg \in Messages
  BY FirstWaits DEF Direction
<1>2. /\ IsRequest(queue["up"][1].msg)
      /\ queue["up"][1].source = [kind |-> "bytes", body |-> Content(queue["up"][1].msg.call)]
  BY <1>1 DEF UpInv
<1>3. queue["up"][1].msg.call \in 1..MaxCalls
  BY <1>1, <1>2 DEF IsRequest, Messages, Requests, Cancels, Responses
<1>4. PICK c \in 1..MaxCalls : c = queue["up"][1].msg.call
  BY <1>3
<1>5. PICK b : b = Content(c)
  OBVIOUS
<1>6. queue["up"][1].source = [kind |-> "bytes", body |-> b]
  BY <1>2, <1>4, <1>5
<1>7. queue["up"][1].source.kind = "bytes" /\ queue["up"][1].source.body = b
  BY <1>6
<1> QED
  BY <1>1, <1>4, <1>5, <1>7

LEMMA StagedUp ==
  ASSUME LineTypes, UpInv, NEW pieces \in Body, StagePieces("up", pieces),
         pieces = Rest("up"), Rest("up") # <<>>, ApartInv("up"), WriterInv("up")
  PROVE  UpInv'
<1>0. "up" \in Direction
  BY DEF Direction
<1>1. /\ queue["up"] # <<>> /\ Head(queue["up"]).source # NoSource /\ AtHead("up") = Head(queue["up"]).source
  BY DEF StagePieces, MustStage, Busy, AtHead
<1>2. PICK c \in 1..MaxCalls : /\ Head(queue["up"]).source.kind = "bytes"
                               /\ Head(queue["up"]).source.body = Content(c)
  BY <1>1, UpHead
<1>3. Content(c) \in Seq(Chunk)
  BY ContentTyped DEF Body
<1>4. Rest("up") = SubSeq(Content(c), Len(staging["up"]) + 1, Len(Content(c)))
  BY <1>1, <1>2 DEF Rest, Source
<1>5. staging["up"] # <<>> => staging["up"] = Content(c)
  BY <1>2 DEF UpInv
<1>6. staging["up"] = <<>>
  <2>1. ASSUME staging["up"] = Content(c) PROVE FALSE
    <3>1. Len(Content(c)) \in Nat
      BY <1>3, Placed
    <3>2. SubSeq(Content(c), Len(Content(c)) + 1, Len(Content(c))) = <<>>
      BY <1>3, <3>1, Cut
    <3> QED
      BY <1>4, <2>1, <3>2
  <2> QED
    BY <1>5, <2>1
<1>7. pieces = Content(c)
  <2>1. Len(staging["up"]) = 0
    BY <1>6, EmptySeq
  <2>2. pieces = SubSeq(Content(c), 1, Len(Content(c)))
    BY <1>4, <2>1
  <2> QED
    BY <1>3, <2>2, Front, Placed
<1>8. /\ queue'["up"] = queue["up"] /\ staging'["up"] = staging["up"] \o pieces
      /\ Under("up")' = Under("up") /\ CarriesNoMore("up")
  BY <1>0, StagesLine
<1>9. staging'["up"] = Content(c)
  BY <1>3, <1>6, <1>7, <1>8, ConcatEmptySeq
<1>10. \A i \in 1..Len(queue'["up"]) : queue'["up"][i].source # NoSource =>
        /\ IsRequest(queue'["up"][i].msg)
        /\ queue'["up"][i].source = [kind |-> "bytes", body |-> Content(queue'["up"][i].msg.call)]
  BY <1>8 DEF UpInv
<1>11. \A m \in Under("up")' : IsRequest(m) => (m.attached <=> m.op \in Writes)
  BY <1>8 DEF UpInv
<1>12. staging'["up"] # <<>> => staging'["up"] = Head(queue'["up"]).source.body
  BY <1>2, <1>8, <1>9
<1>13. \A m \in Messages, b \in Body : Carries("up", m, b)' => b = Content(m.call)
  BY <1>8 DEF UpInv, CarriesNoMore
<1> QED
  BY <1>10, <1>11, <1>12, <1>13 DEF UpInv

LEMMA WroteUp ==
  ASSUME LineTypes, UpInv, WriteContent("up"), Rest("up") = <<>>, ApartInv("up"), WriterInv("up")
  PROVE  UpInv'
<1>0. "up" \in Direction
  BY DEF Direction
<1>1. /\ queue["up"] # <<>> /\ Head(queue["up"]).source # NoSource /\ AtHead("up") = Head(queue["up"]).source
  BY DEF WriteContent, MustStage, Busy, AtHead
<1>2. PICK c \in 1..MaxCalls : /\ Head(queue["up"]).msg.call = c
                               /\ Head(queue["up"]).source.kind = "bytes"
                               /\ Head(queue["up"]).source.body = Content(c)
  BY <1>1, UpHead
<1>3. Content(c) \in Seq(Chunk) /\ Content(c) # <<>>
  BY ContentTyped DEF Body
<1>4. Rest("up") = SubSeq(Content(c), Len(staging["up"]) + 1, Len(Content(c)))
  BY <1>1, <1>2 DEF Rest, Source
<1>5. staging["up"] = Content(c)
  <2>1. staging["up"] # <<>> => staging["up"] = Content(c)
    BY <1>2 DEF UpInv
  <2>2. ASSUME staging["up"] = <<>> PROVE FALSE
    <3>1. Len(staging["up"]) = 0
      BY <2>2, EmptySeq
    <3>2. SubSeq(Content(c), 0 + 1, Len(Content(c))) = <<>>
      BY <1>4, <3>1
    <3>3. 0 >= Len(Content(c))
      BY <1>3, <3>2, Cut
    <3> QED
      BY <1>3, <3>3, Placed
  <2> QED
    BY <2>1, <2>2
<1>6. /\ queue'["up"] = queue["up"] /\ staging'["up"] = <<>> /\ Under("up")' = Under("up")
      /\ \A m \in Messages, b \in Body :
           Carries("up", m, b)' => \/ Carries("up", m, b)
                                   \/ queue["up"] # <<>> /\ m = Head(queue["up"]).msg /\ b = staging["up"]
  BY <1>0, WritesContentLine
<1>7. \A i \in 1..Len(queue'["up"]) : queue'["up"][i].source # NoSource =>
        /\ IsRequest(queue'["up"][i].msg)
        /\ queue'["up"][i].source = [kind |-> "bytes", body |-> Content(queue'["up"][i].msg.call)]
  BY <1>6 DEF UpInv
<1>8. \A m \in Under("up")' : IsRequest(m) => (m.attached <=> m.op \in Writes)
  BY <1>6 DEF UpInv
<1>9. \A m \in Messages, b \in Body : Carries("up", m, b)' => b = Content(m.call)
  BY <1>2, <1>5, <1>6 DEF UpInv
<1> QED
  BY <1>6, <1>7, <1>8, <1>9 DEF UpInv

\* The answer to a read of a file of which something is known is staged from it.
LEMMA DownHead ==
  ASSUME LineTypes, FileTypes, SureInv, ReadInv, Waiting, call.op = "read", known[call.path].sure,
         queue["down"] # <<>>, Head(queue["down"]).source # NoSource, Head(queue["down"]).msg.call = call.id
  PROVE  /\ Head(queue["down"]).source = [kind |-> "file", path |-> call.path]
         /\ known[call.path].file = disk[call.path]
         /\ disk[call.path] \in Entries /\ disk[call.path] # Absent
<1>1. /\ 1 \in 1..Len(queue["down"]) /\ Head(queue["down"]) = queue["down"][1]
      /\ Head(queue["down"]).msg \in Under("down")
  BY FirstWaits DEF Direction
<1>2. Head(queue["down"]).source = [kind |-> "file", path |-> call.path] /\ Head(queue["down"]).msg.status = "ok"
  BY <1>1 DEF ReadInv
<1>3. known[call.path].file # Absent
  BY <1>1, <1>2 DEF ReadInv
<1>4. call.path \in Path
  BY DEF FileTypes, Waiting, NoCall, Calls
<1>5. known[call.path].file = disk[call.path] /\ disk[call.path] \in Entries
  BY <1>4 DEF SureInv, FileTypes
<1> QED
  BY <1>2, <1>3, <1>5

LEMMA StagedDown ==
  ASSUME LineTypes, FileTypes, SureInv, ReadInv, NEW pieces \in Body, StagePieces("down", pieces),
         Rest("down") # <<>>, ApartInv("down"), WriterInv("down"),
         Source("down").kind = "file" => pieces = <<Rest("down")[1]>>,
         call' = call, known' = known
  PROVE  ReadInv'
<1>0. "down" \in Direction
  BY DEF Direction
<1> SUFFICES ASSUME Waiting, call.op = "read", known[call.path].sure
             PROVE  LET f == known[call.path].file IN
                    /\ \A m \in Under("down")' : m.call = call.id =>
                         IF m.status = "ok" THEN m.attached /\ f # Absent ELSE m.status = "failed" \/ f = Absent
                    /\ \A i \in 1..Len(queue'["down"]) :
                         queue'["down"][i].msg.call = call.id /\ queue'["down"][i].source # NoSource =>
                           /\ queue'["down"][i].msg.status = "ok"
                           /\ queue'["down"][i].source = [kind |-> "file", path |-> call.path]
                    /\ staging'["down"] # <<>> /\ Head(queue'["down"]).msg.call = call.id =>
                         Len(staging'["down"]) <= Len(f.body)
                           /\ staging'["down"] = SubSeq(f.body, 1, Len(staging'["down"]))
                    /\ \A m \in Messages, b \in Body : Carries("down", m, b)' /\ m.call = call.id => f = File(b)
  BY DEF ReadInv, Waiting
<1>1. PICK f : f = known[call.path].file
  OBVIOUS
<1>2. /\ \A m \in Under("down") : m.call = call.id =>
           IF m.status = "ok" THEN m.attached /\ f # Absent ELSE m.status = "failed" \/ f = Absent
      /\ \A i \in 1..Len(queue["down"]) :
           queue["down"][i].msg.call = call.id /\ queue["down"][i].source # NoSource =>
             /\ queue["down"][i].msg.status = "ok"
             /\ queue["down"][i].source = [kind |-> "file", path |-> call.path]
      /\ staging["down"] # <<>> /\ Head(queue["down"]).msg.call = call.id =>
           Len(staging["down"]) <= Len(f.body) /\ staging["down"] = SubSeq(f.body, 1, Len(staging["down"]))
      /\ \A m \in Messages, b \in Body : Carries("down", m, b) /\ m.call = call.id => f = File(b)
  BY <1>1 DEF ReadInv
<1>3. /\ queue'["down"] = queue["down"] /\ staging'["down"] = staging["down"] \o pieces
      /\ Under("down")' = Under("down") /\ CarriesNoMore("down")
      /\ queue["down"] # <<>>
  BY <1>0, StagesLine
<1>4. ASSUME Head(queue["down"]).msg.call = call.id
      PROVE  Len(staging'["down"]) <= Len(f.body) /\ staging'["down"] = SubSeq(f.body, 1, Len(staging'["down"]))
  <2>1. Head(queue["down"]).source # NoSource /\ Source("down") = Head(queue["down"]).source
    BY <1>3 DEF StagePieces, MustStage, AtHead, Source
  <2>2. /\ Source("down") = [kind |-> "file", path |-> call.path]
        /\ f = disk[call.path] /\ f \in Entries /\ f # Absent
    BY <1>1, <1>3, <1>4, <2>1, DownHead
  <2>3. f.body \in Seq(Chunk)
    <3>1. f \in {Absent, Dir} => f.body = <<>>
      BY DEF Dir, Absent
    <3> QED
      BY <2>2, <3>1, NothingIsTyped DEF Entries, Body
  <2>4. PICK n \in Nat : n = Len(staging["down"])
    BY <1>0, LineParts, Placed DEF Body
  <2>5. Rest("down") = SubSeq(f.body, n + 1, Len(f.body))
    <3>1. Source("down").kind = "file" /\ Source("down").path = call.path
      BY <2>2
    <3> QED
      BY <2>2, <2>4, <3>1 DEF Rest
  <2>6. n < Len(f.body) /\ Rest("down")[1] = f.body[n + 1] /\ Len(f.body) \in Nat /\ f.body[n + 1] \in Chunk
    <3>1. Len(f.body) \in Nat
      BY <2>3, Placed
    <3>2. ~(n >= Len(f.body))
      BY <2>3, <2>5, Cut
    <3>3. n < Len(f.body)
      BY <3>1, <3>2
    <3> QED
      BY <2>3, <2>5, <3>1, <3>3, Cut
  <2>7. staging["down"] = SubSeq(f.body, 1, n)
    <3>1. CASE staging["down"] = <<>>
      <4>1. n = 0
        BY <2>4, <3>1, EmptySeq
      <4>2. SubSeq(f.body, 1, 0) = <<>>
        BY SubSeqEmpty
      <4> QED
        BY <3>1, <4>1, <4>2
    <3>2. CASE staging["down"] # <<>>
      BY <1>2, <1>4, <2>4, <3>2
    <3> QED
      BY <3>1, <3>2
  <2>8. staging'["down"] = SubSeq(f.body, 1, n + 1)
    <3>1. pieces = <<f.body[n + 1]>>
      BY <2>2, <2>6
    <3> QED
      BY <1>3, <2>3, <2>6, <2>7, <3>1, Grown
  <2>9. Len(staging'["down"]) = n + 1 /\ n + 1 <= Len(f.body)
    <3>1. n + 1 <= Len(f.body) /\ n + 1 \in Nat
      BY <2>6
    <3> QED
      BY <2>3, <2>8, <3>1, Front
  <2> QED
    BY <2>8, <2>9
<1>5. \A m \in Messages, b \in Body : Carries("down", m, b)' /\ m.call = call.id => f = File(b)
  BY <1>2, <1>3 DEF CarriesNoMore
<1> QED
  BY <1>1, <1>2, <1>3, <1>4, <1>5

LEMMA WroteDown ==
  ASSUME LineTypes, FileTypes, SureInv, ReadInv, WriteContent("down"),
         Rest("down") = <<>>, ~Unreadable("down"), ApartInv("down"), WriterInv("down"),
         call' = call, known' = known
  PROVE  ReadInv'
<1>0. "down" \in Direction
  BY DEF Direction
<1> SUFFICES ASSUME Waiting, call.op = "read", known[call.path].sure
             PROVE  LET f == known[call.path].file IN
                    /\ \A m \in Under("down")' : m.call = call.id =>
                         IF m.status = "ok" THEN m.attached /\ f # Absent ELSE m.status = "failed" \/ f = Absent
                    /\ \A i \in 1..Len(queue'["down"]) :
                         queue'["down"][i].msg.call = call.id /\ queue'["down"][i].source # NoSource =>
                           /\ queue'["down"][i].msg.status = "ok"
                           /\ queue'["down"][i].source = [kind |-> "file", path |-> call.path]
                    /\ staging'["down"] # <<>> /\ Head(queue'["down"]).msg.call = call.id =>
                         Len(staging'["down"]) <= Len(f.body)
                           /\ staging'["down"] = SubSeq(f.body, 1, Len(staging'["down"]))
                    /\ \A m \in Messages, b \in Body : Carries("down", m, b)' /\ m.call = call.id => f = File(b)
  BY DEF ReadInv, Waiting
<1>1. PICK f : f = known[call.path].file
  OBVIOUS
<1>2. /\ \A m \in Under("down") : m.call = call.id =>
           IF m.status = "ok" THEN m.attached /\ f # Absent ELSE m.status = "failed" \/ f = Absent
      /\ \A i \in 1..Len(queue["down"]) :
           queue["down"][i].msg.call = call.id /\ queue["down"][i].source # NoSource =>
             /\ queue["down"][i].msg.status = "ok"
             /\ queue["down"][i].source = [kind |-> "file", path |-> call.path]
      /\ staging["down"] # <<>> /\ Head(queue["down"]).msg.call = call.id =>
           Len(staging["down"]) <= Len(f.body) /\ staging["down"] = SubSeq(f.body, 1, Len(staging["down"]))
      /\ \A m \in Messages, b \in Body : Carries("down", m, b) /\ m.call = call.id => f = File(b)
  BY <1>1 DEF ReadInv
<1>3. /\ queue'["down"] = queue["down"] /\ staging'["down"] = <<>> /\ Under("down")' = Under("down")
      /\ \A m \in Messages, b \in Body :
           Carries("down", m, b)' => \/ Carries("down", m, b)
                                     \/ queue["down"] # <<>> /\ m = Head(queue["down"]).msg /\ b = staging["down"]
  BY <1>0, WritesContentLine
<1>4. ASSUME queue["down"] # <<>>, Head(queue["down"]).msg.call = call.id PROVE f = File(staging["down"])
  <2>1. Head(queue["down"]).source # NoSource /\ Source("down") = Head(queue["down"]).source
    BY <1>4 DEF WriteContent, MustStage, AtHead, Source
  <2>2. /\ Source("down") = [kind |-> "file", path |-> call.path]
        /\ f = disk[call.path] /\ f \in Entries /\ f # Absent
    BY <1>1, <1>4, <2>1, DownHead
  <2>3. f.kind # "folder"
    BY <2>2 DEF Unreadable
  <2>4. f = File(f.body) /\ f.body \in Seq(Chunk)
    BY <2>2, <2>3 DEF Entries, Dir, File, Body
  <2>5. PICK n \in Nat : n = Len(staging["down"])
    BY <1>0, LineParts, Placed DEF Body
  <2>6. Rest("down") = SubSeq(f.body, n + 1, Len(f.body))
    <3>1. Source("down").kind = "file" /\ Source("down").path = call.path
      BY <2>2
    <3> QED
      BY <2>2, <2>5, <3>1 DEF Rest
  <2>7. n >= Len(f.body) /\ Len(f.body) \in Nat
    BY <2>4, <2>6, Cut, Placed
  <2>8. CASE staging["down"] = <<>>
    <3>1. n = 0
      BY <2>5, <2>8, EmptySeq
    <3>2. f.body = <<>>
      BY <2>4, <2>7, <3>1, EmptySeq
    <3> QED
      BY <2>4, <2>8, <3>2
  <2>9. CASE staging["down"] # <<>>
    <3>1. n <= Len(f.body) /\ staging["down"] = SubSeq(f.body, 1, n)
      BY <1>2, <1>4, <2>5, <2>9
    <3>2. n = Len(f.body)
      BY <2>7, <3>1
    <3>3. staging["down"] = f.body
      BY <2>4, <3>1, <3>2, Front
    <3> QED
      BY <2>4, <3>3
  <2> QED
    BY <2>8, <2>9
<1>5. \A m \in Messages, b \in Body : Carries("down", m, b)' /\ m.call = call.id => f = File(b)
  BY <1>2, <1>3, <1>4
<1> QED
  BY <1>1, <1>2, <1>3, <1>5


-----------------------------------------------------------------------------
(* The steps of the line.                                                  *)

LEMMA OtherStill ==
  ASSUME LineTypes, NEW d \in Direction, NEW pieces, StagePieces(d, pieces) \/ WriteContent(d)
  PROVE  \A e \in Direction : e # d => Still(e)
BY DEF Still, LineTypes, StagePieces, WriteContent

\* What is staged is pieces.
LEMMA RestTyped ==
  ASSUME LineTypes, FileTypes, NEW d \in Direction, MustStage(d)
  PROVE  /\ Rest(d) \in Body
         /\ Rest(d) # <<>> => <<Rest(d)[1]>> \in Body
<1>1. Source(d) \in Sources /\ Source(d) # NoSource
  BY FirstWaits DEF MustStage, Busy, AtHead, Source
<1>2. PICK b \in Seq(Chunk) : b = IF Source(d).kind = "bytes" THEN Source(d).body ELSE disk[Source(d).path].body
  <2>1. CASE Source(d) \in [kind : {"bytes"}, body : Body]
    BY <2>1 DEF Body
  <2>2. CASE Source(d) \in [kind : {"file"}, path : Path]
    <3>1. Source(d).kind # "bytes" /\ disk[Source(d).path] \in Entries
      BY <2>2 DEF FileTypes
    <3>2. Absent.body = <<>> /\ Dir.body = <<>>
      BY DEF Dir, Absent
    <3>3. disk[Source(d).path].body \in Seq(Chunk)
      BY <3>1, <3>2, NothingIsTyped DEF Entries, Body
    <3> QED
      BY <3>1, <3>3
  <2> QED
    BY <1>1, <2>1, <2>2 DEF Sources
<1>3. PICK n \in Nat : n = Len(staging[d])
  BY LineParts, Placed DEF Body
<1>4. Rest(d) = SubSeq(b, n + 1, Len(b))
  BY <1>2, <1>3 DEF Rest
<1>5. Rest(d) \in Seq(Chunk)
  BY <1>4, Cut
<1>6. Rest(d) # <<>> => Rest(d)[1] \in Chunk
  BY <1>5, Placed
<1>7. ASSUME Rest(d) # <<>> PROVE <<Rest(d)[1]>> \in Body
  <2>1. PICK x \in Chunk : x = Rest(d)[1]
    BY <1>6, <1>7
  <2>2. <<x>> \in Seq(Chunk)
    OBVIOUS
  <2> QED
    BY <2>1, <2>2 DEF Body
<1> QED
  BY <1>5, <1>7 DEF Body

LEMMA CarryKeeps ==
  ASSUME FilesKept, NEW d \in Direction, Carry(d), UNCHANGED fileVars
  PROVE  FilesKept'
<1> USE DEF FilesKept
<1>0. "up" \in Direction /\ "down" \in Direction /\ ApartInv(d) /\ WriterInv(d)
      /\ ApartInv("up") /\ WriterInv("up") /\ ApartInv("down") /\ WriterInv("down")
  BY DEF Direction, RestInv
<1>1. FileTypes'
  BY DEF FileTypes, fileVars
<1>2. ASSUME Under("up")' \subseteq Under("up"), Under("down")' \subseteq Under("down") PROVE Fewer
  BY <1>2 DEF Fewer, Waiting, fileVars
<1>3. CASE StageFails(d) \/ ReadContent(d) \/ ReadTorn(d) \/ ReadEnd(d)
  BY <1>1, <1>2, <1>3, LineKeeps, LessKeeps
<1>4. CASE /\ MustStage(d) /\ ~Unreadable(d) /\ Rest(d) = <<>> /\ WriteContent(d)
  <2>1. /\ ApartInv(d)' /\ WriterInv(d)' /\ queue'[d] = queue[d] /\ Under(d)' = Under(d)
    BY <1>0, <1>4, WritesContentLine
  <2>2. \A e \in Direction : e # d => Still(e)
    BY <1>4, OtherStill
  <2>3. \A e \in Direction : e # d => Lessens(e)
    BY <2>2, StillLessens DEF RestInv
  <2>4. \A e \in Direction : Under(e)' \subseteq Under(e) /\ ApartInv(e)' /\ WriterInv(e)'
    BY <2>1, <2>3 DEF Lessens
  <2>5. CallsKept'
    BY <1>0, <1>2, <2>4, FewerKeeps DEF CallsKept
  <2>6. LineTypes'
    BY <1>4, WroteContentTypes
  <2>7. OnceInv'
    <3>1. CASE d = "up"
      <4>1. PICK f \in Frames : f = Attached(staging["up"]) /\ f.kind = "content"
        BY <1>0, LineParts, FrameKinds
      <4>2. wire'["up"] = Append(wire["up"], f)
        BY <1>0, <1>4, <3>1, <4>1 DEF WriteContent, LineTypes
      <4> QED
        BY <2>1, <3>1, <4>1, <4>2, OnceWroteContent
    <3>2. CASE d # "up"
      BY <1>0, <2>2, <3>2, OnceStill
    <3> QED
      BY <3>1, <3>2
  <2>8. UpInv'
    BY <1>0, <1>4, <2>3, LessUp, WroteUp
  <2>9. ReadInv'
    <3>1. CASE d = "down"
      BY <1>0, <1>4, <3>1, WroteDown DEF fileVars
    <3>2. CASE d # "down"
      BY <1>0, <2>3, <3>2, LessDown DEF fileVars, Waiting
    <3> QED
      BY <3>1, <3>2
  <2> QED
    BY <1>1, <2>4, <2>5, <2>6, <2>7, <2>8, <2>9 DEF CallsKept, RestInv
<1>5. CASE /\ MustStage(d) /\ ~Unreadable(d) /\ Rest(d) # <<>>
           /\ StagePieces(d, IF Source(d).kind = "file" THEN <<Rest(d)[1]>> ELSE Rest(d))
  <2>0. PICK pieces \in Body : /\ StagePieces(d, pieces)
                               /\ pieces = IF Source(d).kind = "file" THEN <<Rest(d)[1]>> ELSE Rest(d)
    <3>1. (IF Source(d).kind = "file" THEN <<Rest(d)[1]>> ELSE Rest(d)) \in Body
      BY <1>5, RestTyped
    <3> QED
      BY <1>5, <3>1
  <2>1. /\ ApartInv(d)' /\ WriterInv(d)' /\ queue'[d] = queue[d] /\ Under(d)' = Under(d)
    BY <1>0, <2>0, StagesLine
  <2>2. \A e \in Direction : e # d => Still(e)
    BY <2>0, OtherStill
  <2>3. \A e \in Direction : e # d => Lessens(e)
    BY <2>2, StillLessens DEF RestInv
  <2>4. \A e \in Direction : Under(e)' \subseteq Under(e) /\ ApartInv(e)' /\ WriterInv(e)'
    BY <2>1, <2>3 DEF Lessens
  <2>5. CallsKept'
    BY <1>0, <1>2, <2>4, FewerKeeps DEF CallsKept
  <2>6. LineTypes'
    BY <2>0, StagedTypes
  <2>7. OnceInv'
    <3>1. wire' = wire /\ queue' = queue
      BY <2>0 DEF StagePieces
    <3> QED
      BY <3>1, OnceFewer
  <2>8. UpInv'
    <3>1. CASE d = "up"
      <4>1. Source("up").kind # "file"
        BY <1>0, <1>5, <3>1, UpHead DEF MustStage, Busy, Source, AtHead
      <4>2. pieces = Rest("up")
        BY <2>0, <3>1, <4>1
      <4> QED
        BY <1>0, <1>5, <2>0, <3>1, <4>2, StagedUp
    <3>2. CASE d # "up"
      BY <1>0, <2>3, <3>2, LessUp
    <3> QED
      BY <3>1, <3>2
  <2>9. ReadInv'
    <3>1. CASE d = "down"
      BY <1>0, <1>5, <2>0, <3>1, StagedDown DEF fileVars
    <3>2. CASE d # "down"
      BY <1>0, <2>3, <3>2, LessDown DEF fileVars, Waiting
    <3> QED
      BY <3>1, <3>2
  <2> QED
    BY <1>1, <2>4, <2>5, <2>6, <2>7, <2>8, <2>9 DEF CallsKept, RestInv
<1> QED
  BY <1>3, <1>4, <1>5 DEF Carry, Stage

LEMMA WriteKeeps ==
  ASSUME FilesKept, NEW d \in Direction, Write(d)
  PROVE  FilesKept'
<1>1. /\ LineTypes' /\ OnceInv' /\ Lessens("up") /\ Lessens("down")
      /\ Under("up")' \subseteq Under("up") /\ Under("down")' \subseteq Under("down")
  BY LineKeeps DEF Write
<1>2. FileTypes
  BY DEF FilesKept
<1>3. call.at = "sending" => call \in Calls /\ [call EXCEPT !.at = "waiting"] \in Calls
  BY <1>2 DEF FileTypes, NoCall, Calls
<1>4. call' = call \/ (call \in Calls /\ call.at = "sending" /\ call' = [call EXCEPT !.at = "waiting"])
  BY <1>3 DEF Write
<1>5. FileTypes'
  <2>1. call' \in {NoCall} \union Calls
    BY <1>2, <1>3, <1>4 DEF FileTypes
  <2> QED
    BY <1>2, <2>1 DEF FileTypes, Write
<1>6. Fewer
  <2>1. CASE call' = call
    BY <1>1, <2>1 DEF Fewer, Waiting, Write
  <2>2. CASE call \in Calls /\ call.at = "sending" /\ call' = [call EXCEPT !.at = "waiting"]
    <3>1. Waiting /\ call'.id = call.id /\ call'.op = call.op /\ call'.path = call.path /\ call'.clean = call.clean
      BY <2>2 DEF Waiting, Calls
    <3> QED
      BY <1>1, <3>1 DEF Fewer, Write
  <2> QED
    BY <1>4, <2>1, <2>2
<1> QED
  BY <1>1, <1>5, <1>6, LessKeeps

\* The worker goes, or its serve loop.
LEMMA DiesKeeps ==
  ASSUME FilesKept, NEW frames, Unlink(frames), tasks' = {}, UNCHANGED <<disk, made, call, late, known, seen>>
  PROVE  FilesKept'
<1>1. /\ LineTypes' /\ OnceInv' /\ Lessens("up") /\ Lessens("down")
      /\ Under("up")' \subseteq Under("up") /\ Under("down")' \subseteq Under("down")
  BY UnlinkKeeps
<1>2. FileTypes'
  BY DEF FilesKept, FileTypes
<1>3. Fewer
  BY <1>1 DEF Fewer, Waiting
<1> QED
  BY <1>1, <1>2, <1>3, LessKeeps


-----------------------------------------------------------------------------
(* The host's steps.                                                       *)

LEMMA UpQueued ==
  ASSUME LineTypes, UpInv, ApartInv("up"), WriterInv("up"),
         NEW m \in Messages, NEW src \in Sources, Queues("up", m, src),
         src # NoSource => IsRequest(m) /\ src = [kind |-> "bytes", body |-> Content(m.call)],
         IsRequest(m) => (m.attached <=> m.op \in Writes)
  PROVE  UpInv'
<1> DEFINE x == [msg |-> m, source |-> src]
<1>1. x \in Items /\ x.msg = m /\ x.source = src
  BY DEF Items
<1>2. queue["up"] \in Seq(Items)
  BY LineParts DEF Direction
<1>3. /\ 1..Len(queue'["up"]) = 1..Len(queue["up"]) \union {Len(queue["up"]) + 1}
      /\ \A i \in 1..Len(queue["up"]) : queue'["up"][i] = queue["up"][i]
      /\ queue'["up"][Len(queue["up"]) + 1] = x
      /\ queue["up"] # <<>> => Head(queue'["up"]) = Head(queue["up"])
  <2>1. queue'["up"] = Append(queue["up"], x)
    BY DEF Queues
  <2> HIDE DEF x
  <2> QED
    BY <1>1, <1>2, <2>1, Appended
<1>4. Under("up")' = Under("up") \union {m} /\ CarriesNoMore("up")
  BY QueuesLine DEF Direction
<1> HIDE DEF x
<1>5. \A i \in 1..Len(queue'["up"]) : queue'["up"][i].source # NoSource =>
        /\ IsRequest(queue'["up"][i].msg)
        /\ queue'["up"][i].source = [kind |-> "bytes", body |-> Content(queue'["up"][i].msg.call)]
  <2> TAKE i \in 1..Len(queue'["up"])
  <2>1. CASE i \in 1..Len(queue["up"])
    BY <1>3, <2>1 DEF UpInv
  <2>2. CASE i = Len(queue["up"]) + 1
    BY <1>1, <1>3, <2>2
  <2> QED
    BY <1>3, <2>1, <2>2
<1>6. \A n \in Under("up")' : IsRequest(n) => (n.attached <=> n.op \in Writes)
  BY <1>4 DEF UpInv
<1>7. staging'["up"] # <<>> => staging'["up"] = Head(queue'["up"]).source.body
  BY <1>3 DEF UpInv, WriterInv, Queues
<1>8. \A n \in Messages, b \in Body : Carries("up", n, b)' => b = Content(n.call)
  BY <1>4 DEF UpInv, CarriesNoMore
<1> QED
  BY <1>5, <1>6, <1>7, <1>8 DEF UpInv

\* Nothing is said of a read that nobody has answered.
LEMMA NoReply ==
  LineTypes /\ WriterInv("down") /\ (Waiting => \A n \in Under("down") : n.call # call.id) => ReadInv
<1> SUFFICES ASSUME LineTypes, WriterInv("down"), Waiting, \A n \in Under("down") : n.call # call.id
             PROVE  ReadInv
  BY DEF ReadInv
<1>0. "down" \in Direction
  BY DEF Direction
<1>1. \A i \in 1..Len(queue["down"]) : queue["down"][i].msg.call # call.id
  BY DEF Under, Waits
<1>2. staging["down"] # <<>> => Head(queue["down"]).msg.call # call.id
  BY <1>0, FirstWaits DEF WriterInv
<1>3. \A m \in Messages, b \in Body : Carries("down", m, b) => m.call # call.id
  BY <1>0, CarriedUnder
<1> QED
  BY <1>1, <1>2, <1>3 DEF ReadInv

\* Something is queued upwards, and nothing else moves on the line.
LEMMA UpSides ==
  ASSUME LineTypes, WriterInv("up"), writing["up"], NEW m \in Messages, NEW src \in Sources,
         queue' = Queued("up", m, src),
         UNCHANGED <<staging, staged, wire, received, writing, reading, linked>>
  PROVE  Queues("up", m, src) /\ Still("down") /\ LineTypes'
<1>1. "up" \in Direction /\ "down" \in Direction
  BY DEF Direction
<1>2. queue'["up"] = Append(queue["up"], [msg |-> m, source |-> src]) /\ queue'["down"] = queue["down"]
  BY <1>1 DEF Queued, LineTypes
<1>3. LineTypes'
  BY <1>1, QueuedTypes
<1> QED
  BY <1>2, <1>3 DEF Queues, Still

LEMMA CallNumbers ==
  /\ MaxCalls \in Nat
  /\ \A m \in Messages : m.call \in 0..MaxCalls /\ m.call \in Nat
  /\ \A m \in Messages : m.kind \in {"request", "cancel"} => m.call \in 1..MaxCalls
<1>1. MaxCalls \in Nat
  BY FilesAssumption
<1>2. \A m \in Messages : m.call \in 0..MaxCalls
  <2>1. \A m \in Requests \union Cancels : m.call \in 1..MaxCalls
    BY DEF Requests, Cancels
  <2>2. \A m \in Responses : m.call \in 0..MaxCalls
    BY DEF Responses
  <2>3. \A n \in 1..MaxCalls : n \in 0..MaxCalls
    BY <1>1
  <2> QED
    BY <2>1, <2>2, <2>3 DEF Messages
<1>3. \A n \in 0..MaxCalls : n \in Nat
  BY <1>1
<1>4. \A m \in Messages : m.kind \in {"request", "cancel"} => m.call \in 1..MaxCalls
  BY <1>1 DEF Messages, Requests, Cancels, Responses
<1> QED
  BY <1>1, <1>2, <1>3, <1>4

LEMMA RequestParts ==
  ASSUME NEW c \in 1..MaxCalls, NEW op \in Ops, NEW p \in Path, NEW a \in BOOLEAN
  PROVE  /\ Request(c, op, p, a) \in Messages /\ IsRequest(Request(c, op, p, a))
         /\ Request(c, op, p, a).call = c /\ Request(c, op, p, a).op = op /\ Request(c, op, p, a).path = p
         /\ Request(c, op, p, a).attached = a
<1>1. Request(c, op, p, a) \in Requests
  BY DEF Request, Requests
<1> QED
  BY <1>1 DEF Request, Messages, IsRequest

LEMMA CancelParts ==
  ASSUME NEW c \in 1..MaxCalls
  PROVE  Cancel(c) \in Messages /\ ~IsRequest(Cancel(c)) /\ Cancel(c).kind = "cancel" /\ Cancel(c).call = c
<1>1. Cancel(c) \in Cancels
  BY DEF Cancel, Cancels
<1> QED
  BY <1>1 DEF Cancel, Messages, IsRequest

LEMMA PresumedTyped ==
  ASSUME FileTypes, NEW op, NEW p \in Path
  PROVE  Presumed(op, p) \in [sure : BOOLEAN, file : Entries]
BY DEF FileTypes, Presumed, Unsure, Entries

LEMMA MakeKeeps ==
  ASSUME FilesKept, NEW op \in Ops, NEW p \in Path, Make(op, p)
  PROVE  FilesKept'
<1> USE DEF FilesKept
<1>0. /\ "up" \in Direction /\ "down" \in Direction
      /\ ApartInv("up") /\ WriterInv("up") /\ ApartInv("down") /\ WriterInv("down")
  BY DEF Direction, RestInv
<1>1. PICK c : c = made + 1
  OBVIOUS
<1>2. c \in 1..MaxCalls /\ made \in Nat /\ c > made /\ MaxCalls \in Nat
  BY <1>1, FilesAssumption DEF FileTypes, Make
<1>3. PICK m : m = Request(c, op, p, op \in Writes)
  OBVIOUS
<1>4. /\ m \in Messages /\ IsRequest(m) /\ m.call = c /\ m.op = op /\ m.path = p
      /\ m.attached <=> op \in Writes
  <2>1. CASE op \in Writes
    <3>1. m = Request(c, op, p, TRUE)
      BY <1>3, <2>1
    <3> QED
      BY <1>2, <2>1, <3>1, RequestParts
  <2>2. CASE op \notin Writes
    <3>0. (op \in Writes) = FALSE
      BY <2>2
    <3>1. m = Request(c, op, p, FALSE)
      BY <1>3, <3>0, Zenon
    <3> QED
      BY <1>2, <2>2, <3>1, RequestParts
  <2> QED
    BY <2>1, <2>2
<1>5. PICK src : src = IF op \in Writes THEN [kind |-> "bytes", body |-> Content(c)] ELSE NoSource
  OBVIOUS
<1>6. src \in Sources /\ (src # NoSource => src = [kind |-> "bytes", body |-> Content(m.call)])
  <2>1. Content(c) \in Body
    BY <1>2, ContentTyped
  <2> QED
    BY <1>4, <1>5, <2>1 DEF Sources
<1>7. /\ writing["up"] /\ queue' = Queued("up", m, src)
      /\ UNCHANGED <<staging, staged, wire, received, writing, reading, linked>>
  BY <1>1, <1>3, <1>5 DEF Make
<1>8. Queues("up", m, src) /\ Still("down") /\ LineTypes'
  BY <1>0, <1>4, <1>6, <1>7, UpSides
<1>9. /\ ApartInv("up")' /\ WriterInv("up")' /\ Under("up")' = Under("up") \union {m}
      /\ ApartInv("down")' /\ WriterInv("down")' /\ Under("down")' = Under("down")
  BY <1>0, <1>4, <1>6, <1>8, QueuesLine, StillLine
<1>10. /\ made' = c /\ disk' = disk /\ tasks' = tasks /\ late' = late /\ seen' = NotSeen /\ call = NoCall
       /\ call' = [at |-> "sending", id |-> c, op |-> op, path |-> p, clean |-> ~Unsettled(p)]
       /\ known' = IF op \in Writes \union {"folder"} THEN [known EXCEPT ![p] = Presumed(op, p)] ELSE known
  BY <1>1 DEF Make
<1>11. Waiting' /\ call'.id = c /\ call'.op = op /\ call'.path = p /\ (call'.clean <=> ~Unsettled(p))
  BY <1>10 DEF Waiting
<1>12. FileTypes'
  <2>1. Unsettled(p) \in BOOLEAN
    BY DEF Unsettled
  <2>2. call' \in Calls
    BY <1>2, <1>10, <2>1 DEF Calls
  <2>3. known' \in [Path -> [sure : BOOLEAN, file : Entries]]
    BY <1>10, PresumedTyped DEF FileTypes
  <2>4. made' \in 0..MaxCalls
    BY <1>2, <1>10
  <2> QED
    BY <1>10, <2>2, <2>3, <2>4 DEF FileTypes
<1>13. /\ \A n \in Under("up") : n.call <= made /\ n.call # c /\ n.kind \in {"request", "cancel"}
       /\ \A n \in Under("down") : n.call <= made /\ n.call # c /\ n.kind = "response"
       /\ \A t \in tasks : t.id <= made /\ t.id # c
  <2>1. \A n \in Messages : n.call \in Nat
    BY CallNumbers
  <2>2. Under("up") \subseteq Messages /\ Under("down") \subseteq Messages
    BY <1>0, LineParts DEF Under, Waits, Flies
  <2>3. \A t \in tasks : t.id \in Nat
    BY FilesAssumption DEF FileTypes, Tasks
  <2>4. \A k \in Nat : k <= made => k # c
    BY <1>1, <1>2
  <2> QED
    BY <2>1, <2>2, <2>3, <2>4 DEF WayInv
<1>14. WayInv'
  <2>1. \A k \in Nat : k <= made => k <= c
    BY <1>1, <1>2
  <2>2. \A n \in Messages : n.call \in Nat
    BY CallNumbers
  <2>3. Under("up") \subseteq Messages /\ Under("down") \subseteq Messages
    BY <1>0, LineParts DEF Under, Waits, Flies
  <2>4. \A t \in tasks : t.id \in Nat
    BY FilesAssumption DEF FileTypes, Tasks
  <2>5. m.call <= c /\ m.kind = "request"
    BY <1>2, <1>4 DEF IsRequest
  <2> QED
    BY <1>9, <1>10, <1>13, <2>1, <2>2, <2>3, <2>4, <2>5 DEF WayInv
<1>15. PlaceInv'
  <2>1. \A n : Asked(n)' <=> Asked(n) \/ n = c
    BY <1>4, <1>9 DEF Asked
  <2>2. \A n : (Doing(n)' <=> Doing(n)) /\ (Replied(n)' <=> Replied(n))
    BY <1>9, <1>10 DEF Doing, Replied
  <2>3. ~Doing(c) /\ ~Replied(c)
    BY <1>13 DEF Doing, Replied
  <2> QED
    BY <1>10, <2>1, <2>2, <2>3 DEF PlaceInv
<1>16. CallInv'
  BY <1>4, <1>9, <1>10, <1>11, <1>13 DEF CallInv
<1>17. TaskInv'
  BY <1>10 DEF TaskInv
<1>18. SureInv'
  <2> SUFFICES ASSUME NEW q \in Path, known'[q].sure
               PROVE  /\ disk'[q] = known'[q].file
                      /\ \A n \in Under("up")' : IsRequest(n) /\ n.path = q => Harmless(n.op, q)'
                      /\ \A t \in tasks' : t.path = q => Harmless(t.op, q)' /\ t.at = "open"
                      /\ \A e \in late' : e.path = q => Harmless(e.op, q)'
    BY DEF SureInv
  <2>1. known'[q] = known[q] /\ (q = p => Harmless(op, p)')
    <3>1. CASE q # p
      BY <1>10, <3>1 DEF FileTypes
    <3>2. CASE q = p /\ op \in Writes \union {"folder"}
      <4>1. known'[p] = Presumed(op, p)
        BY <1>10, <3>2 DEF FileTypes
      <4>2. op = "create" /\ known[p].sure /\ known[p].file # Absent /\ known'[p] = known[p]
        BY <3>2, <4>1 DEF Presumed, Unsure
      <4> QED
        BY <3>2, <4>2 DEF Harmless
    <3>3. CASE q = p /\ op \notin Writes \union {"folder"}
      <4>1. op \in {"read", "search"}
        BY <3>3 DEF Ops
      <4> QED
        BY <1>10, <3>3, <4>1 DEF Harmless
    <3> QED
      BY <3>1, <3>2, <3>3
  <2>2. \A o : Harmless(o, q)' <=> Harmless(o, q)
    BY <2>1 DEF Harmless
  <2> QED
    BY <1>4, <1>9, <1>10, <2>1, <2>2 DEF SureInv
<1>19. CleanInv'
  <2> SUFFICES ASSUME ~Unsettled(p)
               PROVE  /\ \A n \in Under("up")' : IsRequest(n) /\ n.path = p => n.call = c
                      /\ \A t \in tasks : t.path # p
                      /\ \A e \in late : e.path # p
                      /\ \A n \in Under("down")' : n.call # c
    BY <1>10, <1>11 DEF CleanInv
  <2>1. \A n \in Under("up") : IsRequest(n) => n.path # p
    <3>1. \A n \in Waits("up") : IsRequest(n) => n.path # p
      BY DEF Unsettled, Waits, IsRequest
    <3>2. \A n \in Flies("up") : IsRequest(n) => n.path # p
      BY FrameKinds DEF Unsettled, Flies, IsRequest
    <3> QED
      BY <3>1, <3>2 DEF Under
  <2> QED
    BY <1>4, <1>9, <1>13, <2>1 DEF Unsettled
<1>20. SeenInv'
  BY <1>10 DEF SeenInv, NotSeen
<1>21. UpInv'
  BY <1>0, <1>4, <1>6, <1>8, UpQueued
<1>22. ReadInv'
  <2>1. Waiting' => \A n \in Under("down")' : n.call # call'.id
    BY <1>9, <1>11, <1>13
  <2>2. (LineTypes /\ WriterInv("down") /\ (Waiting => \A n \in Under("down") : n.call # call.id) => ReadInv)'
    BY NoReply, PTL
  <2> QED
    BY <1>8, <1>9, <2>1, <2>2
<1>23. OnceInv'
  BY <1>4, <1>6, <1>8, <1>13, OnceQueued
<1>24. RestInv'
  BY <1>9 DEF RestInv, Direction
<1> QED
  BY <1>8, <1>12, <1>14, <1>15, <1>16, <1>17, <1>18, <1>19, <1>20, <1>21, <1>22, <1>23, <1>24

LEMMA DropKeeps ==
  ASSUME FilesKept, Drop
  PROVE  FilesKept'
<1> USE DEF FilesKept
<1>0. /\ "up" \in Direction /\ "down" \in Direction
      /\ ApartInv("up") /\ WriterInv("up") /\ ApartInv("down") /\ WriterInv("down")
  BY DEF Direction, RestInv
<1>1. /\ Waiting /\ call' = NoCall /\ UNCHANGED <<disk, made, tasks, late, serving, known, seen>>
      /\ UNCHANGED <<staging, staged, wire, received, writing, reading, linked>>
  BY DEF Drop, Waiting
<1>2. ~Waiting'
  BY <1>1 DEF Waiting, NoCall
<1>3. CASE queue' = queue
  BY <1>1, <1>3, EndsKeeps DEF lineVars
<1>4. CASE queue' # queue
  <2>1. writing["up"] /\ queue' = Queued("up", Cancel(call.id), NoSource) /\ call.at = "waiting"
    BY <1>4 DEF Drop
  <2>2. call.id \in 1..MaxCalls
    BY <1>1 DEF FileTypes, Waiting, NoCall, Calls
  <2>3. PICK m \in Messages : m = Cancel(call.id) /\ m.kind = "cancel" /\ ~IsRequest(m) /\ m.call = call.id
    BY <2>2, CancelParts
  <2>4. NoSource \in Sources
    BY DEF Sources
  <2>5. Queues("up", m, NoSource) /\ Still("down") /\ LineTypes'
    BY <1>0, <1>1, <2>1, <2>3, <2>4, UpSides
  <2>6. /\ ApartInv("up")' /\ WriterInv("up")' /\ Under("up")' = Under("up") \union {m}
        /\ ApartInv("down")' /\ WriterInv("down")' /\ Under("down")' = Under("down")
    BY <1>0, <2>3, <2>4, <2>5, QueuesLine, StillLine
  <2>7. FileTypes'
    BY <1>1 DEF FileTypes
  <2>8. WayInv'
    BY <1>1, <2>3, <2>6, FilesAssumption DEF WayInv, CallInv, FileTypes
  <2>9. PlaceInv'
    <3>1. \A n : (Asked(n)' <=> Asked(n)) /\ (Doing(n)' <=> Doing(n)) /\ (Replied(n)' <=> Replied(n))
      BY <1>1, <2>3, <2>6 DEF Asked, Doing, Replied
    <3> QED
      BY <1>1, <3>1 DEF PlaceInv
  <2>10. CallInv' /\ CleanInv' /\ ReadInv'
    BY <1>2 DEF CallInv, CleanInv, ReadInv
  <2>11. TaskInv' /\ SeenInv'
    BY <1>1 DEF TaskInv, SeenInv
  <2>12. SureInv'
    BY <1>1, <2>3, <2>6 DEF SureInv, Harmless
  <2>13. UpInv'
    BY <1>0, <2>3, <2>4, <2>5, UpQueued
  <2>14. OnceInv'
    BY <2>3, <2>4, <2>5, OnceQueued
  <2>15. RestInv'
    BY <2>6 DEF RestInv, Direction
  <2> QED
    BY <2>5, <2>7, <2>8, <2>9, <2>10, <2>11, <2>12, <2>13, <2>14, <2>15
<1> QED
  BY <1>3, <1>4


LEMMA LearnedTyped ==
  ASSUME FileTypes, call \in Calls, NEW m
  PROVE  Learned(m) \in [sure : BOOLEAN, file : Entries]
<1>1. call.id \in 1..MaxCalls /\ call.path \in Path
  BY DEF Calls
<1>2. Believed(File(Content(call.id))) \in [sure : BOOLEAN, file : Entries]
  BY <1>1, ContentTyped DEF Believed, File, Entries
<1>3. Believed(Dir) \in [sure : BOOLEAN, file : Entries]
  BY DEF Believed, Entries
<1>4. known[call.path] \in [sure : BOOLEAN, file : Entries]
  BY <1>1 DEF FileTypes
<1> QED
  BY <1>2, <1>3, <1>4 DEF Learned

\* The answer to the call: the tools learn of the file, or have read it.
LEMMA AnswersKeeps ==
  ASSUME FilesKept, LineTypes', OnceInv', Lessens("up"), Lessens("down"),
         Under("up")' = Under("up"),
         NEW m, m.body \in Body, NEW r \in Under("down"), r.call = call.id, r.status = m.status,
         r.attached => Carries("down", r, m.body), r \in Messages, call.at = "waiting",
         call' = IF m.status = "search" THEN [call EXCEPT !.at = "hearing"] ELSE NoCall,
         known' = [known EXCEPT ![call.path] = Learned(m)],
         seen' = IF call.op # "read" THEN seen
                 ELSE [sure |-> known[call.path].sure /\ m.status # "failed", path |-> call.path,
                       file |-> IF m.status = "ok" THEN File(m.body) ELSE Absent],
         UNCHANGED <<disk, made, tasks, late>>
  PROVE  FilesKept'
<1> USE DEF FilesKept
<1>1. call \in Calls /\ Waiting /\ call.path \in Path /\ call.id \in 1..MaxCalls
  BY DEF FileTypes, NoCall, Calls, Waiting
<1>2. call' \in {NoCall} \union Calls /\ ~Waiting'
  BY <1>1 DEF Calls, Waiting, NoCall
<1>3. ~seen.sure
  BY <1>1 DEF SeenInv
<1>4. FileTypes'
  <2>1. known' \in [Path -> [sure : BOOLEAN, file : Entries]]
    BY <1>1, LearnedTyped DEF FileTypes
  <2>2. (IF m.status = "ok" THEN File(m.body) ELSE Absent) \in Entries
    BY DEF File, Entries
  <2>3. (known[call.path].sure /\ m.status # "failed") \in BOOLEAN
    BY <1>1 DEF FileTypes
  <2>4. seen' \in {NotSeen} \union [sure : BOOLEAN, path : Path, file : Entries]
    BY <1>1, <2>2, <2>3 DEF FileTypes
  <2> QED
    BY <1>2, <2>1, <2>4 DEF FileTypes
<1>5. WayInv' /\ PlaceInv' /\ TaskInv'
  BY FewerPlaces DEF Lessens
<1>6. CallInv' /\ CleanInv' /\ ReadInv'
  BY <1>2 DEF CallInv, CleanInv, ReadInv
<1>7. UpInv'
  BY LessUp
<1>8. Replied(call.id) /\ ~Asked(call.id) /\ ~Doing(call.id)
  BY <1>1 DEF Replied, PlaceInv
<1>9. SureInv'
  <2> SUFFICES ASSUME NEW q \in Path, known'[q].sure
               PROVE  /\ disk[q] = known'[q].file
                      /\ \A n \in Under("up") : IsRequest(n) /\ n.path = q => Harmless(n.op, q)'
                      /\ \A t \in tasks : t.path = q => Harmless(t.op, q)' /\ t.at = "open"
                      /\ \A e \in late : e.path = q => Harmless(e.op, q)'
    BY DEF SureInv
  <2>1. CASE known'[q] = known[q]
    <3>1. \A o : Harmless(o, q)' <=> Harmless(o, q)
      BY <2>1 DEF Harmless
    <3> QED
      BY <2>1, <3>1 DEF SureInv
  <2>2. CASE known'[q] # known[q]
    <3>1. q = call.path /\ known'[q] = Learned(m)
      BY <1>1, <2>2 DEF FileTypes
    <3>2. /\ call.op \in Writes \union {"folder"} /\ m.status = "ok" /\ call.clean
          /\ known'[q].file = IF call.op = "folder" THEN Dir ELSE File(Content(call.id))
      <4>1. CASE call.op \in Writes /\ m.status = "ok" /\ call.clean
        BY <3>1, <4>1 DEF Learned, Believed, Writes
      <4>2. CASE call.op = "folder" /\ m.status = "ok" /\ call.clean
        BY <3>1, <4>2 DEF Learned, Believed, Writes
      <4> QED
        BY <2>2, <3>1, <4>1, <4>2 DEF Learned
    <3>3. disk[q] = known'[q].file
      BY <1>1, <3>1, <3>2 DEF CleanInv
    <3>4. \A n \in Under("up") : ~(IsRequest(n) /\ n.path = q)
      BY <1>1, <1>8, <3>1, <3>2 DEF CleanInv, Asked
    <3>5. \A t \in tasks : t.path # q
      BY <1>1, <1>8, <3>1, <3>2 DEF CleanInv, Doing
    <3>6. \A e \in late : e.path # q
      BY <1>1, <3>1, <3>2 DEF CleanInv
    <3> QED
      BY <3>3, <3>4, <3>5, <3>6
  <2> QED
    BY <2>1, <2>2
<1>10. SeenInv'
  <2>1. CASE call.op # "read"
    BY <1>3, <2>1 DEF SeenInv
  <2>2. CASE call.op = "read" /\ known[call.path].sure /\ m.status # "failed"
    <3>1. known'[call.path] = known[call.path]
      BY <1>1, <2>2 DEF FileTypes, Learned, Writes
    <3>2. m.status = "ok" => known[call.path].file = File(m.body)
      BY <1>1, <2>2 DEF ReadInv
    <3>3. m.status # "ok" => known[call.path].file = Absent
      BY <1>1, <2>2 DEF ReadInv
    <3> QED
      BY <1>2, <2>2, <3>1, <3>2, <3>3 DEF SeenInv
  <2>3. CASE call.op = "read" /\ ~(known[call.path].sure /\ m.status # "failed")
    BY <2>3 DEF SeenInv
  <2> QED
    BY <2>1, <2>2, <2>3
<1>11. RestInv'
  BY DEF RestInv, Direction, Lessens
<1> QED
  BY <1>4, <1>5, <1>6, <1>7, <1>9, <1>10, <1>11

LEMMA AnsweredKeeps ==
  ASSUME FilesKept, Answered
  PROVE  FilesKept'
<1> USE DEF FilesKept
<1>0. /\ "up" \in Direction /\ "down" \in Direction
      /\ ApartInv("up") /\ WriterInv("up") /\ ApartInv("down") /\ WriterInv("down")
  BY DEF Direction, RestInv
<1>1. Delivered("down") /\ UNCHANGED <<disk, made, tasks, late, serving, queue, staging, staged, writing, reading, linked>>
  BY DEF Answered
<1>2. /\ wire["down"] # <<>> /\ Head(wire["down"]).kind = "json" /\ Claims(Head(wire["down"]).msg, received["down"])
      /\ Delivers("down") /\ Still("up")
  BY <1>0, <1>1, DeliveredSides
<1>3. LineTypes'
  <2>1. queue' \in [Direction -> Seq(Items)]
    BY <1>1 DEF LineTypes
  <2> QED
    BY <1>0, <1>1, <2>1, DeliveredTypes
<1>4. Lessens("up") /\ Lessens("down") /\ Under("up")' = Under("up") /\ OnceInv'
  BY <1>0, <1>2, DeliversLessens, StillLessens, StillLine, OnceStill
<1>5. PICK m : m = Message("down")
  OBVIOUS
<1>6. PICK r \in Messages : r = Head(wire["down"]).msg /\ r \in Under("down")
  BY <1>0, <1>2, MessageParts
<1>7. r.kind = "response"
  BY <1>6 DEF WayInv
<1>8. m.call = r.call /\ m.status = r.status /\ m.body \in Body /\ (r.attached => Carries("down", r, m.body))
  BY <1>0, <1>2, <1>5, <1>6, <1>7, MessageParts
<1>9. CASE call.at = "waiting" /\ m.call = call.id
  BY <1>1, <1>3, <1>4, <1>5, <1>6, <1>8, <1>9, AnswersKeeps DEF Answered
<1>10. CASE ~(call.at = "waiting" /\ m.call = call.id)
  <2>1. call' = call /\ known' = known /\ seen' = seen
    BY <1>5, <1>10 DEF Answered
  <2>2. Fewer
    BY <1>1, <1>4, <2>1 DEF Fewer, Lessens, Waiting
  <2>3. FileTypes'
    BY <1>1, <2>1 DEF FileTypes
  <2> QED
    BY <1>3, <1>4, <2>2, <2>3, LessKeeps
<1> QED
  BY <1>9, <1>10

-----------------------------------------------------------------------------
(* The worker's steps.                                                     *)

LEMMA ReceiveKeeps ==
  ASSUME FilesKept, Receive
  PROVE  FilesKept'
<1> USE DEF FilesKept
<1>0. /\ "up" \in Direction /\ "down" \in Direction
      /\ ApartInv("up") /\ WriterInv("up") /\ ApartInv("down") /\ WriterInv("down")
  BY DEF Direction, RestInv
<1>1. /\ Delivered("up") /\ Message("up").kind = "request" /\ tasks' = tasks \union {Task(Message("up"))}
      /\ UNCHANGED <<disk, made, call, late, known, seen, queue, staging, staged, writing, reading, linked>>
  BY DEF Receive
<1>2. /\ wire["up"] # <<>> /\ Head(wire["up"]).kind = "json" /\ Claims(Head(wire["up"]).msg, received["up"])
      /\ Delivers("up") /\ Still("down")
  BY <1>0, <1>1, DeliveredSides
<1>3. LineTypes'
  <2>1. queue' \in [Direction -> Seq(Items)]
    BY <1>1 DEF LineTypes
  <2> QED
    BY <1>0, <1>1, <2>1, DeliveredTypes
<1>4. Lessens("up") /\ Lessens("down") /\ Under("down")' = Under("down") /\ Under("up")' \subseteq Under("up")
  BY <1>0, <1>2, DeliversLessens, StillLessens, StillLine DEF Lessens
<1>5. OnceInv'
  BY <1>2, OnceFewer DEF Delivers
<1>6. PICK r \in Requests : /\ r = Head(wire["up"]).msg /\ r \in Under("up") /\ r \in Messages
                            /\ Message("up").call = r.call /\ Message("up").op = r.op /\ Message("up").path = r.path
                            /\ Message("up").body \in Body
                            /\ r.attached => Carries("up", r, Message("up").body)
  BY <1>0, <1>1, <1>2, MessageParts
<1>7. PICK b \in Body : b = Message("up").body
  BY <1>6
<1>8. /\ IsRequest(r) /\ r.call \in 1..MaxCalls /\ r.op \in Ops /\ r.path \in Path
      /\ r.op \in Writes => b = Content(r.call)
  <2>1. IsRequest(r) /\ r.call \in 1..MaxCalls /\ r.op \in Ops /\ r.path \in Path
    BY DEF IsRequest, Requests
  <2>2. r.op \in Writes => r.attached
    BY <1>6, <2>1 DEF UpInv
  <2> QED
    BY <1>6, <1>7, <2>1, <2>2 DEF UpInv
<1>9. PICK t \in Tasks : /\ tasks' = tasks \union {t}
                         /\ t.id = r.call /\ t.op = r.op /\ t.path = r.path /\ t.at = "open" /\ t.next = 1 /\ t.body = b
  <2>1. Task(Message("up")) = [id |-> r.call, op |-> r.op, path |-> r.path, at |-> "open", next |-> 1, body |-> b]
    BY <1>6, <1>7 DEF Task
  <2>2. [id |-> r.call, op |-> r.op, path |-> r.path, at |-> "open", next |-> 1, body |-> b] \in Tasks
    BY <1>8 DEF Tasks
  <2> QED
    BY <1>1, <2>1, <2>2
<1>10. /\ \A n \in Under("up")' : IsRequest(n) => n.call # r.call
       /\ Asked(r.call) /\ ~Doing(r.call) /\ ~Replied(r.call)
  BY <1>2, <1>6, <1>8, OnceTaken DEF PlaceInv, Asked
<1>11. FileTypes'
  BY <1>1, <1>9 DEF FileTypes
<1>12. WayInv'
  BY <1>1, <1>4, <1>6, <1>9 DEF WayInv
<1>13. PlaceInv'
  <2>1. \A n : Asked(n)' => Asked(n) /\ n # r.call
    BY <1>4, <1>10 DEF Asked
  <2>2. \A n : Doing(n)' => Doing(n) \/ n = r.call
    BY <1>9 DEF Doing
  <2>3. \A n : Replied(n)' <=> Replied(n)
    BY <1>4 DEF Replied
  <2>4. \A u, v \in tasks' : u.id = v.id => u = v
    BY <1>9, <1>10 DEF PlaceInv, Doing
  <2> QED
    BY <1>10, <2>1, <2>2, <2>3, <2>4 DEF PlaceInv
<1>14. CallInv'
  <2>1. Waiting' <=> Waiting
    BY <1>1 DEF Waiting
  <2> QED
    BY <1>1, <1>4, <1>6, <1>9, <2>1 DEF CallInv
<1>15. TaskInv'
  <2>1. t.next <= Len(t.body) + 1
    <3>1. Len(t.body) \in Nat
      BY <1>9, Placed DEF Body
    <3> QED
      BY <1>9, <3>1
  <2>2. (t.op \in Writes => t.body = Content(t.id)) /\ t.at # "copy" /\ (t.at = "open" => t.next = 1)
    BY <1>8, <1>9
  <2>3. \A u \in tasks' : u \in tasks \/ u = t
    BY <1>9
  <2> QED
    BY <2>1, <2>2, <2>3 DEF TaskInv
<1>16. SureInv'
  <2> SUFFICES ASSUME NEW q \in Path, known[q].sure
               PROVE  /\ disk[q] = known[q].file
                      /\ \A n \in Under("up")' : IsRequest(n) /\ n.path = q => Harmless(n.op, q)
                      /\ \A u \in tasks' : u.path = q => Harmless(u.op, q) /\ u.at = "open"
                      /\ \A e \in late : e.path = q => Harmless(e.op, q)
    BY <1>1 DEF SureInv, Harmless
  <2>1. t.path = q => Harmless(t.op, q) /\ t.at = "open"
    BY <1>6, <1>8, <1>9 DEF SureInv
  <2> QED
    BY <1>4, <1>9, <2>1 DEF SureInv
<1>17. CleanInv'
  <2> SUFFICES ASSUME Waiting, call.clean, call.op \in Writes \union {"folder"}
               PROVE  /\ \A m \in Under("up")' : IsRequest(m) /\ m.path = call.path => m.call = call.id
                      /\ \A u \in tasks' : u.path = call.path =>
                           /\ u.id = call.id
                           /\ u.at = "copy" => disk[call.path] = File(SubSeq(Content(call.id), 1, u.next - 1))
                      /\ \A e \in late : e.path # call.path
                      /\ \A m \in Under("down")' : m.call = call.id /\ m.status = "ok" =>
                           disk[call.path] = IF call.op = "folder" THEN Dir ELSE File(Content(call.id))
    BY <1>1 DEF CleanInv, Waiting
  <2>1. t.path = call.path => t.id = call.id /\ t.at # "copy"
    BY <1>6, <1>8, <1>9 DEF CleanInv
  <2> QED
    BY <1>4, <1>9, <2>1 DEF CleanInv
<1>18. SeenInv'
  BY <1>1 DEF SeenInv, Waiting
<1>19. UpInv'
  BY <1>4, LessUp
<1>20. ReadInv'
  BY <1>1, <1>4, LessDown DEF Waiting
<1>21. RestInv'
  BY <1>4 DEF RestInv, Direction, Lessens
<1> QED
  BY <1>3, <1>5, <1>11, <1>12, <1>13, <1>14, <1>15, <1>16, <1>17, <1>18, <1>19, <1>20, <1>21


LEMMA EntryBodies ==
  \A f \in Entries : f.body \in Body /\ (f.kind = "folder" <=> f = Dir)
                     /\ (f.kind = "file" => f = File(f.body)) /\ (f.kind \in {"absent", "folder", "file"})
                     /\ (f.kind = "absent" <=> f = Absent)
<1>1. Absent.body = <<>> /\ Absent.kind = "absent" /\ Dir.body = <<>> /\ Dir.kind = "folder"
  BY DEF Absent, Dir
<1> QED
  BY <1>1, NothingIsTyped DEF Entries, File

\* Writing a piece: what it leaves is a file again.
LEMMA PutTyped ==
  ASSUME NEW f \in Entries, NEW i \in Nat \ {0}, NEW x \in Chunk
  PROVE  Put(f, i, x) \in Entries
<1>1. f.body \in Seq(Chunk)
  BY EntryBodies DEF Body
<1>2. Len(f.body) \in Nat /\ \A k \in 1..Len(f.body) : f.body[k] \in Chunk
  BY <1>1, Placed
<1>3. PICK n \in Nat : n = IF Len(f.body) < i THEN i ELSE Len(f.body)
  BY <1>2
<1>4. Hole \in Chunk
  BY DEF Hole, Chunk
<1>5. \A k \in 1..n : (IF k = i THEN x ELSE IF k <= Len(f.body) THEN f.body[k] ELSE Hole) \in Chunk
  <2> TAKE k \in 1..n
  <2>1. k <= Len(f.body) => k \in 1..Len(f.body)
    BY <1>2, <1>3
  <2> QED
    BY <1>2, <1>4, <2>1
<1>6. [k \in 1..n |-> IF k = i THEN x ELSE IF k <= Len(f.body) THEN f.body[k] ELSE Hole] \in Seq(Chunk)
  BY <1>3, <1>5, IsASeq
<1>7. PICK b \in Seq(Chunk) : b = [k \in 1..n |-> IF k = i THEN x ELSE IF k <= Len(f.body) THEN f.body[k] ELSE Hole]
  BY <1>6
<1>8. Put(f, i, x) = File(b)
  BY <1>3, <1>7 DEF Put
<1> QED
  BY <1>8 DEF File, Entries, Body

\* The next piece of a content, at the end of those before it.
LEMMA PutNext ==
  ASSUME NEW c \in Seq(Chunk), NEW n \in Nat, n < Len(c), NEW f, f = File(SubSeq(c, 1, n))
  PROVE  Put(f, n + 1, c[n + 1]) = File(SubSeq(c, 1, n + 1))
<1>1. Len(c) \in Nat /\ n <= Len(c) /\ n + 1 <= Len(c) /\ n + 1 \in Nat
  BY Placed
<1>2. PICK b \in Seq(Chunk) : b = SubSeq(c, 1, n) /\ Len(b) = n /\ \A i \in 1..n : b[i] = c[i]
  BY <1>1, Front
<1>3. PICK e \in Seq(Chunk) : e = SubSeq(c, 1, n + 1) /\ Len(e) = n + 1 /\ \A i \in 1..(n + 1) : e[i] = c[i]
  BY <1>1, Front
<1>4. f.body = b
  BY <1>2 DEF File
<1>5. e = [k \in 1..(n + 1) |-> e[k]]
  BY <1>3, LenProperties
<1>6. \A k \in 1..(n + 1) : (IF k = n + 1 THEN c[n + 1] ELSE IF k <= n THEN b[k] ELSE Hole) = e[k]
  <2> TAKE k \in 1..(n + 1)
  <2>1. CASE k = n + 1
    BY <1>1, <1>3, <2>1
  <2>2. CASE k # n + 1
    <3>1. k \in 1..n /\ k <= n
      BY <2>2
    <3> QED
      BY <1>2, <1>3, <2>2, <3>1
  <2> QED
    BY <2>1, <2>2
<1>7. (IF n < n + 1 THEN n + 1 ELSE n) = n + 1
  OBVIOUS
<1>8. [k \in 1..(n + 1) |-> IF k = n + 1 THEN c[n + 1] ELSE IF k <= n THEN b[k] ELSE Hole] = e
  BY <1>5, <1>6
<1>9. Put(f, n + 1, c[n + 1]) = File(e)
  BY <1>2, <1>4, <1>7, <1>8 DEF Put
<1> QED
  BY <1>3, <1>9

LEMMA TaskOpens ==
  ASSUME NEW t \in Tasks
  PROVE  \E u \in Tasks : /\ u = [t EXCEPT !.at = "copy"] /\ u.at = "copy" /\ u.next = t.next
                          /\ u.id = t.id /\ u.op = t.op /\ u.path = t.path /\ u.body = t.body
<1> DEFINE u == [t EXCEPT !.at = "copy"]
<1>1. /\ u \in Tasks /\ u.at = "copy" /\ u.next = t.next
      /\ u.id = t.id /\ u.op = t.op /\ u.path = t.path /\ u.body = t.body
  BY DEF Tasks
<1> QED
  BY <1>1

LEMMA TaskMoves ==
  ASSUME NEW t \in Tasks, NEW n \in Nat \ {0}
  PROVE  \E u \in Tasks : /\ u = [t EXCEPT !.next = n] /\ u.at = t.at /\ u.next = n
                          /\ u.id = t.id /\ u.op = t.op /\ u.path = t.path /\ u.body = t.body
<1> DEFINE u == [t EXCEPT !.next = n]
<1>1. /\ u \in Tasks /\ u.at = t.at /\ u.next = n
      /\ u.id = t.id /\ u.op = t.op /\ u.path = t.path /\ u.body = t.body
  BY DEF Tasks
<1> QED
  BY <1>1

\* A task writes to its file, of which nothing is known.
LEMMA WritesKeeps ==
  ASSUME FilesKept, NEW t \in tasks, NEW u \in Tasks, NEW f \in Entries,
         u.id = t.id, u.op = t.op, u.path = t.path, u.body = t.body, u.at = "copy",
         t.op \in Writes, u.next <= Len(u.body) + 1,
         tasks' = (tasks \ {t}) \union {u}, disk' = [disk EXCEPT ![t.path] = f],
         ~known[t.path].sure,
         Waiting /\ call.clean /\ call.op \in Writes \union {"folder"} /\ t.path = call.path =>
           f = File(SubSeq(Content(call.id), 1, u.next - 1)),
         UNCHANGED <<made, call, late, known, seen, lineVars>>
  PROVE  FilesKept'
<1> USE DEF FilesKept
<1>1. /\ LineTypes' /\ OnceInv' /\ Lessens("up") /\ Lessens("down")
      /\ Under("up")' = Under("up") /\ Under("down")' = Under("down")
  BY BothLess
<1>2. t \in Tasks /\ t.path \in Path /\ t.id \in 1..MaxCalls
  BY DEF FileTypes, Tasks
<1>3. disk'[t.path] = f /\ \A p \in Path : p # t.path => disk'[p] = disk[p]
  BY <1>2 DEF FileTypes
<1>4. FileTypes'
  BY DEF FileTypes
<1>5. Waiting' <=> Waiting
  BY DEF Waiting
<1>6. WayInv'
  BY <1>1 DEF WayInv
<1>7. PlaceInv'
  <2>1. \A n : (Asked(n)' <=> Asked(n)) /\ (Doing(n)' <=> Doing(n)) /\ (Replied(n)' <=> Replied(n))
    BY <1>1 DEF Asked, Doing, Replied
  <2>2. \A v, w \in tasks' : v.id = w.id => v = w
    BY DEF PlaceInv
  <2> QED
    BY <2>1, <2>2 DEF PlaceInv
<1>8. CallInv'
  BY <1>1, <1>5 DEF CallInv
<1>9. TaskInv'
  BY DEF TaskInv
<1>10. SureInv'
  <2> SUFFICES ASSUME NEW p \in Path, known[p].sure
               PROVE  /\ disk'[p] = known[p].file
                      /\ \A m \in Under("up")' : IsRequest(m) /\ m.path = p => Harmless(m.op, p)
                      /\ \A v \in tasks' : v.path = p => Harmless(v.op, p) /\ v.at = "open"
                      /\ \A e \in late : e.path = p => Harmless(e.op, p)
    BY DEF SureInv, Harmless
  <2> QED
    BY <1>1, <1>3 DEF SureInv
<1>11. CleanInv'
  <2> SUFFICES ASSUME Waiting, call.clean, call.op \in Writes \union {"folder"}
               PROVE  /\ \A m \in Under("up")' : IsRequest(m) /\ m.path = call.path => m.call = call.id
                      /\ \A v \in tasks' : v.path = call.path =>
                           /\ v.id = call.id
                           /\ v.at = "copy" => disk'[call.path] = File(SubSeq(Content(call.id), 1, v.next - 1))
                      /\ \A e \in late : e.path # call.path
                      /\ \A m \in Under("down")' : m.call = call.id /\ m.status = "ok" =>
                           disk'[call.path] = IF call.op = "folder" THEN Dir ELSE File(Content(call.id))
    BY <1>5 DEF CleanInv
  <2>1. call.path \in Path /\ call.id \in 1..MaxCalls
    BY DEF FileTypes, Waiting, NoCall, Calls
  <2>2. CASE t.path = call.path
    <3>1. \A v \in tasks : v.path = call.path => v.id = call.id
      BY DEF CleanInv
    <3>2. \A v \in tasks : v.path = call.path => v = t
      BY <2>2, <3>1 DEF PlaceInv
    <3>3. \A m \in Under("down") : m.call # call.id
      BY <2>1, <2>2, <3>1 DEF PlaceInv, Doing, Replied
    <3> QED
      BY <1>1, <1>3, <2>2, <3>1, <3>2, <3>3 DEF CleanInv
  <2>3. CASE t.path # call.path
    <3>1. disk'[call.path] = disk[call.path] /\ u.path # call.path
      BY <1>3, <2>1, <2>3
    <3> QED
      BY <1>1, <3>1 DEF CleanInv
  <2> QED
    BY <2>2, <2>3
<1>12. SeenInv'
  BY <1>5 DEF SeenInv
<1>13. UpInv'
  BY <1>1, LessUp
<1>14. ReadInv'
  BY <1>1, <1>5, LessDown
<1>15. RestInv'
  BY <1>1 DEF RestInv, Direction, Lessens
<1> QED
  BY <1>1, <1>4, <1>6, <1>7, <1>8, <1>9, <1>10, <1>11, <1>12, <1>13, <1>14, <1>15

\* A file of which something is known is not to be opened for a write.
LEMMA OpensUnsure ==
  ASSUME FilesKept, NEW t \in tasks, t.op \in Writes, ~Refuses(t.op, disk[t.path])
  PROVE  ~known[t.path].sure
<1>1. t.path \in Path
  BY DEF FilesKept, FileTypes, Tasks
<1>2. ASSUME known[t.path].sure PROVE FALSE
  <2>1. Harmless(t.op, t.path) /\ disk[t.path] = known[t.path].file
    BY <1>1, <1>2 DEF FilesKept, SureInv
  <2> QED
    BY <2>1 DEF Harmless, Refuses, Writes
<1> QED
  BY <1>2

LEMMA OpensKeeps ==
  ASSUME FilesKept, NEW t \in tasks, Open(t), ~Refuses(t.op, disk[t.path])
  PROVE  FilesKept'
<1>1. t \in Tasks /\ t.op \in Writes /\ t.next = 1
  BY DEF FilesKept, FileTypes, TaskInv, Open
<1>2. PICK u \in Tasks : /\ u = [t EXCEPT !.at = "copy"]
                         /\ u.id = t.id /\ u.op = t.op /\ u.path = t.path /\ u.body = t.body /\ u.at = "copy" /\ u.next = 1
  BY <1>1, TaskOpens
<1>3. PICK f \in Entries : f = File(<<>>)
  BY NothingIsTyped DEF Entries, File
<1>4. /\ tasks' = (tasks \ {t}) \union {u} /\ disk' = [disk EXCEPT ![t.path] = f]
      /\ UNCHANGED <<made, call, late, known, seen, lineVars>>
  BY <1>2, <1>3 DEF Open, Become
<1>5. ~known[t.path].sure
  BY <1>1, OpensUnsure
<1>6. u.next <= Len(u.body) + 1
  <2>1. Len(u.body) \in Nat
    BY Placed DEF Tasks, Body
  <2> QED
    BY <1>2, <2>1
<1>7. f = File(SubSeq(Content(call.id), 1, u.next - 1))
  <2>1. SubSeq(Content(call.id), 1, 0) = <<>>
    BY SubSeqEmpty
  <2>2. u.next - 1 = 0
    BY <1>2
  <2> QED
    BY <1>3, <2>1, <2>2
<1> QED
  BY <1>1, <1>2, <1>4, <1>5, <1>6, <1>7, WritesKeeps

LEMMA CopyKeeps ==
  ASSUME FilesKept, NEW t \in tasks, Copy(t)
  PROVE  FilesKept'
<1> USE DEF FilesKept
<1>1. /\ t \in Tasks /\ t.at = "copy" /\ t.op \in Writes /\ t.body = Content(t.id) /\ t.path \in Path
      /\ t.next \in Nat \ {0} /\ t.next <= Len(t.body) /\ t.body \in Seq(Chunk)
  BY DEF FileTypes, TaskInv, Copy, Tasks, Body
<1>2. PICK n \in Nat : t.next = n + 1
  <2>1. t.next - 1 \in Nat /\ t.next = (t.next - 1) + 1
    BY <1>1
  <2> QED
    BY <2>1
<1>3. Len(t.body) \in Nat /\ n < Len(t.body) /\ t.next \in 1..Len(t.body) /\ t.body[t.next] \in Chunk
  <2>1. Len(t.body) \in Nat /\ \A i \in 1..Len(t.body) : t.body[i] \in Chunk
    BY <1>1, Placed
  <2>2. t.next \in 1..Len(t.body)
    BY <1>1, <2>1
  <2> QED
    BY <1>1, <1>2, <2>1, <2>2
<1>4. PICK u \in Tasks : /\ u = [t EXCEPT !.next = @ + 1] /\ u.next = t.next + 1
                         /\ u.id = t.id /\ u.op = t.op /\ u.path = t.path /\ u.body = t.body /\ u.at = "copy"
  <2>1. t.next + 1 \in Nat \ {0}
    BY <1>1
  <2>2. PICK k \in Nat \ {0} : k = t.next + 1
    BY <2>1
  <2>3. [t EXCEPT !.next = @ + 1] = [t EXCEPT !.next = k]
    BY <2>2
  <2>4. \E u \in Tasks : /\ u = [t EXCEPT !.next = k] /\ u.at = t.at /\ u.next = k
                         /\ u.id = t.id /\ u.op = t.op /\ u.path = t.path /\ u.body = t.body
    BY <1>1, TaskMoves
  <2> QED
    BY <1>1, <2>2, <2>3, <2>4
<1>5. disk[t.path] \in Entries
  BY <1>1 DEF FileTypes
<1>6. PICK f \in Entries : f = Put(disk[t.path], t.next, t.body[t.next])
  BY <1>1, <1>3, <1>5, PutTyped
<1>7. /\ tasks' = (tasks \ {t}) \union {u} /\ disk' = [disk EXCEPT ![t.path] = f]
      /\ UNCHANGED <<made, call, late, known, seen, lineVars>>
  BY <1>4, <1>6 DEF Copy, Become
<1>8. ~known[t.path].sure
  BY <1>1 DEF SureInv
<1>9. u.next <= Len(u.body) + 1
  BY <1>1, <1>3, <1>4
<1>10. ASSUME Waiting, call.clean, call.op \in Writes \union {"folder"}, t.path = call.path
       PROVE  f = File(SubSeq(Content(call.id), 1, u.next - 1))
  <2>1. t.id = call.id /\ disk[t.path] = File(SubSeq(Content(call.id), 1, t.next - 1))
    BY <1>1, <1>10 DEF CleanInv
  <2>2. t.next - 1 = n /\ u.next - 1 = n + 1
    BY <1>2, <1>4
  <2>3. disk[t.path] = File(SubSeq(t.body, 1, n))
    BY <1>1, <2>1, <2>2
  <2>4. Put(disk[t.path], n + 1, t.body[n + 1]) = File(SubSeq(t.body, 1, n + 1))
    BY <1>1, <1>3, <2>3, PutNext
  <2> QED
    BY <1>1, <1>2, <1>6, <2>1, <2>2, <2>4
<1> QED
  BY <1>1, <1>4, <1>7, <1>8, <1>9, <1>10, WritesKeeps


\* What an aborted task left behind happens.
LEMMA LateKeeps ==
  ASSUME FilesKept, LateCall
  PROVE  FilesKept'
<1> USE DEF FilesKept
<1>1. PICK e \in late : Happens(e) /\ late' = late \ {e}
  BY DEF LateCall
<1>2. UNCHANGED <<made, call, tasks, known, seen, lineVars>>
  BY DEF LateCall
<1>3. e \in Lates /\ e.path \in Path /\ disk[e.path] \in Entries
  BY DEF FileTypes, Lates
<1>4. PICK f : f = CASE e.op = "folder" -> Folded(disk[e.path])
                     [] e.op \in Writes -> IF Refuses(e.op, disk[e.path]) THEN disk[e.path] ELSE File(<<>>)
                     [] OTHER -> IF disk[e.path].kind = "file" THEN Put(disk[e.path], e.at, e.piece) ELSE disk[e.path]
  OBVIOUS
<1>5. f \in Entries
  <2>1. File(<<>>) \in Entries /\ Folded(disk[e.path]) \in Entries
    BY <1>3, NothingIsTyped DEF File, Folded, Entries
  <2>0. e.op \in Writes \union {"folder", "piece"}
    BY <1>3 DEF Lates
  <2>2. e.op = "piece" => e.at \in Nat \ {0} /\ e.piece \in Chunk
    BY <1>3 DEF Lates, Writes
  <2>3. e.op = "piece" => Put(disk[e.path], e.at, e.piece) \in Entries
    BY <1>3, <2>2, PutTyped
  <2> QED
    BY <1>3, <1>4, <2>0, <2>1, <2>3
<1>6. disk' = [disk EXCEPT ![e.path] = f]
  BY <1>1, <1>4 DEF Happens
<1>7. disk'[e.path] = f /\ \A p \in Path : p # e.path => disk'[p] = disk[p]
  BY <1>3, <1>6 DEF FileTypes
<1>8. known[e.path].sure => disk'[e.path] = disk[e.path]
  <2>1. ASSUME known[e.path].sure PROVE e.op = "create" /\ disk[e.path] # Absent
    <3>1. Harmless(e.op, e.path) /\ disk[e.path] = known[e.path].file
      BY <1>3, <2>1 DEF SureInv
    <3>2. e.op \in Writes \union {"folder", "piece"}
      BY <1>3 DEF Lates
    <3> QED
      BY <3>1, <3>2 DEF Harmless, Writes
  <2> QED
    BY <1>4, <1>7, <2>1 DEF Refuses, Writes
<1>9. /\ LineTypes' /\ OnceInv' /\ Lessens("up") /\ Lessens("down")
      /\ Under("up")' = Under("up") /\ Under("down")' = Under("down")
  BY <1>2, BothLess
<1>10. FileTypes'
  BY <1>1, <1>2, <1>5, <1>6 DEF FileTypes
<1>11. WayInv' /\ PlaceInv' /\ TaskInv'
  BY <1>2, <1>9, FewerPlaces
<1>12. Waiting' <=> Waiting
  BY <1>2 DEF Waiting
<1>13. CallInv' /\ SeenInv'
  BY <1>2, <1>9, <1>12 DEF CallInv, SeenInv
<1>14. SureInv'
  BY <1>1, <1>2, <1>7, <1>8, <1>9 DEF SureInv, Harmless
<1>15. CleanInv'
  <2> SUFFICES ASSUME Waiting, call.clean, call.op \in Writes \union {"folder"}
               PROVE  /\ disk'[call.path] = disk[call.path]
                      /\ \A d \in late' : d.path # call.path
    BY <1>2, <1>9, <1>12 DEF CleanInv
  <2>1. call.path \in Path /\ e.path # call.path
    BY DEF FileTypes, Waiting, NoCall, Calls, CleanInv
  <2> QED
    BY <1>1, <1>7, <2>1 DEF CleanInv
<1>16. UpInv'
  BY <1>9, LessUp
<1>17. ReadInv'
  BY <1>2, <1>9, <1>12, LessDown
<1>18. RestInv'
  BY <1>9 DEF RestInv, Direction, Lessens
<1> QED
  BY <1>9, <1>10, <1>11, <1>13, <1>14, <1>15, <1>16, <1>17, <1>18

\* An answer is queued.
LEMMA DownQueued ==
  ASSUME LineTypes, ReadInv, ApartInv("down"), WriterInv("down"),
         NEW r \in Messages, NEW src \in Sources, Queues("down", r, src), call' = call, known' = known,
         Waiting /\ call.op = "read" /\ known[call.path].sure /\ r.call = call.id =>
           IF r.status = "ok" THEN /\ r.attached /\ known[call.path].file # Absent
                                   /\ src = [kind |-> "file", path |-> call.path]
           ELSE (r.status = "failed" \/ known[call.path].file = Absent) /\ src = NoSource
  PROVE  ReadInv'
<1> SUFFICES ASSUME Waiting, call.op = "read", known[call.path].sure
             PROVE  LET f == known[call.path].file IN
                    /\ \A m \in Under("down")' : m.call = call.id =>
                         IF m.status = "ok" THEN m.attached /\ f # Absent ELSE m.status = "failed" \/ f = Absent
                    /\ \A i \in 1..Len(queue'["down"]) :
                         queue'["down"][i].msg.call = call.id /\ queue'["down"][i].source # NoSource =>
                           /\ queue'["down"][i].msg.status = "ok"
                           /\ queue'["down"][i].source = [kind |-> "file", path |-> call.path]
                    /\ staging'["down"] # <<>> /\ Head(queue'["down"]).msg.call = call.id =>
                         Len(staging'["down"]) <= Len(f.body)
                           /\ staging'["down"] = SubSeq(f.body, 1, Len(staging'["down"]))
                    /\ \A m \in Messages, b \in Body : Carries("down", m, b)' /\ m.call = call.id => f = File(b)
  BY DEF ReadInv, Waiting
<1> DEFINE x == [msg |-> r, source |-> src]
<1>1. x \in Items /\ x.msg = r /\ x.source = src
  BY DEF Items
<1>2. queue["down"] \in Seq(Items)
  BY LineParts DEF Direction
<1>3. /\ 1..Len(queue'["down"]) = 1..Len(queue["down"]) \union {Len(queue["down"]) + 1}
      /\ \A i \in 1..Len(queue["down"]) : queue'["down"][i] = queue["down"][i]
      /\ queue'["down"][Len(queue["down"]) + 1] = x
      /\ queue["down"] # <<>> => Head(queue'["down"]) = Head(queue["down"])
  <2>1. queue'["down"] = Append(queue["down"], x)
    BY DEF Queues
  <2> HIDE DEF x
  <2> QED
    BY <1>1, <1>2, <2>1, Appended
<1>4. /\ Under("down")' = Under("down") \union {r} /\ CarriesNoMore("down")
      /\ staging'["down"] = staging["down"]
      /\ staging["down"] # <<>> => queue["down"] # <<>>
  BY QueuesLine DEF Direction, Queues, WriterInv
<1> HIDE DEF x
<1>5. PICK f : f = known[call.path].file
  OBVIOUS
<1>6. \A m \in Under("down")' : m.call = call.id => IF m.status = "ok" THEN m.attached /\ f # Absent ELSE m.status = "failed" \/ f = Absent
  BY <1>4, <1>5 DEF ReadInv
<1>7. \A i \in 1..Len(queue'["down"]) :
        queue'["down"][i].msg.call = call.id /\ queue'["down"][i].source # NoSource =>
          /\ queue'["down"][i].msg.status = "ok"
          /\ queue'["down"][i].source = [kind |-> "file", path |-> call.path]
  <2> TAKE i \in 1..Len(queue'["down"])
  <2>1. CASE i \in 1..Len(queue["down"])
    BY <1>3, <2>1 DEF ReadInv
  <2>2. CASE i = Len(queue["down"]) + 1
    BY <1>1, <1>3, <2>2
  <2> QED
    BY <1>3, <2>1, <2>2
<1>8. staging'["down"] # <<>> /\ Head(queue'["down"]).msg.call = call.id =>
        Len(staging'["down"]) <= Len(f.body) /\ staging'["down"] = SubSeq(f.body, 1, Len(staging'["down"]))
  BY <1>3, <1>4, <1>5 DEF ReadInv
<1>9. \A m \in Messages, b \in Body : Carries("down", m, b)' /\ m.call = call.id => f = File(b)
  BY <1>4, <1>5 DEF ReadInv, CarriesNoMore
<1> QED
  BY <1>5, <1>6, <1>7, <1>8, <1>9

LEMMA DownSides ==
  ASSUME LineTypes, NEW r, NEW src, queue' = Queued("down", r, src), writing["down"],
         UNCHANGED <<staging, staged, writing, linked>>,
         wire'["down"] = wire["down"], received'["down"] = received["down"]
  PROVE  Queues("down", r, src) /\ queue'["up"] = queue["up"]
<1>1. queue'["down"] = Append(queue["down"], [msg |-> r, source |-> src]) /\ queue'["up"] = queue["up"]
  BY DEF Queued, LineTypes, Direction
<1> QED
  BY <1>1 DEF Queues

\* A task ends with an answer, which is right of its file, and may have made a folder.
LEMMA RespondKeeps ==
  ASSUME FilesKept, NEW t \in tasks, NEW status \in {"ok", "error", "failed", "search"}, NEW src \in Sources,
         Respond(t, status, src), UNCHANGED <<made, call, late, known, seen>>,
         disk' \in [Path -> Entries], \A p \in Path : p # t.path => disk'[p] = disk[p],
         known[t.path].sure => disk'[t.path] = disk[t.path],
         Waiting /\ call.clean /\ call.op \in Writes \union {"folder"} /\ t.id = call.id /\ status = "ok" =>
           disk'[call.path] = IF call.op = "folder" THEN Dir ELSE File(Content(call.id)),
         Waiting /\ call.op = "read" /\ known[call.path].sure /\ t.id = call.id =>
           IF status = "ok" THEN /\ known[call.path].file # Absent
                                 /\ src = [kind |-> "file", path |-> call.path]
           ELSE (status = "failed" \/ known[call.path].file = Absent) /\ src = NoSource
  PROVE  FilesKept'
<1> USE DEF FilesKept
<1>0. /\ "up" \in Direction /\ "down" \in Direction
      /\ ApartInv("up") /\ WriterInv("up") /\ ApartInv("down") /\ WriterInv("down")
  BY DEF Direction, RestInv
<1>1. t \in Tasks /\ t.path \in Path /\ t.id \in 1..MaxCalls
  BY DEF FileTypes, Tasks
<1>2. tasks' = tasks \ {t} /\ UNCHANGED <<staging, staged, wire, received, writing, reading, linked>>
  BY DEF Respond
<1>3. PICK r : r = Response(t.id, status, src # NoSource)
  OBVIOUS
<1>4. r \in Messages /\ r.kind = "response" /\ r.call = t.id /\ r.status = status /\ (r.attached <=> src # NoSource)
  <2>0. t.id \in 0..MaxCalls
    BY <1>1, CallNumbers
  <2>1. CASE src # NoSource
    <3>1. (src # NoSource) = TRUE
      BY <2>1
    <3>2. r = Response(t.id, status, TRUE)
      BY <1>3, <3>1, Zenon
    <3>3. r \in Messages /\ r.kind = "response" /\ r.call = t.id /\ r.status = status /\ r.attached = TRUE
      <4>1. r = [kind |-> "response", call |-> t.id, status |-> status, attached |-> TRUE, body |-> <<>>]
        BY <3>2 DEF Response
      <4>2. r \in Responses
        BY <2>0, <4>1 DEF Responses
      <4> QED
        BY <4>1, <4>2 DEF Messages
    <3> QED
      BY <2>1, <3>3
  <2>2. CASE src = NoSource
    <3>1. (src # NoSource) = FALSE
      BY <2>2
    <3>2. r = Response(t.id, status, FALSE)
      BY <1>3, <3>1, Zenon
    <3>3. r \in Messages /\ r.kind = "response" /\ r.call = t.id /\ r.status = status /\ r.attached = FALSE
      <4>1. r = [kind |-> "response", call |-> t.id, status |-> status, attached |-> FALSE, body |-> <<>>]
        BY <3>2 DEF Response
      <4>2. r \in Responses
        BY <2>0, <4>1 DEF Responses
      <4> QED
        BY <4>1, <4>2 DEF Messages
    <3> QED
      BY <2>2, <3>3
  <2> QED
    BY <2>1, <2>2
<1>5. Waiting' <=> Waiting
  BY DEF Waiting
<1>6. /\ LineTypes' /\ OnceInv' /\ Lessens("up") /\ Under("up")' = Under("up")
      /\ ApartInv("down")' /\ WriterInv("down")' /\ Under("down")' \subseteq Under("down") \union {r}
      /\ ReadInv'
  <2>1. CASE writing["down"]
    <3>1. queue' = Queued("down", r, src)
      BY <1>3, <2>1 DEF Respond
    <3>2. Queues("down", r, src) /\ queue'["up"] = queue["up"]
      BY <1>2, <2>1, <3>1, DownSides
    <3>3. Still("up")
      BY <1>2, <3>2 DEF Still
    <3>4. LineTypes'
      BY <1>0, <1>2, <1>4, <3>1, QueuedTypes
    <3>5. Lessens("up") /\ Under("up")' = Under("up") /\ OnceInv'
      BY <1>0, <3>3, StillLessens, StillLine, OnceStill
    <3>6. ApartInv("down")' /\ WriterInv("down")' /\ Under("down")' = Under("down") \union {r}
      BY <1>0, <1>4, <3>2, QueuesLine
    <3>7. ReadInv'
      <4>1. Waiting /\ call.op = "read" /\ known[call.path].sure /\ r.call = call.id =>
              IF r.status = "ok" THEN /\ r.attached /\ known[call.path].file # Absent
                                      /\ src = [kind |-> "file", path |-> call.path]
              ELSE (r.status = "failed" \/ known[call.path].file = Absent) /\ src = NoSource
        BY <1>4 DEF NoSource
      <4> QED
        BY <1>0, <1>4, <3>2, <4>1, DownQueued
    <3> QED
      BY <3>4, <3>5, <3>6, <3>7
  <2>2. CASE ~writing["down"]
    <3>1. UNCHANGED lineVars
      BY <1>2, <2>2 DEF Respond, lineVars
    <3>2. /\ LineTypes' /\ OnceInv' /\ Lessens("up") /\ Lessens("down")
          /\ Under("up")' = Under("up") /\ Under("down")' = Under("down")
      BY <3>1, BothLess
    <3>3. ReadInv'
      BY <1>5, <3>2, LessDown
    <3> QED
      BY <3>2, <3>3 DEF Lessens
  <2> QED
    BY <2>1, <2>2
<1>7. FileTypes'
  BY <1>2 DEF FileTypes
<1>8. WayInv'
  BY <1>2, <1>4, <1>6 DEF WayInv
<1>9. Doing(t.id) /\ ~Asked(t.id) /\ ~Replied(t.id)
  BY <1>1 DEF Doing, PlaceInv
<1>10. PlaceInv'
  <2>1. \A n : Asked(n)' <=> Asked(n)
    BY <1>6 DEF Asked
  <2>2. \A n : Doing(n)' => Doing(n) /\ n # t.id
    BY <1>2 DEF Doing, PlaceInv
  <2>3. \A n : Replied(n)' => Replied(n) \/ n = t.id
    BY <1>4, <1>6 DEF Replied
  <2> QED
    BY <1>2, <1>9, <2>1, <2>2, <2>3 DEF PlaceInv
<1>11. CallInv' /\ SeenInv' /\ TaskInv'
  BY <1>2, <1>5, <1>6 DEF CallInv, SeenInv, TaskInv
<1>12. SureInv'
  <2> SUFFICES ASSUME NEW p \in Path, known[p].sure
               PROVE  /\ disk'[p] = known[p].file
                      /\ \A m \in Under("up")' : IsRequest(m) /\ m.path = p => Harmless(m.op, p)
                      /\ \A v \in tasks' : v.path = p => Harmless(v.op, p) /\ v.at = "open"
                      /\ \A e \in late : e.path = p => Harmless(e.op, p)
    BY DEF SureInv, Harmless
  <2>1. disk'[p] = disk[p]
    OBVIOUS
  <2> QED
    BY <1>2, <1>6, <2>1 DEF SureInv
<1>13. CleanInv'
  <2> SUFFICES ASSUME Waiting, call.clean, call.op \in Writes \union {"folder"}
               PROVE  /\ \A m \in Under("up")' : IsRequest(m) /\ m.path = call.path => m.call = call.id
                      /\ \A v \in tasks' : v.path = call.path =>
                           /\ v.id = call.id
                           /\ v.at = "copy" => disk'[call.path] = File(SubSeq(Content(call.id), 1, v.next - 1))
                      /\ \A e \in late : e.path # call.path
                      /\ \A m \in Under("down")' : m.call = call.id /\ m.status = "ok" =>
                           disk'[call.path] = IF call.op = "folder" THEN Dir ELSE File(Content(call.id))
    BY <1>5 DEF CleanInv
  <2>1. call.path \in Path /\ call.id \in 1..MaxCalls
    BY DEF FileTypes, Waiting, NoCall, Calls
  <2>2. CASE t.path = call.path
    <3>1. t.id = call.id
      BY <2>2 DEF CleanInv
    <3>2. \A v \in tasks' : v.path # call.path
      BY <1>2, <3>1 DEF CleanInv, PlaceInv
    <3>3. \A m \in Under("down") : m.call # call.id
      BY <1>9, <3>1 DEF Replied
    <3> QED
      BY <1>4, <1>6, <3>1, <3>2, <3>3 DEF CleanInv
  <2>3. CASE t.path # call.path
    <3>1. disk'[call.path] = disk[call.path]
      BY <2>1, <2>3
    <3>2. t.id # call.id
      BY <2>3 DEF CallInv
    <3> QED
      BY <1>2, <1>4, <1>6, <3>1, <3>2 DEF CleanInv
  <2> QED
    BY <2>2, <2>3
<1>14. UpInv'
  BY <1>6, LessUp
<1>15. RestInv'
  BY <1>6 DEF RestInv, Direction, Lessens
<1> QED
  BY <1>6, <1>7, <1>8, <1>10, <1>11, <1>12, <1>13, <1>14, <1>15


LEMMA OpenKeeps ==
  ASSUME FilesKept, NEW t \in tasks, Open(t)
  PROVE  FilesKept'
<1> USE DEF FilesKept
<1>1. CASE ~Refuses(t.op, disk[t.path])
  BY <1>1, OpensKeeps
<1>2. CASE Refuses(t.op, disk[t.path])
  <2>1. Respond(t, "error", NoSource) /\ UNCHANGED <<disk, made, call, late, known, seen>> /\ t.op \in Writes
    BY <1>2 DEF Open
  <2>2. disk \in [Path -> Entries] /\ NoSource \in Sources
    BY DEF FileTypes, Sources
  <2>3. Waiting /\ t.id = call.id => call.op # "read"
    BY <2>1 DEF CallInv, Writes
  <2> QED
    BY <2>1, <2>2, <2>3, RespondKeeps
<1> QED
  BY <1>1, <1>2

LEMMA CopiedKeeps ==
  ASSUME FilesKept, NEW t \in tasks, Copied(t)
  PROVE  FilesKept'
<1> USE DEF FilesKept
<1>1. Respond(t, "ok", NoSource) /\ UNCHANGED <<disk, made, call, late, known, seen>> /\ t.at = "copy" /\ t.next > Len(t.body)
  BY DEF Copied
<1>2. disk \in [Path -> Entries] /\ NoSource \in Sources /\ t \in Tasks /\ t.path \in Path
  BY DEF FileTypes, Sources, Tasks
<1>3. t.op \in Writes /\ t.body = Content(t.id) /\ t.body \in Seq(Chunk) /\ t.next = Len(t.body) + 1 /\ Len(t.body) \in Nat
  <2>1. t.body \in Seq(Chunk) /\ t.next \in Nat /\ t.next <= Len(t.body) + 1 /\ t.op \in Writes /\ t.body = Content(t.id)
    BY <1>1, <1>2 DEF TaskInv, Tasks, Body
  <2>2. Len(t.body) \in Nat
    BY <2>1, Placed
  <2> QED
    BY <1>1, <2>1, <2>2
<1>4. Waiting /\ t.id = call.id => call.op \in Writes /\ call.path = t.path
  BY <1>3 DEF CallInv
<1>5. ASSUME Waiting, call.clean, t.id = call.id PROVE disk[call.path] = File(Content(call.id))
  <2>1. disk[call.path] = File(SubSeq(Content(call.id), 1, t.next - 1))
    BY <1>1, <1>4, <1>5 DEF CleanInv
  <2>2. t.next - 1 = Len(t.body)
    BY <1>3
  <2>3. SubSeq(t.body, 1, Len(t.body)) = t.body
    BY <1>3, Front
  <2> QED
    BY <1>3, <1>5, <2>1, <2>2, <2>3
<1>6. \A op \in Writes : op # "read" /\ op # "folder"
  BY DEF Writes
<1> QED
  BY <1>1, <1>2, <1>4, <1>5, <1>6, RespondKeeps

LEMMA OpFailsKeeps ==
  ASSUME FilesKept, NEW t \in tasks, OpFails(t)
  PROVE  FilesKept'
<1> USE DEF FilesKept
<1>1. Respond(t, "failed", NoSource) /\ UNCHANGED <<disk, made, call, late, known, seen>>
  BY DEF OpFails
<1>2. disk \in [Path -> Entries] /\ NoSource \in Sources
  BY DEF FileTypes, Sources
<1> QED
  BY <1>1, <1>2, RespondKeeps

LEMMA ReadKeeps ==
  ASSUME FilesKept, NEW t \in tasks, Read(t)
  PROVE  FilesKept'
<1> USE DEF FilesKept
<1>1. UNCHANGED <<disk, made, call, late, known, seen>> /\ t.op = "read"
  BY DEF Read
<1>2. disk \in [Path -> Entries] /\ NoSource \in Sources /\ t \in Tasks /\ t.path \in Path
  BY DEF FileTypes, Sources, Tasks
<1>3. Waiting /\ t.id = call.id => call.op = "read" /\ call.path = t.path /\ call.op \notin Writes \union {"folder"}
  BY <1>1 DEF CallInv, Writes
<1>4. Waiting /\ t.id = call.id /\ known[call.path].sure => known[call.path].file = disk[t.path]
  BY <1>2, <1>3 DEF SureInv
<1>5. CASE disk[t.path] = Absent
  <2>1. Respond(t, "error", NoSource)
    BY <1>5 DEF Read
  <2> QED
    BY <1>1, <1>2, <1>3, <1>4, <1>5, <2>1, RespondKeeps
<1>6. CASE disk[t.path] # Absent
  <2>1. Respond(t, "ok", [kind |-> "file", path |-> t.path])
    BY <1>6 DEF Read
  <2>2. [kind |-> "file", path |-> t.path] \in Sources
    BY <1>2 DEF Sources
  <2> QED
    BY <1>1, <1>2, <1>3, <1>4, <1>6, <2>1, <2>2, RespondKeeps
<1> QED
  BY <1>5, <1>6

LEMMA FolderKeeps ==
  ASSUME FilesKept, NEW t \in tasks, MakeFolder(t)
  PROVE  FilesKept'
<1> USE DEF FilesKept
<1>1. /\ t.op = "folder" /\ UNCHANGED <<made, call, late, known, seen>>
      /\ Respond(t, IF disk[t.path].kind = "file" THEN "error" ELSE "ok", NoSource)
      /\ disk' = [disk EXCEPT ![t.path] = IF @ = Absent THEN Dir ELSE @]
  BY DEF MakeFolder, Folded
<1>2. disk \in [Path -> Entries] /\ NoSource \in Sources /\ t \in Tasks /\ t.path \in Path /\ Dir \in Entries
  BY DEF FileTypes, Sources, Tasks, Entries
<1>3. /\ disk' \in [Path -> Entries] /\ \A p \in Path : p # t.path => disk'[p] = disk[p]
      /\ disk'[t.path] = IF disk[t.path] = Absent THEN Dir ELSE disk[t.path]
  BY <1>1, <1>2
<1>4. ~known[t.path].sure
  BY <1>1, <1>2 DEF SureInv, Harmless
<1>5. Waiting /\ t.id = call.id => call.op = "folder" /\ call.path = t.path
  BY <1>1 DEF CallInv
<1>6. disk[t.path].kind # "file" => disk'[t.path] = Dir
  BY <1>2, <1>3, EntryBodies
<1>7. PICK status \in {"ok", "error", "failed", "search"} :
        /\ status = IF disk[t.path].kind = "file" THEN "error" ELSE "ok"
        /\ Respond(t, status, NoSource)
  BY <1>1
<1>8. status = "ok" => disk'[t.path] = Dir
  BY <1>6, <1>7
<1> QED
  BY <1>1, <1>2, <1>3, <1>4, <1>5, <1>7, <1>8, RespondKeeps

LEMMA SearchKeeps ==
  ASSUME FilesKept, NEW t \in tasks, OpenSearch(t)
  PROVE  FilesKept'
<1> USE DEF FilesKept
<1>1. Respond(t, "search", NoSource) /\ UNCHANGED <<disk, made, call, late, known, seen>> /\ t.op = "search"
  BY DEF OpenSearch
<1>2. disk \in [Path -> Entries] /\ NoSource \in Sources
  BY DEF FileTypes, Sources
<1>3. Waiting /\ t.id = call.id => call.op # "read"
  BY <1>1 DEF CallInv
<1> QED
  BY <1>1, <1>2, <1>3, RespondKeeps

\* What an abort leaves behind of a task.
LEMMA LeftTyped ==
  ASSUME NEW t \in Tasks, t.at = "copy" => t.op \in Writes, NEW e \in InFlight(t)
  PROVE  e \in Lates /\ e.path = t.path /\ (t.at = "open" => e.op = t.op)
<1>1. t.op \in Writes \union {"folder"}
  BY DEF InFlight
<1>2. CASE t.at = "open"
  <2>1. e = [op |-> t.op, path |-> t.path] /\ t.path \in Path
    BY <1>1, <1>2 DEF InFlight, Opening, Tasks
  <2> QED
    BY <1>1, <2>1 DEF Lates
<1>3. CASE t.at # "open"
  <2>1. e = Piece(t) /\ t.next <= Len(t.body)
    BY <1>1, <1>3 DEF InFlight
  <2>2. t.body \in Seq(Chunk) /\ t.next \in Nat \ {0} /\ t.path \in Path
    BY DEF Tasks, Body
  <2>3. Len(t.body) \in Nat /\ \A i \in 1..Len(t.body) : t.body[i] \in Chunk
    BY <2>2, Placed
  <2>4. t.next \in 1..Len(t.body)
    BY <2>1, <2>2, <2>3
  <2>5. PICK x \in Chunk : x = t.body[t.next]
    BY <2>3, <2>4
  <2>6. e = [op |-> "piece", path |-> t.path, at |-> t.next, piece |-> x]
    BY <2>1, <2>5 DEF Piece
  <2> QED
    BY <1>1, <1>3, <2>2, <2>6 DEF Lates
<1> QED
  BY <1>2, <1>3

LEMMA CancelKeeps ==
  ASSUME FilesKept, CancelTask
  PROVE  FilesKept'
<1> USE DEF FilesKept
<1>0. /\ "up" \in Direction /\ "down" \in Direction
      /\ ApartInv("up") /\ WriterInv("up") /\ ApartInv("down") /\ WriterInv("down")
  BY DEF Direction, RestInv
<1>1. /\ Delivered("up") /\ Message("up").kind = "cancel" /\ writing["down"]
      /\ queue' = Queued("down", Response(0, "ok", FALSE), NoSource)
      /\ UNCHANGED <<disk, made, call, known, seen, staging, staged, writing, reading, linked>>
  BY DEF CancelTask
<1>2. PICK c : c = Message("up").call
  OBVIOUS
<1>3. tasks' = {t \in tasks : t.id # c}
  BY <1>2 DEF CancelTask
<1>4. PICK behind : behind \in SUBSET UNION {InFlight(t) : t \in {u \in tasks : u.id = c}} /\ late' = late \union behind
  BY <1>2 DEF CancelTask
<1>5. /\ wire["up"] # <<>> /\ Head(wire["up"]).kind = "json" /\ Claims(Head(wire["up"]).msg, received["up"])
      /\ queue'["up"] = queue["up"] => Delivers("up")
      /\ wire'["down"] = wire["down"] /\ received'["down"] = received["down"]
  BY <1>0, <1>1, DeliveredSides
<1>6. PICK r \in Messages : r = Response(0, "ok", FALSE) /\ r.kind = "response" /\ r.call = 0 /\ r.status = "ok"
  <2>1. 0 \in 0..MaxCalls
    BY FilesAssumption
  <2>2. Response(0, "ok", FALSE) \in Responses
    BY <2>1 DEF Response, Responses
  <2> QED
    BY <2>2 DEF Response, Messages
<1>7. Queues("down", r, NoSource) /\ Delivers("up")
  BY <1>1, <1>5, <1>6, DownSides
<1>8. NoSource \in Sources
  BY DEF Sources
<1>9. LineTypes'
  <2>1. [msg |-> r, source |-> NoSource] \in Items
    BY <1>8 DEF Items
  <2>2. PICK x \in Items : queue' = [queue EXCEPT !["down"] = Append(@, x)]
    BY <1>1, <1>6, <2>1 DEF Queued
  <2>3. Append(queue["down"], x) \in Seq(Items)
    BY <1>0, LineParts, Appended
  <2>4. queue' \in [Direction -> Seq(Items)]
    BY <2>2, <2>3 DEF LineTypes
  <2> QED
    BY <1>0, <1>1, <2>4, DeliveredTypes
<1>10. /\ Lessens("up") /\ Under("up")' \subseteq Under("up") /\ OnceInv'
       /\ ApartInv("down")' /\ WriterInv("down")' /\ Under("down")' = Under("down") \union {r}
  <2>1. OnceInv'
    BY <1>7, OnceFewer DEF Delivers
  <2> QED
    BY <1>0, <1>7, <1>8, <2>1, DeliversLessens, QueuesLine DEF Lessens
<1>11. \A e \in behind : \E t \in tasks : /\ t.id = c /\ e \in Lates /\ e.path = t.path
                                          /\ (t.at = "open" => e.op = t.op)
  <2> TAKE e \in behind
  <2>1. PICK t \in tasks : t.id = c /\ e \in InFlight(t)
    BY <1>4
  <2>2. t \in Tasks /\ (t.at = "copy" => t.op \in Writes)
    BY DEF FileTypes, TaskInv
  <2> QED
    BY <2>1, <2>2, LeftTyped
<1>12. Waiting' <=> Waiting
  BY <1>1 DEF Waiting
<1>13. Waiting => c # call.id /\ call.id # 0
  <2> SUFFICES ASSUME Waiting PROVE c # call.id /\ call.id # 0
    OBVIOUS
  <2>1. PICK m \in Under("up") : m.kind = "cancel" /\ m.call = c
    BY <1>0, <1>1, <1>2, <1>5, MessageParts
  <2>2. ~IsRequest(m)
    BY <2>1 DEF IsRequest
  <2>3. call.id \in 1..MaxCalls
    BY DEF FileTypes, Waiting, NoCall, Calls
  <2> QED
    BY <2>1, <2>2, <2>3, FilesAssumption DEF CallInv
<1>14. FileTypes'
  BY <1>1, <1>3, <1>4, <1>11 DEF FileTypes
<1>15. WayInv'
  <2>1. 0 <= made
    BY FilesAssumption DEF FileTypes
  <2> QED
    BY <1>1, <1>3, <1>6, <1>10, <2>1 DEF WayInv
<1>16. PlaceInv'
  <2>1. \A n : (Asked(n)' => Asked(n)) /\ (Doing(n)' => Doing(n))
    BY <1>3, <1>10 DEF Asked, Doing
  <2>2. \A n \in 1..MaxCalls : Replied(n)' => Replied(n)
    <3>1. 0 \notin 1..MaxCalls
      BY FilesAssumption
    <3> QED
      BY <1>6, <1>10, <3>1 DEF Replied
  <2> QED
    BY <1>3, <2>1, <2>2 DEF PlaceInv
<1>17. CallInv' /\ SeenInv' /\ TaskInv'
  BY <1>1, <1>3, <1>10, <1>12 DEF CallInv, SeenInv, TaskInv
<1>18. SureInv'
  <2> SUFFICES ASSUME NEW p \in Path, known[p].sure
               PROVE  /\ disk[p] = known[p].file
                      /\ \A m \in Under("up")' : IsRequest(m) /\ m.path = p => Harmless(m.op, p)
                      /\ \A v \in tasks' : v.path = p => Harmless(v.op, p) /\ v.at = "open"
                      /\ \A e \in late' : e.path = p => Harmless(e.op, p)
    BY <1>1 DEF SureInv, Harmless
  <2>1. \A e \in behind : e.path = p => Harmless(e.op, p)
    BY <1>11 DEF SureInv
  <2> QED
    BY <1>3, <1>4, <1>10, <2>1 DEF SureInv
<1>19. CleanInv'
  <2> SUFFICES ASSUME Waiting, call.clean, call.op \in Writes \union {"folder"}
               PROVE  /\ \A m \in Under("up")' : IsRequest(m) /\ m.path = call.path => m.call = call.id
                      /\ \A v \in tasks' : v.path = call.path =>
                           /\ v.id = call.id
                           /\ v.at = "copy" => disk[call.path] = File(SubSeq(Content(call.id), 1, v.next - 1))
                      /\ \A e \in late' : e.path # call.path
                      /\ \A m \in Under("down")' : m.call = call.id /\ m.status = "ok" =>
                           disk[call.path] = IF call.op = "folder" THEN Dir ELSE File(Content(call.id))
    BY <1>1, <1>12 DEF CleanInv
  <2>1. \A e \in behind : e.path # call.path
    BY <1>11, <1>13 DEF CleanInv
  <2> QED
    BY <1>3, <1>4, <1>6, <1>10, <1>13, <2>1 DEF CleanInv
<1>20. UpInv'
  BY <1>10, LessUp
<1>21. ReadInv'
  BY <1>0, <1>1, <1>6, <1>7, <1>8, <1>13, DownQueued
<1>22. RestInv'
  BY <1>10 DEF RestInv, Direction, Lessens
<1> QED
  BY <1>9, <1>10, <1>14, <1>15, <1>16, <1>17, <1>18, <1>19, <1>20, <1>21, <1>22

-----------------------------------------------------------------------------

LEMMA FilesInit == Init => FilesKept
<1> SUFFICES ASSUME Init PROVE FilesKept
  OBVIOUS
<1>1. \A d \in Direction : /\ queue[d] = <<>> /\ staging[d] = <<>> /\ wire[d] = <<>> /\ received[d] = <<>>
                           /\ staged[d] = FALSE /\ linked
  BY DEF Init, FramingInit
<1>2. LineTypes
  BY NothingIsTyped DEF Init, FramingInit, LineTypes
<1>3. "up" \in Direction /\ "down" \in Direction
  BY DEF Direction
<1>4. \A d \in Direction : /\ Len(queue[d]) = 0 /\ Len(wire[d]) = 0 /\ Len(received[d]) = 0
  BY <1>1, EmptySeq
<1>5. \A d \in Direction : Waits(d) = {} /\ Flies(d) = {} /\ Under(d) = {}
  BY <1>4 DEF Waits, Flies, Under
<1>6. \A d \in Direction : ApartInv(d) /\ WriterInv(d)
  BY <1>1, <1>4 DEF ApartInv, WriterInv, Trailing
<1>7. /\ made = 0 /\ call = NoCall /\ tasks = {} /\ late = {} /\ seen = NotSeen /\ ~Waiting
      /\ disk = [p \in Path |-> IF p \in Folder THEN Dir ELSE Absent]
      /\ known = [p \in Path |-> Believed(disk[p])]
  BY DEF Init, Waiting, NoCall
<1>8. \A p \in Path : disk[p] \in Entries /\ known[p] = [sure |-> TRUE, file |-> disk[p]]
  BY <1>7 DEF Entries, Believed
<1>9. FileTypes
  <2>1. 0 \in 0..MaxCalls
    BY FilesAssumption
  <2>2. disk \in [Path -> Entries]
    BY <1>7, <1>8
  <2>3. known \in [Path -> [sure : BOOLEAN, file : Entries]]
    <3>1. \A p \in Path : Believed(disk[p]) \in [sure : BOOLEAN, file : Entries]
      BY <2>2 DEF Believed
    <3> QED
      BY <1>7, <3>1
  <2> QED
    BY <1>7, <2>1, <2>2, <2>3 DEF FileTypes
<1>10. WayInv /\ CallInv /\ TaskInv /\ CleanInv /\ ReadInv /\ SeenInv
  BY <1>3, <1>5, <1>7 DEF WayInv, CallInv, TaskInv, CleanInv, ReadInv, SeenInv, NotSeen
<1>11. PlaceInv
  BY <1>3, <1>5, <1>7 DEF PlaceInv, Asked, Doing, Replied
<1>12. OnceInv
  BY <1>3, <1>4, <1>5 DEF OnceInv
<1>13. SureInv
  <2>1. \A p \in Path : known[p].file = disk[p]
    BY <1>7 DEF Believed
  <2> QED
    BY <1>3, <1>5, <1>7, <2>1 DEF SureInv
<1>14. UpInv
  <2>1. \A m \in Messages, b \in Body : ~Carries("up", m, b)
    BY <1>2, <1>3, <1>5, CarriedUnder
  <2>2. \A i \in 1..Len(queue["up"]) : FALSE
    BY <1>3, <1>4
  <2>3. staging["up"] = <<>> /\ Under("up") = {}
    BY <1>1, <1>3, <1>5
  <2> QED
    BY <2>1, <2>2, <2>3 DEF UpInv
<1> QED
  BY <1>2, <1>6, <1>9, <1>10, <1>11, <1>12, <1>13, <1>14 DEF FilesKept, RestInv

LEMMA FilesStep == FilesKept /\ [Next]_vars => FilesKept'
<1> SUFFICES ASSUME FilesKept, [Next]_vars PROVE FilesKept'
  OBVIOUS
<1>1. CASE \E op \in Ops, p \in Path : Make(op, p)
  BY <1>1, MakeKeeps
<1>2. CASE Drop
  BY <1>2, DropKeeps
<1>3. CASE DropSearch \/ Fails \/ SearchReturns
  BY <1>3, EndsKeeps DEF DropSearch, Fails, SearchReturns
<1>4. CASE FeedBreaks \/ SearchBreaks \/ Walk \/ Hear \/ Overtaken \/ UNCHANGED vars
  BY <1>4, EndsKeeps DEF FeedBreaks, SearchBreaks, Walk, Hear, Overtaken, fileVars, vars
<1>5. CASE Dies \/ ServeFails
  BY <1>5, DiesKeeps DEF Dies, ServeFails
<1>6. CASE Answered
  BY <1>6, AnsweredKeeps
<1>7. CASE Receive \/ CancelTask \/ LateCall
  BY <1>7, ReceiveKeeps, CancelKeeps, LateKeeps
<1>8. CASE \E t \in tasks :
              Open(t) \/ Copy(t) \/ Copied(t) \/ OpFails(t) \/ Read(t) \/ MakeFolder(t) \/ OpenSearch(t)
  BY <1>8, OpenKeeps, CopyKeeps, CopiedKeeps, OpFailsKeeps, ReadKeeps, FolderKeeps, SearchKeeps
<1>9. CASE \E d \in Direction : Line(d)
  BY <1>9, WriteKeeps, CarryKeeps DEF Line
<1> QED
  BY <1>1, <1>2, <1>3, <1>4, <1>5, <1>6, <1>7, <1>8, <1>9 DEF Next, HostStep, TaskStep

\* Once a write is answered that was made beside no remains of a cancelled one, the file
\* is what the answer says until the next write of its path, and a read answered in
\* between brings back just that (server.rs:283-308, frame.rs:55-72, content.rs:194).
THEOREM WritesAreReadBack == Spec => []ReadYourWrites
<1>1. FilesKept => ReadYourWrites
  BY DEF FilesKept, SureInv, SeenInv, ReadYourWrites
<1> QED
  BY <1>1, FilesInit, FilesStep, PTL DEF Spec
=============================================================================
