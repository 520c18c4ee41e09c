----------------------------- MODULE FileSearch -----------------------------
(***************************************************************************)
(* Find and grep on the worker (frances-worker search.rs, server.rs        *)
(* run_file_search; frances-harness io: WorkerFs::find_or_grep and its     *)
(* FileSearchCollector).  The walkers of a parallel walk share the tree,   *)
(* reserve a slot of the result for each file that matches, and put one    *)
(* event per match into a bounded feed.  The host counts the events until  *)
(* the terminal one.  Which files the walk visits and which lines match    *)
(* (globs, ignore files, binary detection) is the constant Matches.  What  *)
(* lies between the two ends of the feed is the module FeedTransport; of   *)
(* it stays here that items which reach the host before it has decoded the *)
(* answer that carries the feed are thrown away.                           *)
(***************************************************************************)
EXTENDS Naturals, Sequences, FiniteSets, Functions

CONSTANTS
  Walker,     \* threads of the walk
  Found,      \* files with a match
  Matches,    \* how many lines of each match
  Flaky,      \* files that may become unreadable in the middle
  ResultCap,  \* RESULT_CAP: files in a result
  FeedCap     \* events the feed holds

ASSUME SearchAssumption ==
  /\ Walker # {}
  /\ Matches \in [Found -> Nat \ {0}]
  /\ Flaky \subseteq Found
  /\ ResultCap \in Nat \ {0}
  /\ FeedCap \in Nat \ {0}

VARIABLES
  search,     \* "none", "walking", "ending", "failing" or "over"
  todo,       \* files no walker has taken
  walker,     \* what each walker is at
  reserved,   \* slots taken of the result
  truncated,  \* a file found no slot
  quit,       \* WalkState::Quit was returned
  feed,       \* events on their way
  closed,     \* the feed's receiver is gone
  entries,    \* FileSearchCollector::entries: matches counted per file
  result,     \* what the host's call returned
  lost        \* history: matches thrown away per file

searchVars == <<search, todo, walker, reserved, truncated, quit, feed, closed, entries, result, lost>>

Idle == [at |-> "idle"]
Visit(at, f, n) == [at |-> at, file |-> f, seen |-> n]
Match(f) == [kind |-> "match", file |-> f]
Done(t) == [kind |-> "done", truncated |-> t]
Error == [kind |-> "error"]
NoResult == [status |-> "none"]
Failed == [status |-> "error"]
Results(e, t) == [status |-> "results", entries |-> e, truncated |-> t]

SearchInit ==
  /\ search = "none"
  /\ todo = Found
  /\ walker = [w \in Walker |-> Idle]
  /\ reserved = 0
  /\ truncated = FALSE
  /\ quit = FALSE
  /\ feed = <<>>
  /\ closed = FALSE
  /\ entries = <<>>
  /\ result = NoResult
  /\ lost = [f \in Found |-> 0]

\* open_file_search.
Start ==
  /\ search = "none"
  /\ search' = "walking"
  /\ UNCHANGED <<todo, walker, reserved, truncated, quit, feed, closed, entries, result, lost>>
-----------------------------------------------------------------------------
(* The visitor that build_parallel runs in each walker. *)

Goto(w, state) == walker' = [walker EXCEPT ![w] = state]

Take(w) ==
  /\ search = "walking" /\ walker[w] = Idle /\ ~quit /\ ~closed
  /\ \E f \in todo : Goto(w, Visit("searching", f, 0)) /\ todo' = todo \ {f}
  /\ UNCHANGED <<search, reserved, truncated, quit, feed, closed, entries, result, lost>>

\* cancelled() on entry: the walk ends.
TakeNone(w) ==
  /\ search = "walking" /\ walker[w] = Idle /\ ~quit /\ closed /\ todo # {}
  /\ quit' = TRUE
  /\ UNCHANGED <<search, todo, walker, reserved, truncated, feed, closed, entries, result, lost>>

Searching(w) == walker[w].at = "searching"
More(w) == walker[w].seen < Matches[walker[w].file]

\* Mutant: every match takes a slot.
SlotEach(w) == TRUE

\* accepted: the file has no slot yet.
NeedsSlot(w) == walker[w].seen = 0

HasRoom == reserved < ResultCap

\* MatchSink::matched up to the emission.
Accept(w) ==
  /\ Searching(w) /\ More(w)
  /\ NeedsSlot(w) => HasRoom
  /\ reserved' = IF NeedsSlot(w) THEN reserved + 1 ELSE reserved
  /\ Goto(w, [walker[w] EXCEPT !.at = "emitting"])
  /\ UNCHANGED <<search, todo, truncated, quit, feed, closed, entries, result, lost>>

Overflow(w) ==
  /\ Searching(w) /\ More(w) /\ NeedsSlot(w) /\ ~HasRoom
  /\ reserved' = reserved + 1
  /\ truncated' = TRUE
  /\ quit' = TRUE
  /\ Goto(w, Idle)
  /\ UNCHANGED <<search, todo, feed, closed, entries, result, lost>>

\* Mutant: an emission that only waits for room.
CanEmitBlind == Len(feed) < FeedCap

\* blocking_send returns: there is room, or nobody receives any more.
CanEmit == closed \/ Len(feed) < FeedCap

Emit(w) ==
  /\ walker[w].at = "emitting" /\ CanEmit
  /\ IF closed
       THEN /\ quit' = TRUE
            /\ Goto(w, Idle)
            /\ UNCHANGED feed
       ELSE /\ feed' = Append(feed, Match(walker[w].file))
            /\ Goto(w, Visit("searching", walker[w].file, walker[w].seen + 1))
            /\ UNCHANGED quit
  /\ UNCHANGED <<search, todo, reserved, truncated, closed, entries, result, lost>>

\* search_path returns, at the end of the file or on an error within it.
Leave(w) ==
  /\ Searching(w)
  /\ More(w) => walker[w].file \in Flaky
  /\ quit' = (quit \/ closed)
  /\ Goto(w, Idle)
  /\ UNCHANGED <<search, todo, reserved, truncated, feed, closed, entries, result, lost>>

\* The walk is over: run_file_search sends the end unless it was cancelled.
Walked ==
  /\ search = "walking"
  /\ \A w \in Walker : walker[w] = Idle
  /\ quit \/ todo = {}
  /\ search' = IF closed THEN "over" ELSE "ending"
  /\ UNCHANGED <<todo, walker, reserved, truncated, quit, feed, closed, entries, result, lost>>

\* A root, pattern or regex that is not valid, before the walk, or a panic in
\* it: what the walkers still emit is for a call that returns an error.
Breaks ==
  /\ search = "walking"
  /\ search' = "failing" /\ walker' = [w \in Walker |-> Idle]
  /\ UNCHANGED <<todo, reserved, truncated, quit, feed, closed, entries, result, lost>>

SendEnd ==
  /\ search \in {"ending", "failing"} /\ CanEmit
  /\ search' = "over"
  /\ feed' = IF closed THEN feed
             ELSE Append(feed, IF search = "ending" THEN Done(truncated) ELSE Error)
  /\ UNCHANGED <<todo, walker, reserved, truncated, quit, closed, entries, result, lost>>

WalkStep ==
  \/ \E w \in Walker : Take(w) \/ TakeNone(w) \/ Accept(w) \/ Overflow(w) \/ Emit(w) \/ Leave(w)
  \/ Walked
  \/ SendEnd
-----------------------------------------------------------------------------
(* The host's end of the feed. *)

Count(f) == IF f \in DOMAIN entries THEN entries[f] + 1 ELSE 1

Collect ==
  /\ result = NoResult /\ ~closed /\ feed # <<>> /\ Head(feed).kind = "match"
  /\ LET f == Head(feed).file IN
       entries' = [g \in DOMAIN entries \union {f} |-> IF g = f THEN Count(f) ELSE entries[g]]
  /\ feed' = Tail(feed)
  /\ UNCHANGED <<search, todo, walker, reserved, truncated, quit, closed, result, lost>>

\* The terminal event; the feed is dropped behind it.
Finish ==
  /\ result = NoResult /\ ~closed /\ feed # <<>> /\ Head(feed).kind = "done"
  /\ result' = Results(entries, Head(feed).truncated)
  /\ closed' = TRUE
  /\ UNCHANGED <<search, todo, walker, reserved, truncated, quit, feed, entries, lost>>

\* The error event, or the end of the feed with no event before it.
FinishBroken ==
  /\ result = NoResult /\ ~closed
  /\ IF feed = <<>> THEN search = "over" ELSE Head(feed).kind = "error"
  /\ result' = Failed
  /\ closed' = TRUE
  /\ UNCHANGED <<search, todo, walker, reserved, truncated, quit, feed, entries, lost>>

\* The host's reader routes an item of a feed it has not decoded yet.
Lose ==
  /\ result = NoResult /\ ~closed /\ feed # <<>>
  /\ lost' = IF Head(feed).kind = "match" THEN [lost EXCEPT ![Head(feed).file] = @ + 1] ELSE lost
  /\ feed' = Tail(feed)
  /\ UNCHANGED <<search, todo, walker, reserved, truncated, quit, closed, entries, result>>

\* The receiver is dropped, or the connection can carry the feed no further.
Close ==
  /\ search # "none" /\ ~closed
  /\ closed' = TRUE
  /\ UNCHANGED <<search, todo, walker, reserved, truncated, quit, feed, entries, result, lost>>

(* A search that reports its end has accounted for what it found.  Each    *)
(* match is in the result, or was thrown away on the host before the       *)
(* answer that carries the feed was decoded (feed.rs:506); the two         *)
(* together are, without truncation, every match of every file, otherwise  *)
(* as many files as a result may hold, each with all its matches, though   *)
(* several walkers fill the result at once and stop at the first file too  *)
(* many.  So a result the reader did not overtake (lost all 0) is whole.   *)
(* The other exception is a file that cannot be read to its end: its count *)
(* is that of the readable part (search.rs:214).  Nothing tells the caller *)
(* of either.  A search that fails, or whose end was thrown away, reports  *)
(* no result.                                                              *)
Reported(f) == lost[f] + (IF f \in DOMAIN result.entries THEN result.entries[f] ELSE 0)
ResultsAreWhole ==
  result.status = "results" =>
    LET files == {f \in Found : Reported(f) > 0} IN
    /\ IF result.truncated THEN Cardinality(files) = ResultCap
                           ELSE Found \ Flaky \subseteq files
    /\ \A f \in files \ Flaky : Reported(f) = Matches[f]

(* A search nobody listens to any more ends, with walkers blocked on the   *)
(* full feed too (search.rs:184, 325; server.rs:401).                      *)
SearchStops == (search # "none" /\ closed) ~> search = "over"
=============================================================================
