---------------------------- MODULE ModelCalls ----------------------------
(***************************************************************************)
(* The requests of a session to its model: ChatSession::run and the stream *)
(* of the genai provider with its retries, for the driver's turns, and the *)
(* auto judge that is asked while a call waits for permission.  Before a   *)
(* request goes out its tokens are resolved (CodexAuth).                   *)
(***************************************************************************)
EXTENDS Wire, CodexAuth, FiniteSets

CONSTANTS MaxAttempts,  \* MAX_STREAM_ATTEMPTS
          MaxCalls,     \* calls of one answer
          MaxDeltas     \* deltas of one stream

ASSUME CallsAssumption == MaxAttempts \in Nat \ {0} /\ MaxCalls \in Nat /\ MaxDeltas \in Nat

VARIABLES history,      \* the wire history of the chat's rows
          pending,      \* inputs no answered request has carried
          turn,         \* where the driver is: idle, run, call, batch, judge, save
          calls,        \* the calls of the last answer that have no result yet
          stream,       \* the request on its way
          cancelled,    \* the turn's token
          made,         \* how many things were said, called or shown: their numbers
          sent          \* the last answered request, and its answer
callVars == << history, pending, turn, calls, stream, cancelled, made, sent >>

NoStream == [pc |-> "none"]

CallsInit ==
  /\ AuthInit
  /\ history = << >> /\ pending = << >> /\ turn = "idle" /\ calls = << >> /\ stream = NoStream
  /\ cancelled = FALSE /\ made = 0 /\ sent = << >>

(* A turn *)

Prompt ==
  /\ turn = "idle" /\ Spend("prompts")
  /\ pending' = Append(pending, User(made + 1)) /\ made' = made + 1
  /\ turn' = "run" /\ cancelled' = FALSE
  /\ UNCHANGED << history, calls, stream, sent, authVars >>

Interrupt ==
  /\ turn # "idle" /\ ~cancelled /\ Spend("interrupts")
  /\ cancelled' = TRUE
  /\ UNCHANGED << history, pending, turn, calls, stream, made, sent, authVars >>

(* Interrupted between two requests, the turn ends. *)
EndTurn ==
  /\ turn = "run" /\ cancelled
  /\ turn' = "idle"
  /\ UNCHANGED << history, pending, calls, stream, cancelled, made, sent, authVars, left >>

(* A request, with its messages laid out. *)
Ask(who, inputs, messages, retries) ==
  stream' = [pc |-> "auth", who |-> who, inputs |-> inputs, messages |-> messages, attempt |-> 1,
             emitted |-> FALSE, deltas |-> 0, shown |-> << >>, retries |-> retries]

Run ==
  /\ turn = "run" /\ ~cancelled
  /\ turn' = "call" /\ pending' = << >>
  /\ Ask("chat", pending, Request(history, << System >> \o pending), 0)
  /\ UNCHANGED << history, calls, cancelled, made, sent, authVars, left >>

(* Provider::stream *)

Is(pc) == stream.pc = pc

(* Nothing between the resolving of the tokens and its end looks at the token of the turn. *)
Authorize ==
  /\ Is("auth") /\ ~cancelled
  /\ Read(Us)
  /\ stream' = [stream EXCEPT !.pc = "tokens"]
  /\ UNCHANGED << history, pending, turn, calls, cancelled, made, sent >>
Authorizing == Is("tokens") /\ Refresh(Us) /\ UNCHANGED callVars
Authorized ==
  /\ Is("tokens") /\ client[Us] = Ready /\ Release(Us)
  /\ stream' = [stream EXCEPT !.pc = "open"]
  /\ UNCHANGED << history, pending, turn, calls, cancelled, made, sent, left >>

Step(fields) == /\ stream' = [f \in DOMAIN fields \cup DOMAIN stream |->
                                 IF f \in DOMAIN fields THEN fields[f] ELSE stream[f]]
                /\ UNCHANGED << history, pending, turn, calls, cancelled, made, sent, authVars >>

Opened == Is("open") /\ ~cancelled /\ Step([pc |-> "stream", deltas |-> 0]) /\ UNCHANGED left

(* Text and reasoning are passed on as they come. *)
EmitsText(kind) == kind = "text"
Emits(kind) == TRUE

Delta ==
  /\ Is("stream") /\ ~cancelled /\ stream.deltas < MaxDeltas
  /\ \E kind \in {"text", "reasoning"} :
       Step([deltas |-> stream.deltas + 1, emitted |-> stream.emitted \/ Emits(kind),
             shown |-> Append(stream.shown, stream.attempt)])
  /\ UNCHANGED left

(* is_transient: an answer of 5xx or 429, a failed response, a stream that breaks off; not another   *)
(* status, nor an error of our own.                                                                  *)
Faults == {"server", "throttled", "failed", "dropped", "refused", "ours"}
Transient(fault) == fault \in {"server", "throttled", "failed", "dropped"}

(* Nothing is out yet that a retry would repeat. *)
Again(fault) == Transient(fault) /\ ~stream.emitted /\ stream.attempt < MaxAttempts

Breaks == (Is("open") \/ Is("stream")) /\ ~cancelled /\ Spend("faults")
BreaksFor(again) == Breaks /\ \E fault \in Faults : Again(fault) = again

BreaksAndRetries == BreaksFor(TRUE) /\ Step([pc |-> "backoff"])
Backoff ==
  /\ Is("backoff") /\ ~cancelled
  /\ Step([pc |-> "open", attempt |-> stream.attempt + 1]) /\ UNCHANGED left

(* The calls of an answer, named by the provider for good or only within the answer. *)
NewCalls(count, unique) == [k \in 1..count |-> Call(<< -1, IF unique THEN made + 1 + k ELSE k >>, made + 1 + k)]

Ends ==
  /\ Is("stream") /\ ~cancelled /\ stream.who = "chat"
  /\ \E count \in 0..MaxCalls, unique \in BOOLEAN :
       /\ IF count = 0 THEN unique /\ UNCHANGED left ELSE Spend("batches")
       /\ Step([pc |-> "flush", answer |-> Assistant(made + 1, NewCalls(count, unique))])

(* One transaction: wire history for all inputs but the system's, and the answer. *)
Recorded == history \o stream.inputs \o << stream.answer >>

Flush ==
  /\ Is("flush")
  /\ history' = Recorded
  /\ sent' = Append(stream.messages, Last(Remapped(Recorded)))
  /\ made' = made + 1 + Len(stream.answer.calls)
  /\ stream' = [stream EXCEPT !.pc = "done"]
  /\ UNCHANGED << pending, turn, calls, cancelled, authVars, left >>

(* The driver has the answer, unless its last event could not be stored. *)
Answered ==
  /\ Is("done")
  /\ \/ calls' = stream.answer.calls /\ UNCHANGED left
     \/ stream.shown # << >> /\ Spend("drops") /\ calls' = << >>
  /\ turn' = IF calls' = << >> THEN "idle" ELSE "batch"
  /\ stream' = NoStream
  /\ UNCHANGED << history, pending, cancelled, made, sent, authVars >>

(* Whatever fails: the inputs go back in front, the system's excepted. *)
Fails ==
  /\ stream' = NoStream /\ turn' = "idle" /\ pending' = stream.inputs \o pending
  /\ UNCHANGED << history, calls, cancelled, made, sent >>
OfChat == stream # NoStream /\ stream.who = "chat"
CallFails ==
  /\ OfChat
  /\ \/ Fails /\ UNCHANGED authVars /\ Is("flush") /\ Spend("faults")
     \/ Fails /\ UNCHANGED authVars /\ BreaksFor(FALSE)
     \/ Fails /\ Is("tokens") /\ client[Us] = Failed /\ Release(Us) /\ UNCHANGED left
     \/ Fails /\ UNCHANGED << authVars, left >> /\ cancelled /\ stream.pc \in {"auth", "open", "stream", "backoff"}

(* model_call returns while the request is on: its event could not be stored.  The inputs are lost.  *)
Dropped ==
  /\ OfChat /\ ~Is("done") /\ stream.shown # << >> /\ Spend("drops")
  /\ stream' = NoStream /\ turn' = "idle"
  /\ UNCHANGED << history, pending, calls, cancelled, made, sent, authVars >>

(* A batch of calls: each gets a result, executed, refused or interrupted. *)

Settle ==
  /\ turn = "batch"
  /\ pending' = Append(pending, Result(Head(calls)))
  /\ calls' = Tail(calls)
  /\ turn' = IF Len(calls) = 1 THEN "save" ELSE "batch"
  /\ UNCHANGED << history, stream, cancelled, made, sent, authVars, left >>

(* persist_pending and commit_edits; a failure ends the turn. *)
Save ==
  /\ turn = "save"
  /\ \/ turn' = "run" /\ UNCHANGED left
     \/ turn' = "idle" /\ Spend("faults")
  /\ UNCHANGED << history, pending, calls, stream, cancelled, made, sent, authVars >>

(* auto_judge: a demand for one call of `decide`, repeated once with a scold. *)

Judge ==
  /\ turn = "batch" /\ ~cancelled /\ Spend("judges")
  /\ turn' = "judge" /\ Ask("judge", << User(0) >>, << User(0) >>, 1)
  /\ UNCHANGED << history, pending, calls, cancelled, made, sent, authVars >>

OfJudge == stream # NoStream /\ stream.who = "judge"

(* Approved, or else the user's to decide: the call goes on. *)
JudgeLeaves == /\ stream' = NoStream /\ turn' = "batch"
               /\ UNCHANGED << history, pending, calls, cancelled, made, sent >>
Scold ==
  /\ OfJudge /\ Is("stream") /\ ~cancelled /\ stream.retries > 0
  /\ stream' = [stream EXCEPT !.pc = "auth", !.attempt = 1, !.emitted = FALSE, !.deltas = 0, !.shown = << >>,
                              !.inputs = Append(@, User(0)), !.messages = Append(@, User(0)), !.retries = @ - 1]
  /\ UNCHANGED << history, pending, turn, calls, cancelled, made, sent, authVars, left >>
Judged ==
  /\ OfJudge /\ JudgeLeaves
  /\ \/ UNCHANGED << authVars, left >> /\ Is("stream") /\ ~cancelled
     \/ UNCHANGED authVars /\ BreaksFor(FALSE)
     \/ Is("tokens") /\ client[Us] = Failed /\ Release(Us) /\ UNCHANGED left

(* An interrupt drops the judge wherever it waits, a refresh of the tokens included. *)
JudgeDropped ==
  /\ OfJudge /\ cancelled /\ JudgeLeaves /\ UNCHANGED left
  /\ IF Is("tokens") THEN (Waiting(Us) \/ client[Us].pc \in {"failed", "ready"}) /\ Gone(Us)
                     ELSE UNCHANGED authVars

OthersRefresh == OthersUse /\ UNCHANGED callVars
Expires == Expire /\ UNCHANGED callVars

(* All but Prompt, Settle and Judge, which other work of the driver holds up. *)
CallsNext ==
  \/ Interrupt \/ EndTurn \/ Run
  \/ Authorize \/ Authorizing \/ Authorized
  \/ Opened \/ Delta \/ BreaksAndRetries \/ Backoff \/ Ends \/ Flush \/ Answered \/ CallFails \/ Dropped
  \/ Save
  \/ Scold \/ Judged \/ JudgeDropped
  \/ OthersRefresh \/ Expires

(* Whatever was interrupted, lost or retried, and however providers name calls: in each request      *)
(* every call is followed by its own results (remap_tool_call_ids, normalize_tool_results), and one  *)
(* that was recorded or is carried is not made up.                                                   *)
RequestsArePaired ==
  OfChat /\ ~Is("done") =>
    /\ Paired(stream.messages)
    /\ \A m \in Range(history \o stream.inputs) : \E k \in Range(stream.messages) : k.role = m.role /\ k.n = m.n

(* A request starts with the last one that was answered, and its answer, identifier by identifier:   *)
(* the prompt cache stays warm across failures and interrupts (stream, ChatSession::run).            *)
PrefixIsKept == [][Run => IsPrefix(sent, stream'.messages)]_callVars

(* However often a stream is retried, what was shown is of one attempt (the loop of stream).         *)
ShownOnce == stream # NoStream => Cardinality(Range(stream.shown)) <= 1
=============================================================================
