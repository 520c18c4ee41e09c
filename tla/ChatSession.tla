---------------------------- MODULE ChatSession ----------------------------
(***************************************************************************)
(* A chat session of frances-llm (chat/session.rs) and its rows in the     *)
(* database (frances-session: history/messages.rs), as values and the      *)
(* operations on them.  `pending` are the inputs no request has carried    *)
(* yet; a row is a primitive (what was said, in the host's words) or wire  *)
(* history (what the provider is sent again with every request).           *)
(*                                                                         *)
(* An item is a kind and a number that names it through the whole session: *)
(* an input of the user, a tool call of the model, its result, or either   *)
(* of these as text ("said", "told") in a chat made from another one.  The *)
(* model's text, and reminders, which only the model reads, are left out.  *)
(***************************************************************************)
EXTENDS Naturals, Sequences, SequencesExt, Picking

Item(kind, n) == [kind |-> kind, n |-> n]
System == Item("system", 0)

InputKinds == {"user", "result", "told"}
SpokenKinds == InputKinds \union {"call", "said"}

InputItems == [kind : InputKinds, n : Nat]
Spoken == [kind : SpokenKinds, n : Nat]
Items == [kind : SpokenKinds \union {"system"}, n : Nat]

IsSystem(item) == item.kind = "system"

Unsaved(item) == [value |-> item, persisted |-> FALSE]
Values(inputs) == [k \in DOMAIN inputs |-> inputs[k].value]
Numbers(items) == [k \in DOMAIN items |-> items[k].n]

\* ChatSessionManager::create: the row is written with the first use.
Fresh == [row |-> FALSE, pending |-> <<>>, prims |-> <<>>, wire |-> <<>>]

Push(chat, item) == [chat EXCEPT !.pending = Append(@, Unsaved(item))]

\* push_system: behind the last system input, or else in front of all.
PushSystem(chat) ==
  LET SystemAt == {k \in DOMAIN chat.pending : IsSystem(chat.pending[k].value)}
      pos == IF SystemAt = {} THEN 0 ELSE CHOOSE k \in SystemAt : \A j \in SystemAt : j <= k
  IN  [chat EXCEPT !.pending = InsertAt(@, pos + 1, Unsaved(System))]

EnsureRow(chat) == [chat EXCEPT !.row = TRUE]

\* persist_pending: one transaction; every input counts as persisted after it.
NewRows(chat) == Values(Picked(chat.pending, [value : Spoken, persisted : {FALSE}]))

\* Mutant: what is written is not marked.
PersistUnmarked(chat) == [EnsureRow(chat) EXCEPT !.prims = @ \o NewRows(chat)]

PersistPending(chat) ==
  [EnsureRow(chat) EXCEPT
     !.prims = @ \o NewRows(chat),
     !.pending = [k \in DOMAIN @ |-> [@[k] EXCEPT !.persisted = TRUE]]]

\* run takes what is pending; when the request fails, all but the system
\* inputs go back in front.
Drain(chat) == [chat EXCEPT !.pending = <<>>]
Retry(drained) == Picked(drained, [value : Spoken, persisted : BOOLEAN])

\* Mutant: a failed request keeps what it took.
RestoreNothing(chat, drained) == chat

Restore(chat, drained) == [chat EXCEPT !.pending = Retry(drained) \o @]

\* The flush behind an answered request: the provider has emitted wire history
\* for all inputs but system ones, then its own message.
Record(chat, drained, calls) ==
  [chat EXCEPT !.wire = @ \o Picked(Values(drained), Spoken) \o calls,
               !.prims = @ \o calls]

\* replace_mcp: calls and results go on as text, which needs no answer.
AsText(item) == CASE item.kind = "call"   -> Item("said", item.n)
                  [] item.kind = "result" -> Item("told", item.n)
                  [] OTHER                -> item
CopyOf(items) == [Fresh EXCEPT !.pending = [k \in DOMAIN items |-> Unsaved(AsText(items[k]))]]

\* The inputs among some items, by number.
Inputs(items) == Numbers(Picked(items, InputItems))
=============================================================================
