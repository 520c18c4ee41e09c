------------------------------- MODULE Wire -------------------------------
(***************************************************************************)
(* The messages of a request to a model (providers/genai/mod.rs): how they *)
(* are forged from what the host puts in, and how the provider lays them   *)
(* out before every request.  A message has the numbers of what it says,   *)
(* an assistant's the calls it makes, a tool's the call it answers.        *)
(***************************************************************************)
EXTENDS Integers, Sequences, SequencesExt, FiniteSets, TLC

Call(id, n) == [id |-> id, n |-> n]
NoCall == Call(<< >>, 0)
Message(role, n, calls, answers) == [role |-> role, n |-> n, calls |-> calls, answers |-> answers]

System == Message("system", 0, << >>, NoCall)
User(n) == Message("user", n, << >>, NoCall)
Result(call) == Message("tool", call.n, << >>, call)
Assistant(n, calls) == Message("assistant", n, calls, NoCall)

(* The result of nobody, for a call that has none. *)
Synthetic == -1
Cancelled(id) == Result(Call(id, Synthetic))

IsSystem(message) == message.role = "system"
IsTool(message) == message.role = "tool"

(* The calls that messages make, in order.                                                           *)
CallsOf(messages) == FlattenSeq([i \in DOMAIN messages |-> messages[i].calls])

(* hoist_system: the system messages, wherever they are, go into the request's own field. *)
Hoisted(messages) == FlattenSeq([i \in DOMAIN messages |-> IF IsSystem(messages[i]) THEN << >> ELSE << messages[i] >>])

(* Without the pass, providers' identifiers recur. *)
NotRemapped(messages) == messages

(* The identifier of a call with k before it in the request, whatever the provider called it. *)
FreshGuid(k, messages) == <<k, Len(messages)>>
Guid(k, messages) == <<k, 0>>

(* remap_tool_call_ids: one pass; a result gets the name that was given last to a call with its id.  *)
Renamed(messages, i) ==
  LET message == messages[i]
      before == CallsOf(SubSeq(messages, 1, i - 1))
      Given(id) == {j \in DOMAIN before : before[j].id = id}
      Name(id) == IF Given(id) = {} THEN id
                  ELSE Guid((CHOOSE j \in Given(id) : \A k \in Given(id) : k <= j) - 1, messages)
  IN Message(message.role, message.n,
             [k \in DOMAIN message.calls |-> Call(Guid(Len(before) + k - 1, messages), message.calls[k].n)],
             Call(Name(message.answers.id), message.answers.n))
Remapped(messages) == [i \in DOMAIN messages |-> Renamed(messages, i)]

(* normalize_tool_results: results are pulled out and put behind their calls, in the order of the    *)
(* calls; one that was never produced is made up.                                                    *)
Answering(messages, id) == {i \in DOMAIN messages : IsTool(messages[i]) /\ messages[i].answers.id = id}
ResultFor(messages, id) ==
  LET at == Answering(messages, id)
  IN IF at = {} THEN Cancelled(id) ELSE messages[CHOOSE i \in at : \A j \in at : j <= i]

WithResults(messages, message) ==
  IF IsTool(message) THEN << >>
  ELSE <<message>> \o [k \in DOMAIN message.calls |-> ResultFor(messages, message.calls[k].id)]

Normalized(messages) == FlattenSeq([i \in DOMAIN messages |-> WithResults(messages, messages[i])])

(* build_chat_request of the history and the new inputs. *)
Request(history, inputs) == Hoisted(Normalized(Remapped(history \o inputs)))

(* What the OpenAI Responses API and the prompt cache ask: every call is answered at once, in order, *)
(* by its own result, and no identifier occurs twice.                                                *)
Paired(messages) ==
  /\ IsInjective([k \in DOMAIN CallsOf(messages) |-> CallsOf(messages)[k].id])
  /\ \A i \in DOMAIN messages : messages[i].role = "assistant" =>
       \A k \in DOMAIN messages[i].calls :
         /\ i + k \in DOMAIN messages
         /\ IsTool(messages[i + k])
         /\ messages[i + k].answers.id = messages[i].calls[k].id
         /\ messages[i + k].n \in {messages[i].calls[k].n, Synthetic}
  /\ Cardinality({i \in DOMAIN messages : IsTool(messages[i])}) = Len(CallsOf(messages))
=============================================================================
