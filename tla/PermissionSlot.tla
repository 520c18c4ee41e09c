--------------------------- MODULE PermissionSlot ---------------------------
(***************************************************************************)
(* A permission on its way to the user and back: the tool call that asks   *)
(* (frances-harness: tools/shell.rs), the driver's permission task         *)
(* (frances-session: runtime/driver.rs), the desktop's one slot for a      *)
(* reply (frances: app.rs) and the prompt of the window (App.svelte).  The *)
(* desktop stores the reply when it forwards the request; the window sees  *)
(* the prompt later, answers whatever is in the slot when its command      *)
(* arrives, and clears its prompt when the command returns.                *)
(*                                                                         *)
(* Requests are numbered.  The automatic judge and the wording of prompts  *)
(* are left out.                                                           *)
(***************************************************************************)
EXTENDS Bounds, Sequences, SequencesExt

CONSTANT MaxAsks  \* bound: requests in a behaviour

VARIABLES
  asks,      \* each request: not made, open, answered, or its receiver is gone
  answering, \* history: the prompt the user saw as a request was answered
  requests,  \* requests in the channel of events
  slot,      \* Backend::permission: the request whose reply is held, or 0
  prompts,   \* the webview's queue of Permission events
  prompt,    \* App.svelte: the prompt shown, or 0
  answers,   \* respondPermission commands under way, in order
  hasty      \* history: the user has answered again before a command returned

slotVars == <<asks, answering, requests, slot, prompts, prompt, answers, hasty>>

Decisions == {"yes", "no", "chat"}

SlotInit ==
  /\ asks = [n \in 1..MaxAsks |-> "unmade"] /\ answering = [n \in 1..MaxAsks |-> 0]
  /\ requests = <<>> /\ slot = 0
  /\ prompts = <<>> /\ prompt = 0 /\ answers = <<>> /\ hasty = FALSE

\* Calls run one after the other, and shell_call waits for its answer.
Waiting == \E n \in DOMAIN asks : asks[n] = "open"

Ask ==
  /\ ~Waiting /\ Spend("asks")
  /\ \E n \in DOMAIN asks :
       /\ asks[n] = "unmade" /\ \A j \in DOMAIN asks : j < n => asks[j] # "unmade"
       /\ asks' = [asks EXCEPT ![n] = "open"]
       /\ requests' = Append(requests, n)
  /\ UNCHANGED <<answering, slot, prompts, prompt, answers, hasty>>

\* An interrupt: the call gives up its receiver, the request stays where it is.
Withdraw ==
  /\ \E n \in DOMAIN asks : asks[n] = "open" /\ asks' = [asks EXCEPT ![n] = "gone"]
  /\ UNCHANGED <<answering, requests, slot, prompts, prompt, answers, hasty, left>>

IsClosed(n) == asks[n] = "gone"

Occupied == slot # 0 /\ ~IsClosed(slot)

\* forward_events and store_permission.  A second request is dropped with its reply.
Forward ==
  /\ requests # <<>>
  /\ LET n == Head(requests)
     IN  IF Occupied THEN /\ asks' = [asks EXCEPT ![n] = "refused"]
                          /\ UNCHANGED <<slot, prompts>>
                     ELSE slot' = n /\ prompts' = Append(prompts, n) /\ UNCHANGED asks
  /\ requests' = Tail(requests)
  /\ UNCHANGED <<answering, prompt, answers, hasty, left>>

\* applyEvent.
Show ==
  /\ prompts # <<>>
  /\ prompt' = Head(prompts) /\ prompts' = Tail(prompts)
  /\ UNCHANGED <<asks, answering, requests, slot, answers, hasty, left>>

\* answerPermission, by a key, or by a text that is submitted while a prompt shows.
Answer ==
  /\ prompt # 0 /\ Spend("answers")
  /\ \E decision \in Decisions :
       answers' = Append(answers, [saw |-> prompt, decision |-> decision, at |-> "sent"])
  /\ hasty' = (hasty \/ answers # <<>>)
  /\ UNCHANGED <<asks, answering, requests, slot, prompts, prompt>>

\* respond_permission takes the slot, whatever it holds.  A redirection to the chat is a
\* refusal for the call.
Respond ==
  /\ \E k \in DOMAIN answers :
       /\ answers[k].at = "sent" /\ \A j \in 1..(k - 1) : answers[j].at # "sent"
       /\ answers' = [answers EXCEPT ![k].at = "returned"]
       /\ IF slot = 0 \/ IsClosed(slot) THEN UNCHANGED <<asks, answering>>
          ELSE /\ asks' = [asks EXCEPT ![slot] = IF answers[k].decision = "yes" THEN "yes" ELSE "no"]
               /\ answering' = [answering EXCEPT ![slot] = answers[k].saw]
  /\ slot' = 0
  /\ UNCHANGED <<requests, prompts, prompt, hasty, left>>

\* Mutant: the prompt is left standing.
ReturnOnly ==
  /\ answers # <<>> /\ Head(answers).at = "returned"
  /\ answers' = Tail(answers)
  /\ UNCHANGED <<asks, answering, requests, slot, prompts, prompt, hasty, left>>

Return ==
  /\ answers # <<>> /\ Head(answers).at = "returned"
  /\ answers' = Tail(answers) /\ prompt' = 0
  /\ UNCHANGED <<asks, answering, requests, slot, prompts, hasty, left>>

Permit == Ask \/ Withdraw \/ Forward \/ Show \/ Answer \/ Respond \/ Return
-----------------------------------------------------------------------------
\* What the user answered while looking at one prompt decides another request only if the
\* one on the screen had been withdrawn, or decided unseen in this very way, or a second
\* answer was given before the first command returned (App.svelte:132): respond_permission
\* itself takes whatever the slot holds.
AnswersItsPrompt ==
  \A n \in DOMAIN asks :
    LET saw == answering[n]
    IN  saw \notin {0, n} => hasty \/ asks[saw] = "gone" \/ answering[saw] \notin {0, saw}
=============================================================================
