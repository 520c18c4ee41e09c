----------------------------- MODULE EntityHub -----------------------------
(***************************************************************************)
(* Entities and scrollback (frances-session: entities/mod.rs,              *)
(* scrollback/mod.rs), their producer, the agent's driver, and their       *)
(* consumer, the stores of the frontend.  The hub keeps one record for     *)
(* each entity beside its rows in the database, and sends frames into the  *)
(* one channel of events that the desktop forwards to the frontend.        *)
(*                                                                         *)
(* One entity with a stream is followed, a shell's view: entities share    *)
(* nothing but the channel and the database's lock, under which each step  *)
(* that reads or writes rows is one action here.  An item of the stream is *)
(* its number.  Snapshots are left out, what they say is latest-wins; so   *)
(* are compacted streams, which no producer asks for.                      *)
(***************************************************************************)
EXTENDS Bounds, Sequences, SequencesExt, FiniteSets

VARIABLES
  rows,    \* the database: entities, entity_artifacts, entity_stream, scrollback_sections
  record,  \* EntityRecord of the entity
  driver,  \* what the agent's driver does to it at the moment
  events,  \* EventsChannel, and the webview's queue of events behind it
  replay,  \* replay_initial_scrollback: how far, and the sections it has loaded
  calls,   \* subscribe_entity and unsubscribe_entity, as the frontend issued them
  ui,      \* the stores of the frontend
  note     \* history, see HubInit

hubVars == <<rows, record, driver, events, replay, calls, ui, note>>

NoRecord == [life |-> "none", next |-> 0, sub |-> "none", buffer |-> <<>>]
DriverFree == [at |-> "free", item |-> 0]
NoSub == [refs |-> {}, lastSeq |-> 0, catchUp |-> FALSE]
NewUi == [life |-> "none", sub |-> NoSub, items |-> <<>>, sections |-> <<>>, ended |-> FALSE]
NoReplay == [at |-> "waiting", loaded |-> <<>>]

Frame(type, value) == [type |-> type, value |-> value]
Upsert(life) == Frame("upsert", life)
Streamed(items) == [k \in DOMAIN items |-> Frame("item", items[k])]
Emit(frames) == events' = events \o frames

HubInit ==
  /\ rows = [life |-> "none", artifact |-> FALSE, stream |-> <<>>, sections |-> <<>>]
  /\ record = NoRecord /\ driver = DriverFree
  /\ events = <<>> /\ replay = NoReplay /\ calls = <<>> /\ ui = NewUi
  /\ note = [born |-> FALSE,      \* this process has opened the entity
             failed |-> FALSE,    \* a write of the entity's row or artifact has failed
             disturbed |-> FALSE, \* two calls were under way together, or one failed
             missed |-> {},       \* had its number as the catch-up began, and no row at its query
             caught |-> FALSE,    \* the subscription is a catch-up ...
             sent |-> <<>>,       \* ... and these items were sent for it
             before |-> <<>>]     \* sections of earlier processes

\* Mutant: the rows of the previous process stay as they are.
OpenAsStored ==
  /\ record' = [NoRecord EXCEPT !.life = rows.life]
  /\ driver' = DriverFree
  /\ events' = IF rows.life = "none" THEN <<>> ELSE <<Upsert(rows.life)>>
  /\ replay' = NoReplay /\ calls' = <<>> /\ ui' = NewUi
  /\ note' = [born |-> FALSE, failed |-> FALSE, disturbed |-> FALSE, missed |-> {},
              caught |-> FALSE, sent |-> <<>>, before |-> rows.sections]
  /\ UNCHANGED rows

\* EntityHub::open, then attach_publish_all, in a process that has opened the database.
Open ==
  LET life == IF rows.life = "none" THEN "none" ELSE "settled"
  IN  /\ rows' = [rows EXCEPT !.life = life]
      /\ record' = [NoRecord EXCEPT !.life = life]
      /\ driver' = DriverFree
      /\ events' = IF life = "none" THEN <<>> ELSE <<Upsert(life)>>
      /\ replay' = NoReplay /\ calls' = <<>> /\ ui' = NewUi
      /\ note' = [born |-> FALSE, failed |-> FALSE, disturbed |-> FALSE, missed |-> {},
                  caught |-> FALSE, sent |-> <<>>, before |-> rows.sections]
-----------------------------------------------------------------------------
(* The driver: one task, one output after the other. *)

At(stage) == driver.at = stage
Go(stage) == driver' = [driver EXCEPT !.at = stage]

\* upsert_snapshot: the row, then the record and the frame.  A first snapshot
\* opens the entity, a later one only comes from its own live producer.
UpsertRow ==
  /\ At("free") /\ record.life # "settled"
  /\ record.life = "none" \/ Spend("snapshots")
  /\ record.life = "none" => UNCHANGED left
  /\ rows' = [rows EXCEPT !.life = "live"] /\ Go("upsert")
  /\ note' = [note EXCEPT !.born = TRUE]
  /\ UNCHANGED <<record, events, replay, calls, ui>>

Publish ==
  /\ At("upsert")
  /\ record' = [record EXCEPT !.life = "live"]
  /\ Emit(<<Upsert("live")>>) /\ driver' = DriverFree
  /\ UNCHANGED <<rows, replay, calls, ui, note, left>>

\* append: numbered and handed to the subscription in one go, stored later.
Number ==
  /\ At("free") /\ record.life = "live" /\ Spend("items")
  /\ LET item == record.next + 1
     IN  /\ record' = [record EXCEPT !.next = item,
                                     !.buffer = IF record.sub = "catching" THEN Append(@, item) ELSE @]
         /\ Emit(IF record.sub = "live" THEN Streamed(<<item>>) ELSE <<>>)
         /\ note' = [note EXCEPT !.sent = IF record.sub = "live" THEN Append(@, item) ELSE @]
         /\ driver' = [at |-> "insert", item |-> item]
  /\ UNCHANGED <<rows, replay, calls, ui>>

Insert ==
  /\ At("insert")
  /\ rows' = [rows EXCEPT !.stream = Append(@, driver.item)] /\ driver' = DriverFree
  /\ UNCHANGED <<record, events, replay, calls, ui, note, left>>

\* settle: the record, the row, the artifacts, the frame, in this order.
Settle ==
  /\ At("free") /\ record.life = "live"
  /\ record' = [record EXCEPT !.life = "settled"] /\ Go("settle")
  /\ UNCHANGED <<rows, events, replay, calls, ui, note, left>>

SettleRow ==
  /\ At("settle")
  /\ rows' = [rows EXCEPT !.life = "settled"] /\ Go("artifact")
  /\ UNCHANGED <<record, events, replay, calls, ui, note, left>>

StoreArtifact ==
  /\ At("artifact")
  /\ rows' = [rows EXCEPT !.artifact = TRUE] /\ Go("settled")
  /\ UNCHANGED <<record, events, replay, calls, ui, note, left>>

PublishSettled ==
  /\ At("settled")
  /\ Emit(<<Upsert("settled")>>) /\ driver' = DriverFree
  /\ UNCHANGED <<rows, record, replay, calls, ui, note, left>>

\* section: the row, then the frame.
PersistSection ==
  /\ At("free") /\ Spend("sections")
  /\ rows' = [rows EXCEPT !.sections = Append(@, Len(@) + 1)] /\ Go("section")
  /\ UNCHANGED <<record, events, replay, calls, ui, note>>

SendSection ==
  /\ At("section")
  /\ Emit(<<Frame("section", Len(rows.sections))>>) /\ driver' = DriverFree
  /\ UNCHANGED <<rows, record, replay, calls, ui, note, left>>

\* A statement fails: publish only reports it, and goes on with the next output.
OutputFails ==
  /\ driver.at \in {"insert", "settle", "artifact"} /\ Spend("faults")
  /\ note' = [note EXCEPT !.failed = @ \/ driver.at # "insert"] /\ driver' = DriverFree
  /\ UNCHANGED <<rows, record, events, replay, calls, ui>>

Produce == UpsertRow \/ Publish \/ Number \/ Insert \/ Settle \/ SettleRow \/ StoreArtifact
             \/ PublishSettled \/ PersistSection \/ SendSection \/ OutputFails
-----------------------------------------------------------------------------
(* frontend_ready, once in a process: the channel is forwarded from then on, *)
(* and the scrollback is replayed into it.                                   *)

FrontendReady ==
  /\ replay.at = "waiting"
  /\ replay' = [at |-> "loaded", loaded |-> rows.sections]
  /\ UNCHANGED <<rows, record, driver, events, calls, ui, note, left>>

\* Mutant: no Reset in front of the burst.
BurstWithoutReset ==
  /\ replay.at = "loaded"
  /\ Emit([k \in DOMAIN replay.loaded |-> Frame("section", replay.loaded[k])]
          \o <<Frame("end", 0)>>)
  /\ replay' = [at |-> "done", loaded |-> <<>>]
  /\ UNCHANGED <<rows, record, driver, calls, ui, note, left>>

Burst ==
  /\ replay.at = "loaded"
  /\ Emit(<<Frame("reset", 0)>>
          \o [k \in DOMAIN replay.loaded |-> Frame("section", replay.loaded[k])]
          \o <<Frame("end", 0)>>)
  /\ replay' = [at |-> "done", loaded |-> <<>>]
  /\ UNCHANGED <<rows, record, driver, calls, ui, note, left>>
-----------------------------------------------------------------------------
(* The frontend.  A view of the entity, inline or in a tab, subscribes when *)
(* it is mounted and unsubscribes when it goes; the store counts the views. *)

Call(kind) ==
  /\ calls' = Append(calls, [kind |-> kind, at |-> "issued", last |-> 0])
  /\ note' = [note EXCEPT !.disturbed = @ \/ calls # <<>>]

\* subscribeStream: the tab asks to catch up, the inline view to tail.
Mount(view) ==
  LET sub == ui.sub
      catchUp == view = "tab"
      fresh == sub.refs = {}
      escalates == catchUp /\ ~sub.catchUp
      asks == fresh \/ escalates
  IN  /\ view \notin sub.refs /\ Spend("mounts")
      /\ ui.life \in IF catchUp THEN {"live", "settled"} ELSE {"live"}
      /\ ui' = [ui EXCEPT !.sub = [refs |-> sub.refs \union {view},
                                   lastSeq |-> IF asks THEN 0 ELSE sub.lastSeq,
                                   catchUp |-> sub.catchUp \/ catchUp],
                          !.items = IF asks THEN <<>> ELSE @]
      /\ IF asks THEN Call(IF catchUp THEN "catch" ELSE "tail") ELSE UNCHANGED <<calls, note>>
  /\ UNCHANGED <<rows, record, driver, events, replay>>

\* unsubscribeStream: when the tab is closed, or the entity has settled.
Unmount(view) ==
  /\ view \in ui.sub.refs /\ (view = "tab" \/ ui.life = "settled")
  /\ IF ui.sub.refs = {view}
     THEN ui' = [ui EXCEPT !.sub = NoSub, !.items = <<>>] /\ Call("drop")
     ELSE ui' = [ui EXCEPT !.sub.refs = @ \ {view}] /\ UNCHANGED <<calls, note>>
  /\ UNCHANGED <<rows, record, driver, events, replay, left>>

\* applyStreamItem.
ApplyItem(item) ==
  IF ui.sub.refs = {} \/ item <= ui.sub.lastSeq THEN ui
  ELSE [ui EXCEPT !.sub.lastSeq = item, !.items = Append(@, item)]

Apply(frame) ==
  CASE frame.type = "upsert" -> [ui EXCEPT !.life = frame.value]
    [] frame.type = "section" -> [ui EXCEPT !.sections = Append(@, frame.value)]
    [] frame.type = "reset" -> [ui EXCEPT !.sections = <<>>]
    [] frame.type = "end" -> [ui EXCEPT !.ended = TRUE]
    [] frame.type = "item" -> ApplyItem(frame.value)

\* forward_events and the window's listener.
Deliver ==
  /\ replay.at # "waiting" /\ events # <<>>
  /\ events' = Tail(events) /\ ui' = Apply(Head(events))
  /\ UNCHANGED <<rows, record, driver, replay, calls, note, left>>
-----------------------------------------------------------------------------
(* The commands.  unsubscribe_entity runs where it arrives; subscribe_entity *)
(* is async and is run by a task at any time after that.                     *)

\* Nothing overtakes an unsubscription that was issued before it.
MayRun(k) == \A j \in 1..(k - 1) : calls[j].kind # "drop"
Leaves(k) == calls' = RemoveAt(calls, k)
Starts(k, kind) == calls[k].kind = kind /\ calls[k].at = "issued" /\ MayRun(k)

Subscribe(k, sub) ==
  /\ record' = IF record.life = "none" THEN record
               ELSE [record EXCEPT !.sub = sub, !.buffer = <<>>]
  /\ UNCHANGED <<rows, driver, replay, ui, left>>

\* subscribe without catch_up, and unsubscribe.
RunTail(k) ==
  /\ Starts(k, "tail") /\ Leaves(k) /\ Subscribe(k, "live")
  /\ note' = [note EXCEPT !.caught = FALSE] /\ UNCHANGED events

RunDrop(k) ==
  /\ Starts(k, "drop") /\ Leaves(k) /\ Subscribe(k, "none")
  /\ note' = [note EXCEPT !.caught = FALSE] /\ UNCHANGED events

BeginCatchUp(k) ==
  /\ Starts(k, "catch") /\ Subscribe(k, "catching")
  /\ calls' = [calls EXCEPT ![k].at = "query"]
  /\ note' = [note EXCEPT !.caught = TRUE, !.sent = <<>>, !.disturbed = Len(calls) > 1,
                          !.missed = IF At("insert") THEN {driver.item} ELSE {}]
  /\ UNCHANGED events

\* The rows are sent while the lock is held; an item that is numbered meanwhile
\* is only buffered, so that one step says the same.
Replay(k) ==
  /\ calls[k].at = "query"
  /\ Emit(Streamed(rows.stream))
  /\ calls' = [calls EXCEPT ![k].at = "splice",
                            ![k].last = IF rows.stream = <<>> THEN 0 ELSE Last(rows.stream)]
  /\ note' = [note EXCEPT !.sent = @ \o rows.stream,
                          !.missed = {item \in @ : At("insert") /\ driver.item = item}]
  /\ UNCHANGED <<rows, record, driver, replay, ui, left>>

\* The query or one of its rows fails: the subscription stays as it is.
ReplayFails(k) ==
  /\ calls[k].at = "query" /\ Spend("faults")
  /\ \E n \in 0..Len(rows.stream) : Emit(Streamed(SubSeq(rows.stream, 1, n)))
  /\ Leaves(k)
  /\ note' = [note EXCEPT !.disturbed = TRUE]
  /\ UNCHANGED <<rows, record, driver, replay, ui>>

\* Mutant: the buffer is sent without a look at what the replay has covered.
AllBuffered(k) == record.buffer

\* The buffer is in the order of its numbers: what the replay has not covered is its end.
Remaining(k) ==
  LET first == SelectInSeq(record.buffer, LAMBDA item : item > calls[k].last)
  IN  IF first = 0 THEN <<>> ELSE SubSeq(record.buffer, first, Len(record.buffer))

Splice(k) ==
  /\ calls[k].at = "splice" /\ Leaves(k)
  /\ LET rest == IF record.sub = "catching" THEN Remaining(k) ELSE <<>>
     IN  Emit(Streamed(rest)) /\ note' = [note EXCEPT !.sent = @ \o rest]
  /\ record' = [record EXCEPT !.sub = "live", !.buffer = <<>>]
  /\ UNCHANGED <<rows, driver, replay, ui, left>>

Frontend ==
  \/ FrontendReady \/ Burst \/ Deliver
  \/ \E view \in {"inline", "tab"} : Mount(view) \/ Unmount(view)
  \/ \E k \in DOMAIN calls :
       RunTail(k) \/ RunDrop(k) \/ BeginCatchUp(k) \/ Replay(k) \/ ReplayFails(k) \/ Splice(k)
-----------------------------------------------------------------------------
Quiet == driver.at = "free" /\ calls = <<>> /\ events = <<>>

\* A catch-up that no other call of the frontend disturbs (mod.rs, subscribe) sends no item
\* twice or out of order, and leaves none out but the one that append had numbered before it
\* began and stored behind its query: see CatchUpIsGapFree.
SpliceIsExact ==
  note.caught /\ ~note.disturbed =>
    /\ \A i, j \in DOMAIN note.sent : i < j => note.sent[i] < note.sent[j]
    /\ Quiet => ToSet(rows.stream) \subseteq ToSet(note.sent) \union note.missed

\* "replays every persisted item then splices into the live feed gap-free" (mod.rs:277-280,
\* subscribe); "Appends racing a catch-up replay must come out gap-free" (mod.rs:678-681):
\* with everything done, whatever has a row was sent.
CatchUpIsGapFree ==
  note.caught /\ ~note.disturbed /\ Quiet => ToSet(rows.stream) \subseteq ToSet(note.sent)

\* What the frontend shows of an entity's life is what its record and its row say, so that
\* a restart shows nothing that was not there before; only a failed write of a settling
\* entity (mod.rs:363) parts them, until the next start.  Nothing shows as live that
\* another process left behind, and the frontend hears of an entity's end only when the
\* artifact that it will ask for is there.
LifeAgrees ==
  /\ Quiet /\ ~note.failed => ui.life = record.life /\ rows.life = record.life
  /\ "live" \in {record.life, ui.life} => note.born
  /\ ui.life = "settled" /\ note.born => rows.artifact

\* However the driver's new sections race the replay (scrollback/mod.rs:86), what earlier
\* processes have recorded is shown once, in order and in front.
OldSectionsShownOnce ==
  ui.ended =>
    /\ SubSeq(ui.sections, 1, Len(note.before)) = note.before
    /\ \A k \in DOMAIN ui.sections : k > Len(note.before) => ui.sections[k] > Len(note.before)
=============================================================================
