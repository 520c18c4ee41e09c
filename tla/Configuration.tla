--------------------------- MODULE Configuration ---------------------------
(***************************************************************************)
(* Layered configuration (frances-config: config.rs, event.rs, handle.rs,  *)
(* binding.rs, value.rs, deserializer.rs and providers/; frances-session:  *)
(* llm/session_provider.rs).  Each provider owns a layer of a tree.        *)
(* Batches of events go through one channel to one task, which applies a   *)
(* batch to the tree, publishes the new snapshot and refreshes the         *)
(* bindings one after the other, while other threads bind, promote and     *)
(* read bindings and write session configuration.                          *)
(*                                                                         *)
(* A path is a sequence of names; a value is a number: Null, two values    *)
(* that decode, and Bad, which does not.  Mapped bindings (map_async),     *)
(* which nothing uses, are left out.                                       *)
(***************************************************************************)
EXTENDS Bounds, Sequences, SequencesExt, FiniteSets, Picking

CONSTANTS
  Ids, ModelNames, \* of providers and of models
  Found,   \* for each provider but the last, the batches its source may hold
  Stored,  \* the tables session_config that a session may be opened with
  Writes   \* the batches a SessionConfigWriter is given

Null == 0
Bad == 3        \* a value that what is bound cannot be read from
Malformed == 4  \* only in a row: its kind and its text do not agree
Absent == <<>>  \* and <<v>> is a v that is there

Providers == <<"model_providers">>
Provider(id) == <<"model_providers", id>>
Kind(id) == <<"model_providers", id, "kind">>
Models == <<"models">>
Model(name) == <<"models", name>>
Paths == {Kind(id) : id \in Ids} \union {Model(name) : name \in ModelNames}

Settings == Null..Bad
Events == [path : Paths, value : Settings]

ASSUME ConfigAssumption ==
  /\ IsFiniteSet(Ids) /\ IsFiniteSet(ModelNames) /\ "a" \in Ids /\ "default" \in ModelNames
  /\ Found \in Seq(Range(Found)) /\ \A set \in Range(Found) : \A events \in set : events \in Seq(Events)
  /\ \A events \in Writes : events \in Seq(Events)
  /\ \A stored \in Stored : stored \in [Paths -> Settings \union {Malformed}]

Session == Len(Found) + 1
Layers == 1..Session

VARIABLES
  tree,      \* the snapshot
  said,      \* history: what each layer's provider said last of each path
  table,     \* the table session_config
  channel,   \* the handle's channel
  processor, \* the task behind it: at, the refreshers it has yet to refresh
  building,  \* ConfigHandle::build: the layer it loads, Session + 1 at the barrier, then done
  registry,  \* the registered refreshers
  bindings,  \* BindingInner and how far its owner is; missed is history
  writers,   \* SessionConfigWriter::write, by two tasks: the events they have yet to send
  last       \* history: the last model that "default" named as a batch was applied

configVars == <<tree, said, table, channel, processor, building, registry, bindings, writers, last>>
-----------------------------------------------------------------------------
(* The tree: the slots of each node, one for each layer, by the node's path.  The root,  *)
(* which is always there and has no value, is left out.                                   *)

NoSlots == [l \in Layers |-> Null]

Value(slots) ==
  LET set == {l \in Layers : slots[l] # Null}
  IN  IF set = {} THEN Null ELSE slots[CHOOSE l \in set : \A k \in set : k <= l]

\* What events say of a path: the last of them counts.
Saying(path, events) == {k \in DOMAIN events : events[k].path = path}
Latest(path, events) == events[CHOOSE k \in Saying(path, events) : \A j \in Saying(path, events) : j <= k].value

\* The nodes on the way to the paths of events, and those of them that are one name further.
OnTheWay(path) == {SubSeq(path, 1, n) : n \in 1..Len(path)}
Entered(events) == UNION {OnTheWay(events[k].path) : k \in DOMAIN events}
Children(node, nodes) == {child \in nodes : Front(child) = node}

SlotsAfter(nodes, node, layer, events) ==
  LET old == IF node \in DOMAIN nodes THEN nodes[node] ELSE NoSlots
  IN  IF Saying(node, events) = {} THEN old ELSE [old EXCEPT ![layer] = Latest(node, events)]

\* Whether a node that was entered is there afterwards, when of those further on `kept` are.  A
\* node that only had children taken away that it did not have stays, even if nothing is in it.
Stays(nodes, node, layer, events, kept) ==
  LET entered == Children(node, Entered(events))
      changed == Saying(node, events) # {} \/ entered \intersect (DOMAIN nodes \union kept) # {}
      empty == /\ Value(SlotsAfter(nodes, node, layer, events)) = Null
               /\ entered \intersect kept = {} /\ Children(node, DOMAIN nodes) \subseteq entered
  IN  ~(changed /\ empty)

\* From the ends of the longest paths, of three names, towards the root.
Surviving(nodes, layer, events) ==
  LET Staying(n, kept) == {node \in Entered(events) : Len(node) = n /\ Stays(nodes, node, layer, events, kept)}
      third == Staying(3, {})
      second == Staying(2, third)
  IN  third \union second \union Staying(1, second)

AppliedBatch(nodes, batch) ==
  [node \in (DOMAIN nodes \ Entered(batch.events)) \union Surviving(nodes, batch.layer, batch.events) |->
    SlotsAfter(nodes, node, batch.layer, batch.events)]
-----------------------------------------------------------------------------
(* Bindings: the ids of the providers (Keys), one provider, all models, the default one. *)

BindingPath == [keys    |-> Providers,
                entry   |-> Provider("a"),
                models  |-> Models,
                default |-> Model("default")]
Bindings == DOMAIN BindingPath

\* A leaf decodes unless it is missing or of the wrong form.
DecodedLeaf(nodes, path) ==
  IF path \notin DOMAIN nodes \/ Value(nodes[path]) \in {Null, Bad} THEN Absent ELSE <<Value(nodes[path])>>

\* The names of a node's children.
Listed(nodes, node) == {Last(child) : child \in Children(node, DOMAIN nodes)}

DecodedModels(nodes) ==
  LET all == [name \in Listed(nodes, Models) |-> DecodedLeaf(nodes, Model(name))]
  IN  IF \E name \in DOMAIN all : all[name] = Absent THEN Absent ELSE <<all>>

Decode(nodes, b) ==
  IF BindingPath[b] \notin DOMAIN nodes THEN Absent
  ELSE CASE b = "keys"    -> <<Listed(nodes, Providers)>>
         [] b = "models"  -> DecodedModels(nodes)
         [] b = "entry"   -> DecodedLeaf(nodes, Kind("a"))
         [] b = "default" -> DecodedLeaf(nodes, Model("default"))

\* Something is there that does not decode: bind fails, where a refresh reports absence.
Undecodable(nodes, b) == BindingPath[b] \in DOMAIN nodes /\ Decode(nodes, b) = Absent

NoBinding == [at |-> "none", value |-> Absent, tick |-> 0, gen |-> 0, missed |-> FALSE]

ConfigInit ==
  /\ tree = [node \in {} |-> NoSlots]
  /\ said = [l \in Layers |-> [p \in Paths |-> Null]]
  /\ table \in Stored
  /\ channel = <<>> /\ processor = [at |-> "idle", todo |-> <<>>]
  /\ building = 1 /\ registry = <<>>
  /\ bindings = [b \in Bindings |-> NoBinding]
  /\ writers = [w \in 1..2 |-> <<>>] /\ last = Absent

Built == building = Session + 2
Resting == processor.at = "idle" /\ channel = <<>>
-----------------------------------------------------------------------------
(* ConfigHandle::build *)

Batch(layer, events) == [layer |-> layer, events |-> events]
Event(path, value) == [path |-> path, value |-> value]

\* SessionConfigProvider::load: an event for every row that is well formed.
RowEvents ==
  LET good == SetToSeq({p \in Paths : table[p] \notin {Null, Malformed}})
  IN  [k \in DOMAIN good |-> Event(good[k], table[good[k]])]

LoadedBy(layer) == IF layer = Session THEN {RowEvents} ELSE Found[layer]

\* One provider after the other.  A provider that finds nothing sends nothing.
Load ==
  /\ building \in Layers
  /\ \E events \in LoadedBy(building) :
       channel' = IF events = <<>> THEN channel ELSE Append(channel, Batch(building, events))
  /\ building' = building + 1
  /\ UNCHANGED <<tree, said, table, processor, registry, bindings, writers, last, left>>

\* The barrier comes behind every batch, and build waits until the processor is at it.
BarrierPassed ==
  /\ building = Session + 1 /\ Resting
  /\ building' = building + 1
  /\ UNCHANGED <<tree, said, table, channel, processor, registry, bindings, writers, last, left>>
-----------------------------------------------------------------------------
(* The processor *)

Heard(old, batch) ==
  [old EXCEPT ![batch.layer] = [p \in Paths |->
    IF Saying(p, batch.events) = {} THEN @[p] ELSE Latest(p, batch.events)]]

ApplyBatch ==
  /\ processor.at = "idle" /\ channel # <<>>
  /\ tree' = AppliedBatch(tree, Head(channel))
  /\ said' = Heard(said, Head(channel))
  /\ processor' = [processor EXCEPT !.at = "applied"]
  /\ channel' = Tail(channel)
  /\ last' = IF Decode(tree', "default") = Absent THEN last ELSE Decode(tree', "default")
  /\ UNCHANGED <<table, building, registry, bindings, writers, left>>

\* Mutant: the refreshers of required bindings were never registered.
AliveOptional(refresher) ==
  ~refresher.required /\ refresher.gen = bindings[refresher.of].gen /\ bindings[refresher.of].at = "bound"

Alive(refresher) ==
  LET binding == bindings[refresher.of]
  IN  /\ refresher.gen = binding.gen
      /\ binding.at \in IF refresher.required THEN {"required"} ELSE {"bound", "checked"}

\* The refreshers that are alive are held until each has been refreshed.  A binding whose
\* owner has read an older snapshot and is not registered yet misses the batch.
RefreshAll ==
  /\ processor.at = "applied"
  /\ registry' = Picked(registry, {refresher \in Range(registry) : Alive(refresher)})
  /\ processor' = IF registry' = <<>> THEN [at |-> "idle", todo |-> <<>>]
                  ELSE [at |-> "refreshing", todo |-> registry']
  /\ bindings' = [b \in Bindings |->
       [bindings[b] EXCEPT !.missed = \/ bindings[b].at = "read" /\ bindings[b].value # Decode(tree, b)
                                      \/ bindings[b].at \in {"bound", "checked", "required"} /\ @]]
  /\ UNCHANGED <<tree, said, table, channel, building, writers, last, left>>

\* OptionalRefresher stores what it finds, RequiredRefresher keeps the last value.  One of the
\* first sort that was alive as a binding was looked at or promoted may still take its value.
RefreshFrom(refresher, next) ==
  LET b == refresher.of
  IN  IF refresher.gen # bindings[b].gen \/ (refresher.required /\ next = Absent) THEN bindings
      ELSE [bindings EXCEPT ![b].value = next, ![b].tick = @ + 1,
                            ![b].missed = bindings[b].at \in {"checked", "required"} /\ next = Absent]

Refresh ==
  /\ processor.at = "refreshing"
  /\ LET refresher == Head(processor.todo)
     IN  bindings' = RefreshFrom(refresher, Decode(tree, refresher.of))
  /\ processor' = IF Len(processor.todo) = 1 THEN [at |-> "idle", todo |-> <<>>]
                  ELSE [processor EXCEPT !.todo = Tail(@)]
  /\ UNCHANGED <<tree, said, table, channel, building, registry, writers, last, left>>
-----------------------------------------------------------------------------
(* ConfigHandle::bind reads the snapshot and then registers; required() looks at the      *)
(* value, then registers its own refresher and drops the optional one.                    *)

BindRead(b) ==
  /\ Built /\ bindings[b].at = "none" /\ ~Undecodable(tree, b)
  /\ bindings' = [bindings EXCEPT ![b] =
       [at |-> "read", value |-> Decode(tree, b), tick |-> 0, gen |-> @.gen + 1, missed |-> FALSE]]
  /\ UNCHANGED <<tree, said, table, channel, processor, building, registry, writers, last>>

Registers(b, required, at) ==
  /\ registry' = Append(registry, [of |-> b, gen |-> bindings[b].gen, required |-> required])
  /\ bindings' = [bindings EXCEPT ![b].at = at]
  /\ UNCHANGED <<tree, said, table, channel, processor, building, writers, last>>

BindRegister(b) == bindings[b].at = "read" /\ Registers(b, FALSE, "bound")

RequiredCheck ==
  /\ bindings["default"].at = "bound" /\ bindings["default"].value # Absent
  /\ bindings' = [bindings EXCEPT !["default"].at = "checked"]
  /\ UNCHANGED <<tree, said, table, channel, processor, building, registry, writers, last, left>>

RequiredRegister ==
  /\ bindings["default"].at = "checked" /\ Registers("default", TRUE, "required") /\ UNCHANGED left

\* The owner drops a binding: its refresher dies, or does once the processor lets go of it.
Unbound(b) == [bindings EXCEPT ![b].at = "none", ![b].gen = @ + 1]
-----------------------------------------------------------------------------
(* SessionConfigWriter::write: the rows, then the events. *)

Written(events) ==
  [p \in Paths |-> IF Saying(p, events) = {} THEN table[p] ELSE Latest(p, events)]

\* The statements are not one transaction: an error leaves those before it done, and
\* nothing is sent.
WriteRows(w) ==
  /\ Built /\ writers[w] = <<>> /\ Spend("writes")
  /\ \E events \in Writes :
       \/ /\ table' = Written(events)
          /\ writers' = [writers EXCEPT ![w] = events]
       \/ /\ \E n \in 0..(Len(events) - 1) : table' = Written(SubSeq(events, 1, n))
          /\ UNCHANGED writers
  /\ UNCHANGED <<tree, said, channel, processor, building, registry, bindings, last>>

WriteSend(w) ==
  /\ writers[w] # <<>>
  /\ channel' = Append(channel, Batch(Session, writers[w]))
  /\ writers' = [writers EXCEPT ![w] = <<>>]
  /\ UNCHANGED <<tree, said, table, processor, building, registry, bindings, last, left>>
-----------------------------------------------------------------------------
ConfigNext ==
  \/ Load \/ BarrierPassed \/ ApplyBatch \/ RefreshAll \/ Refresh
  \/ RequiredCheck \/ RequiredRegister
  \/ \E w \in 1..2 : WriteRows(w) \/ WriteSend(w)
-----------------------------------------------------------------------------
(* What the layers say of a path: the last one that says something other than Null wins.    *)
Top(p) ==
  LET set == {l \in Layers : said[l][p] # Null}
  IN  IF set = {} THEN Null ELSE said[CHOOSE l \in set : \A k \in set : k <= l][p]
SaidLeaf(p) == IF Top(p) \in {Null, Bad} THEN Absent ELSE <<Top(p)>>
SaidModels ==
  LET all == [name \in {n \in ModelNames : Top(Model(n)) # Null} |-> SaidLeaf(Model(name))]
  IN  IF \E name \in DOMAIN all : all[name] = Absent THEN {Absent}
      ELSE IF DOMAIN all = {} THEN {Absent, <<all>>} ELSE {<<all>>}

IsSaid(b, value) ==
  CASE b = "keys"    -> {id \in Ids : Top(Kind(id)) # Null}
                          \subseteq IF value = Absent THEN {} ELSE value[1]
    [] b = "models"  -> value \in SaidModels
    [] b = "entry"   -> value = SaidLeaf(Kind("a"))
    [] b = "default" -> value = SaidLeaf(Model("default"))

(* With everything at rest a binding has what the layers say, however batches have grown   *)
(* and pruned the tree (config.rs) and whatever was applied while it was made (binding.rs,  *)
(* from_snapshot, refresh_from); one that missed a batch has it again from the next one     *)
(* that it takes.  A required binding has, as long as the layers name no model, the last    *)
(* model that they named.  Missed is also a value that an optional refresher took away as   *)
(* the binding was promoted: see RequiredIsSticky.  An id that was unset while it was not   *)
(* there may be listed as well, and models may be none, not absent (config.rs:139).         *)
BindingsFollow ==
  Resting => \A b \in Bindings :
    bindings[b].at \in {"bound", "checked", "required"} /\ ~bindings[b].missed
      => \/ IsSaid(b, bindings[b].value)
         \/ /\ bindings[b].at = "required" /\ SaidLeaf(Model("default")) = Absent
            /\ bindings[b].value # Absent /\ bindings[b].value = last

(* "Required bindings are sticky on absence and never observe a `None` after promotion"     *)
(* (binding.rs, RequiredConfigBinding::get, which expects a value).                         *)
RequiredIsSticky == bindings["default"].at = "required" => bindings["default"].value # Absent
=============================================================================
