--------------------------- MODULE ProviderCache ---------------------------
(***************************************************************************)
(* The cache of constructed providers and the chat manager that asks it    *)
(* for one (frances-llm: provider_cache.rs, chat/manager.rs), over the     *)
(* configuration.  Session::create makes the bindings in order; afterwards *)
(* a completion resolves a model and gets its provider, while the          *)
(* processor refreshes the bindings it looks at.                           *)
(*                                                                         *)
(* A provider is the value its entry had as it was built, or Absent.  All  *)
(* models name the provider "a".                                           *)
(***************************************************************************)
EXTENDS Configuration

VARIABLES
  cache,  \* Inner: the id set last seen, how far its stream is drained, the entry
  call    \* the completion in progress and what it has come to

cacheVars == <<cache, call>>

NoCall == [at |-> "idle", name |-> "", model |-> Absent, provider |-> Absent, quiet |-> TRUE]
\* stale and listed are history: a change came as the entry was made; since it was made, or
\* just before, its id was among those the cache looked at.
NoEntry == [provider |-> Absent, seen |-> 0, stale |-> FALSE, listed |-> FALSE]

CacheInit ==
  /\ cache = [fired |-> TRUE, seen |-> 0, keys |-> {}, filled |-> FALSE, entry |-> NoEntry]
  /\ call = NoCall

\* Session::create binds and promotes the default model, then makes the cache, then the manager.
CreationOrder == <<"default", "keys", "models">>

Bind ==
  /\ \E k \in DOMAIN CreationOrder :
       /\ \A j \in 1..(k - 1) :
            bindings[CreationOrder[j]].at = IF j = 1 THEN "required" ELSE "bound"
       /\ BindRead(CreationOrder[k])
  /\ UNCHANGED <<cacheVars, left>>

Register ==
  /\ \E b \in {"default", "keys", "models"} : BindRegister(b)
  /\ UNCHANGED <<cacheVars, left>>

Created == bindings["models"].at = "bound"

Steps(at) == call' = [call EXCEPT !.at = at]
Returns(provider) == call' = [call EXCEPT !.at = "returned", !.provider = provider]
ConfigStays == UNCHANGED <<configVars, left>>
-----------------------------------------------------------------------------
(* The manager: complete resolves the first intent that is a model, and then looks the    *)
(* model up again; without it, the default model is taken.                                *)

Complete ==
  /\ Created /\ call.at \in {"idle", "returned"} /\ Spend("calls")
  /\ LET models == bindings["models"].value
     IN  call' = [NoCall EXCEPT !.at = "model", !.quiet = Resting /\ writers = [w \in 1..2 |-> <<>>],
                    !.name = IF models # Absent /\ "fast" \in DOMAIN models[1] THEN "fast" ELSE "default"]
  /\ UNCHANGED <<configVars, cache>>

ModelFor ==
  /\ call.at = "model"
  /\ LET models == bindings["models"].value
     IN  call' = [call EXCEPT !.at = "drain",
                    !.model = IF models # Absent /\ call.name \in DOMAIN models[1]
                              THEN models[1][call.name] ELSE bindings["default"].value]
  /\ UNCHANGED cache /\ ConfigStays
-----------------------------------------------------------------------------
(* ProviderCache::get *)

\* refresh_id_set drains the stream of ids, ...
DrainIds ==
  /\ call.at = "drain"
  /\ cache' = [cache EXCEPT !.fired = @ \/ bindings["keys"].tick > cache.seen,
                            !.seen = bindings["keys"].tick]
  /\ Steps("ids") /\ ConfigStays

\* Mutant: the two sets are compared the wrong way round.
ForgetAdded(ids) ==
  [cache EXCEPT !.fired = FALSE, !.keys = ids,
                !.filled = @ /\ "a" \notin ids \ cache.keys, !.entry.listed = @ \/ "a" \in ids]

\* ... and if anything came, removes the entries of the ids that are gone.
Forget(ids) ==
  [cache EXCEPT !.fired = FALSE, !.keys = ids,
                !.filled = @ /\ "a" \notin cache.keys \ ids, !.entry.listed = @ \/ "a" \in ids]

IdSet == IF bindings["keys"].value = Absent THEN {} ELSE bindings["keys"].value[1]

RefreshIdSet ==
  /\ call.at = "ids"
  /\ cache' = IF cache.fired THEN Forget(IdSet) ELSE cache
  /\ bindings' = IF cache.filled /\ ~cache'.filled THEN Unbound("entry") ELSE bindings
  /\ Steps("entry")
  /\ UNCHANGED <<tree, said, table, channel, processor, building, registry, writers, last, left>>

\* An entry drains the stream of its configuration, ...
DrainEntry ==
  /\ call.at = "entry" /\ cache.filled
  /\ IF bindings["entry"].tick > cache.entry.seen
     THEN cache' = [cache EXCEPT !.entry.seen = bindings["entry"].tick] /\ Steps("rebuild")
     ELSE UNCHANGED cache /\ Returns(cache.entry.provider)
  /\ ConfigStays

\* ... and builds a new provider if anything came.  It keeps the old one if that fails.
Rebuild ==
  /\ call.at = "rebuild"
  /\ LET found == bindings["entry"].value
         provider == IF found = Absent THEN cache.entry.provider ELSE found
     IN  /\ cache' = [cache EXCEPT !.entry.provider = provider, !.entry.stale = FALSE]
         /\ Returns(provider)
  /\ ConfigStays

\* Without an entry: bind, ...
BindEntry ==
  /\ call.at = "entry" /\ ~cache.filled
  /\ IF Undecodable(tree, "entry")
     THEN Returns(Absent) /\ UNCHANGED configVars
     ELSE BindRead("entry") /\ Steps("register")
  /\ UNCHANGED <<cache, left>>

RegisterEntry ==
  /\ call.at = "register" /\ BindRegister("entry") /\ Steps("build")
  /\ UNCHANGED <<cache, left>>

\* ... build a provider from what is bound, ...
BuildEntry ==
  /\ call.at = "build"
  /\ IF bindings["entry"].value = Absent
     THEN /\ bindings' = Unbound("entry") /\ Returns(Absent) /\ UNCHANGED cache
     ELSE /\ cache' = [cache EXCEPT !.entry = [NoEntry EXCEPT
                        !.provider = bindings["entry"].value, !.listed = "a" \in cache.keys]]
          /\ Steps("subscribe") /\ UNCHANGED bindings
  /\ UNCHANGED <<tree, said, table, channel, processor, building, registry, writers, last, left>>

\* ... and subscribe: a refresh since the build is not seen.
SubscribeEntry ==
  /\ call.at = "subscribe"
  /\ cache' = [cache EXCEPT !.filled = TRUE, !.entry.seen = bindings["entry"].tick,
                            !.entry.stale = bindings["entry"].value # cache.entry.provider]
  /\ Returns(cache.entry.provider) /\ ConfigStays
-----------------------------------------------------------------------------
Completing ==
  \/ Complete \/ ModelFor \/ DrainIds \/ RefreshIdSet \/ DrainEntry \/ Rebuild
  \/ BindEntry \/ RegisterEntry \/ BuildEntry \/ SubscribeEntry

\* The configuration moves on under a call, which is then no longer quiet.
ConfigMoves ==
  /\ ConfigNext /\ UNCHANGED cache
  /\ call' = [call EXCEPT !.quiet = FALSE]

ProvidersInit == ConfigInit /\ CacheInit /\ BudgetsGiven
ProvidersNext == Bind \/ Register \/ Completing \/ ConfigMoves

providerVars == <<configVars, cacheVars, left>>

ProvidersSpec == ProvidersInit /\ [][ProvidersNext]_providerVars
-----------------------------------------------------------------------------
(* A call that runs while the configuration is at rest gets the provider that the          *)
(* configuration asks for: none if the id is gone from it, the one it describes, or, as    *)
(* long as it describes none that can be built, the last one that could.  Exempt are       *)
(* changes that come just as the binding or the entry is made, until the next one, and an  *)
(* id that comes and goes between two looks at the set of ids, whose entry stays           *)
(* (provider_cache.rs, get).                                                               *)
ReturnsCurrent ==
  call.at = "returned" /\ call.quiet
    /\ ~bindings["keys"].missed /\ ~bindings["entry"].missed /\ ~cache.entry.stale
    => LET ids == Decode(tree, "keys")
           wanted == Decode(tree, "entry")
       IN  IF ids = Absent \/ "a" \notin ids[1] THEN cache.entry.listed => call.provider = Absent
           ELSE wanted # Absent => call.provider = wanted
=============================================================================
