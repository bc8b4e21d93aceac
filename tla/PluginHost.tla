----------------------------- MODULE PluginHost -----------------------------
(***************************************************************************)
(* The plugin host: the event bus (plugin/event.rs), the registry that      *)
(* loads and unloads plugins (plugin/registry.rs), the two kinds of plugin  *)
(* (plugin/native.rs, plugin/scripted.rs) and their contexts                *)
(* (plugin/context.rs).                                                     *)
(*                                                                          *)
(* One thread, the host, runs load_dir once and then unload_all, or drops   *)
(* the registry; the publishers are the other threads that hold the bus.   *)
(* What a file turns out to be (fate) is chosen at the start.  A plugin is  *)
(* named by its file.                                                       *)
(***************************************************************************)
EXTENDS Naturals, Sequences, FiniteSets, SequencesExt

CONSTANTS
  Dir,         \* the plugin files in the order of their names
  Scripts,     \* the .rhai files; the others are .so libraries
  IdOf,        \* the id every file declares
  Asks,        \* the filters every plugin subscribes to in init, in order
  Values,      \* for each kind of event the hooks know, what it can carry
  Publishers,
  MaxPublish,  \* bound: calls of publish
  None

Files == Range(Dir)
Place(f) == CHOOSE i \in DOMAIN Dir : Dir[i] = f
Kinds == DOMAIN Values
Filters == Kinds \cup {"All"}
Events == UNION {[kind : {k}, value : Values[k]] : k \in Kinds}

\* How loading a file ends: the library or script cannot be used, init returns
\* an error or panics (the registry does the same for both), or all is well.
Fates == {"unusable", "error", "fine"}

Hooks == "hooks"
HookKinds == {"ProfileChanged", "GameLaunching"}

\* A directory lists a name once.
ASSUME DirAssumption == Dir \in Seq(Files) /\ IsInjective(Dir)
ASSUME HostAssumption ==
  /\ HookKinds \subseteq Kinds /\ \A k \in Kinds : None \notin Values[k]
  /\ Hooks \notin Files /\ None \notin Publishers /\ None \notin Events
  /\ MaxPublish \in Nat
Subscriptions == [id : Nat, owner : Files \cup {Hooks}, filter : Filters]
Idle == [event |-> None, left |-> {}, gone |-> {}]

VARIABLES
  fate,        \* what each file turns out to be
  nextId,      \* EventBus.next_id
  subs,        \* EventBus.subscribers
  busLock,     \* who holds the subscribers mutex
  plugins,     \* PluginRegistry.plugins
  contexts,    \* PluginRegistry.contexts
  listLock,    \* who holds the contexts mutex, and what it still has to update
  ctx,         \* the fields of every PluginContext that the hooks update
  seen,        \* load_dir: the files whose ids are taken
  host,        \* where the host thread is
  call,        \* the publish call of every publisher, with who was gone when it began
  published,   \* calls of publish so far
  announced,   \* last event of each kind a publisher gave to the hooks
  life         \* how far each plugin has come

busVars == <<nextId, subs, busLock>>
registryVars == <<plugins, contexts, listLock, ctx, seen>>
vars == <<fate, nextId, subs, busLock, plugins, contexts, listLock, ctx, seen,
          host, call, published, announced, life>>

Init ==
  /\ fate \in [Files -> Fates]
  /\ nextId = 0 /\ subs = {} /\ busLock = None
  /\ plugins = <<>> /\ contexts = <<>>
  /\ listLock = [by |-> None, left |-> <<>>]
  /\ ctx = [f \in Files |-> [k \in Kinds |-> None]]
  /\ seen = {}
  /\ host = [at |-> "start", files |-> <<>>, asks |-> <<>>]
  /\ call = [t \in Publishers |-> Idle]
  /\ published = 0
  /\ announced = [t \in Publishers |-> [k \in Kinds |-> None]]
  /\ life = [f \in Files |-> "file"]

(***************************************************************************)
(* The bus.                                                                 *)
(***************************************************************************)
Matches(filter, event) == filter \in {"All", event.kind}
OwnedBy(o) == {s \in subs : s.owner = o}

\* Who has been on the bus and is not coming back: the plugins that were refused,
\* unloaded or dropped, and the hooks after an unload.
Gone ==
  {f \in Files : life[f] # "file" /\ f \notin Range(plugins)}
    \cup {o \in {Hooks} : host.at \in {"unload", "drop", "end"} /\ OwnedBy(o) = {}}

Subscribe(o, filter) ==
  /\ busLock = None
  /\ subs' = subs \cup {[id |-> nextId, owner |-> o, filter |-> filter]}
  /\ nextId' = nextId + 1

\* Dropping a SubscriptionHandle.
Unsubscribe(s) ==
  /\ busLock = None
  /\ subs' = subs \ {s}
  /\ UNCHANGED nextId

Publish(t) ==
  /\ call[t] = Idle /\ busLock = None /\ published < MaxPublish
  /\ \E e \in Events : call' = [call EXCEPT ![t] = [event |-> e, left |-> {}, gone |-> Gone]]
  /\ busLock' = t
  /\ published' = published + 1
  /\ UNCHANGED <<fate, nextId, subs, registryVars, host, announced, life>>

\* Mutant of Collected: the mutex stays locked while the handlers run.
CollectedKept(t) == t

\* The mutex is released with the list in hand, before any handler runs.
Collected(t) == None

Collect(t) ==
  /\ busLock = t
  /\ LET e == call[t].event
         matching == {s \in subs : Matches(s.filter, e)}
     IN /\ call' = [call EXCEPT ![t].left = matching,
                                ![t].gone = @ \cap {s.owner : s \in matching}]
        /\ announced' = IF \E s \in matching : s.owner = Hooks
                          THEN [announced EXCEPT ![t][e.kind] = e.value]
                          ELSE announced
  /\ busLock' = Collected(t)
  /\ UNCHANGED <<fate, nextId, subs, registryVars, host, published, life>>

\* Mutant of AfterPanic: a panic of a handler ends the delivery.
AfterPanicStop(left, s) == {}

\* A panic of a handler is caught and the next handler runs.
AfterPanic(left, s) == left \ {s}

\* A plugin's handler: it ends, panics, or drops its own handle (a library may).
RunHandler(t) ==
  /\ busLock # t
  /\ listLock.by # t
  /\ \E s \in call[t].left :
       /\ s.owner # Hooks
       /\ \/ /\ call' = [call EXCEPT ![t].left = @ \ {s}]
             /\ UNCHANGED busVars
          \/ /\ call' = [call EXCEPT ![t].left = AfterPanic(@, s)]
             /\ UNCHANGED busVars
          \/ /\ s.owner \notin Scripts
             /\ Unsubscribe(s)
             /\ call' = [call EXCEPT ![t].left = @ \ {s}]
             /\ UNCHANGED busLock
  /\ UNCHANGED <<fate, registryVars, host, published, announced, life>>

\* A hook locks the list of contexts ...
ListFree == listLock.by = None

StartHook(t) ==
  /\ busLock # t
  /\ ListFree
  /\ \E s \in call[t].left :
       /\ s.owner = Hooks
       /\ call' = [call EXCEPT ![t].left = @ \ {s}]
  /\ listLock' = [by |-> t, left |-> contexts]
  /\ UNCHANGED <<fate, busVars, plugins, contexts, ctx, seen, host, published,
                 announced, life>>

\* ... updates one context after the other, and unlocks it.
RunHook(t) ==
  /\ listLock.by = t
  /\ IF listLock.left = <<>>
       THEN listLock' = [listLock EXCEPT !.by = None] /\ UNCHANGED ctx
       ELSE /\ ctx' = [ctx EXCEPT ![Head(listLock.left)][call[t].event.kind] =
                                    call[t].event.value]
            /\ listLock' = [listLock EXCEPT !.left = Tail(@)]
  /\ UNCHANGED <<fate, busVars, plugins, contexts, seen, host, call, published,
                 announced, life>>

Return(t) ==
  /\ call[t].event # None /\ call[t].left = {}
  /\ t \notin {busLock, listLock.by}
  /\ call' = [call EXCEPT ![t] = Idle]
  /\ UNCHANGED <<fate, busVars, registryVars, host, published, announced, life>>

(***************************************************************************)
(* Loading.  host.files holds the files still to load, its head the current *)
(* one; host.asks what the current plugin still has to subscribe to.        *)
(***************************************************************************)
Current == Head(host.files)
At(step) == host.at = step
Step(step) == host' = [host EXCEPT !.at = step]
NextFile == host' = [host EXCEPT !.at = "load", !.files = Tail(@), !.asks = <<>>]

LoadDir ==
  /\ At("start")
  /\ host' = [host EXCEPT !.at = "load", !.files = Dir]
  /\ UNCHANGED <<fate, busVars, registryVars, call, published, announced, life>>

\* An id is refused when a plugin that came through init has it.
Taken(f) == \E g \in seen : IdOf[g] = IdOf[f]

LoadRefused ==
  /\ At("load") /\ host.files # <<>>
  /\ fate[Current] = "unusable" \/ Taken(Current)
  /\ NextFile
  /\ life' = [life EXCEPT ![Current] = "refused"]
  /\ UNCHANGED <<fate, busVars, registryVars, call, published, announced>>

\* A script subscribes after its init function has returned without an error, a
\* library inside init.
AsksOf(f) == IF f \in Scripts /\ fate[f] # "fine" THEN <<>> ELSE Asks[f]

\* The context gets what load_dir was called with, and init begins.
LoadOne ==
  /\ At("load") /\ host.files # <<>>
  /\ fate[Current] # "unusable" /\ ~Taken(Current)
  /\ host' = [host EXCEPT !.at = "init", !.asks = AsksOf(Current)]
  /\ UNCHANGED <<fate, busVars, registryVars, call, published, announced, life>>

\* A filter name that is not known is skipped.
InitSubscribes ==
  /\ At("init") /\ host.asks # <<>>
  /\ IF Head(host.asks) \in Filters THEN Subscribe(Current, Head(host.asks))
                                    ELSE UNCHANGED <<nextId, subs>>
  /\ host' = [host EXCEPT !.asks = Tail(@)]
  /\ UNCHANGED <<fate, busLock, registryVars, call, published, announced, life>>

\* Only now is the id taken and the plugin in the registry.
InitDone ==
  /\ At("init") /\ host.asks = <<>> /\ fate[Current] = "fine"
  /\ ListFree
  /\ contexts' = Append(contexts, Current)
  /\ plugins' = Append(plugins, Current)
  /\ seen' = seen \cup {Current}
  /\ life' = [life EXCEPT ![Current] = "loaded"]
  /\ NextFile
  /\ UNCHANGED <<fate, busVars, listLock, ctx, call, published, announced>>

\* Mutant of InitFailed: the handles of a plugin that failed are forgotten.
InitFailedLeaks ==
  /\ At("init") /\ fate[Current] # "fine"
  /\ NextFile
  /\ life' = [life EXCEPT ![Current] = "refused"]
  /\ UNCHANGED <<fate, busVars, registryVars, call, published, announced>>

\* A script fails before it subscribes, a library at any point.  The plugin is
\* dropped, and with it its handles, one by one.
InitFailed ==
  /\ At("init") /\ fate[Current] # "fine"
  /\ IF OwnedBy(Current) = {}
       THEN /\ NextFile
            /\ life' = [life EXCEPT ![Current] = "refused"]
            /\ UNCHANGED <<nextId, subs>>
       ELSE /\ \E s \in OwnedBy(Current) : Unsubscribe(s)
            /\ host' = [host EXCEPT !.asks = <<>>]
            /\ UNCHANGED life
  /\ UNCHANGED <<fate, busLock, registryVars, call, published, announced>>

SubscribeHooks ==
  /\ At("load") /\ host.files = <<>>
  /\ LET hooked == {s.filter : s \in OwnedBy(Hooks)}
     IN IF HookKinds \subseteq hooked
          THEN Step("loaded") /\ UNCHANGED <<nextId, subs>>
          ELSE /\ Subscribe(Hooks, IF "ProfileChanged" \notin hooked THEN "ProfileChanged"
                                                                    ELSE "GameLaunching")
               /\ UNCHANGED host
  /\ UNCHANGED <<fate, busLock, registryVars, call, published, announced, life>>

(***************************************************************************)
(* Unloading.                                                               *)
(***************************************************************************)
UnloadAll ==
  /\ At("loaded")
  /\ Step("unhook")
  /\ UNCHANGED <<fate, busVars, registryVars, call, published, announced, life>>

Unhook ==
  /\ At("unhook")
  /\ IF OwnedBy(Hooks) = {}
       THEN Step("unload") /\ UNCHANGED <<nextId, subs>>
       ELSE /\ Unsubscribe(CHOOSE s \in OwnedBy(Hooks) :
                             \A r \in OwnedBy(Hooks) : s.id <= r.id)
            /\ UNCHANGED host
  /\ UNCHANGED <<fate, busLock, registryVars, call, published, announced, life>>

\* drain().rev(): the last plugin is shut down and dropped; both drop handles.
Shutdown ==
  /\ At("unload") /\ plugins # <<>>
  /\ LET f == Last(plugins)
     IN \/ /\ OwnedBy(f) # {}
           /\ \E s \in OwnedBy(f) : Unsubscribe(s)
           /\ UNCHANGED <<plugins, host, life>>
        \/ /\ OwnedBy(f) = {}
           /\ life' = [life EXCEPT ![f] = "shut down"]
           /\ plugins' = Front(plugins)
           /\ UNCHANGED <<nextId, subs, host>>
  /\ UNCHANGED <<fate, busLock, contexts, listLock, ctx, seen, call, published,
                 announced>>

\* A library's shutdown panics: unload_all unwinds, the other plugins are
\* dropped without a shutdown and the contexts stay in the list.
ShutdownPanics ==
  /\ At("unload") /\ plugins # <<>>
  /\ Last(plugins) \notin Scripts
  /\ life' = [life EXCEPT ![Last(plugins)] = "shut down"]
  /\ Step("drop")
  /\ UNCHANGED <<fate, busVars, registryVars, call, published, announced>>

ClearContexts ==
  /\ At("unload") /\ plugins = <<>> /\ ListFree
  /\ contexts' = <<>>
  /\ Step("end")
  /\ UNCHANGED <<fate, busVars, plugins, listLock, ctx, seen, call, published,
                 announced, life>>

\* The registry is dropped: load_plugins of state_worker.rs never unloads.
DropRegistry ==
  /\ At("loaded")
  /\ Step("drop")
  /\ UNCHANGED <<fate, busVars, registryVars, call, published, announced, life>>

\* Its fields go in the order of their declaration: plugins, then the hooks.
DropField ==
  /\ At("drop")
  /\ LET mine == IF plugins # <<>> THEN OwnedBy(Head(plugins)) ELSE OwnedBy(Hooks)
     IN IF mine # {}
          THEN (\E s \in mine : Unsubscribe(s)) /\ UNCHANGED <<plugins, host>>
          ELSE /\ IF plugins # <<>> THEN plugins' = Tail(plugins) /\ UNCHANGED host
                                    ELSE Step("end") /\ UNCHANGED plugins
               /\ UNCHANGED <<nextId, subs>>
  /\ UNCHANGED <<fate, busLock, contexts, listLock, ctx, seen, call, published,
                 announced, life>>

HostStep ==
  \/ LoadDir \/ LoadRefused \/ LoadOne \/ InitSubscribes \/ InitDone \/ InitFailed
  \/ SubscribeHooks \/ Unhook \/ Shutdown \/ ShutdownPanics \/ ClearContexts
  \/ DropField

PublisherStep(t) ==
  Collect(t) \/ RunHandler(t) \/ StartHook(t) \/ RunHook(t) \/ Return(t)

Next ==
  \/ HostStep \/ UnloadAll \/ DropRegistry
  \/ \E t \in Publishers : Publish(t) \/ PublisherStep(t)

\* A thread that has begun a call goes on with it.
Spec ==
  /\ Init /\ [][Next]_vars
  /\ WF_vars(HostStep)
  /\ \A t \in Publishers : WF_vars(PublisherStep(t))

-----------------------------------------------------------------------------
TypeOK ==
  /\ fate \in [Files -> Fates]
  /\ nextId \in Nat /\ subs \subseteq Subscriptions
  /\ busLock \in Publishers \cup {None}
  /\ Range(plugins) \subseteq Files /\ Range(contexts) \subseteq Files
  /\ listLock.by \in Publishers \cup {None} /\ Range(listLock.left) \subseteq Files
  /\ \A f \in Files, k \in Kinds : ctx[f][k] \in Values[k] \cup {None}
  /\ seen \subseteq Files
  /\ host.at \in {"start", "load", "init", "loaded", "unhook", "unload", "drop",
                  "end"}
  /\ Range(host.files) \subseteq Files
  /\ \A t \in Publishers : /\ call[t].event \in Events \cup {None}
                           /\ call[t].left \subseteq Subscriptions
                           /\ call[t].gone \subseteq Files \cup {Hooks}
  /\ published \in 0..MaxPublish
  /\ life \in [Files -> {"file", "refused", "loaded", "shut down"}]

\* What load_dir has loaded when it returns is, of the usable files, the first
\* one of every id, in the order of the names; a file that fails in init keeps
\* no later one with its id out.
IsFirst(f) ==
  fate[f] = "fine" /\ \A g \in Files : fate[g] = "fine" /\ IdOf[g] = IdOf[f] => Place(f) <= Place(g)
FirstOfEachId ==
  At("loaded") =>
    /\ plugins = contexts /\ Range(plugins) = {f \in Files : IsFirst(f)}
    /\ \A i, j \in DOMAIN plugins : i < j => Place(plugins[i]) < Place(plugins[j])

\* Outside of a load and an unload the bus knows nobody but the loaded plugins
\* and the registry's hooks: a plugin whose init failed half-way through its
\* subscriptions, and an unloaded one, leave nothing behind.
SubscribersAreLoaded ==
  At("load") \/ At("loaded") \/ At("end") =>
    \A s \in subs : s.owner \in Range(plugins) \cup IF At("end") THEN {} ELSE {Hooks}

\* Once no publisher is inside a call, the contexts agree on every field, and
\* when an event of its kind has reached the hooks, on the last one of some
\* publisher: no mixture of two changes, no change lost to another handler.
ContextsCurrent ==
  At("loaded") /\ (\A t \in Publishers : call[t] = Idle) =>
    \A k \in Kinds :
      LET heard == {announced[t][k] : t \in Publishers} \ {None}
      IN \E v \in (IF heard = {} THEN {None} ELSE heard) :
           \A f \in Range(contexts) : ctx[f][k] = v

\* Plugins are shut down in the reverse order of loading.
ShutdownInReverse ==
  \A f, g \in Files :
    life[f] = "shut down" /\ life[g] = "loaded" => Place(g) < Place(f)

\* Every publish, load and unload ends, although handlers run on the publishing
\* threads and may change the subscriptions.
CallsReturn ==
  /\ \A t \in Publishers : call[t] # Idle ~> call[t] = Idle
  /\ host.at \in {"load", "init"} ~> At("loaded")
  /\ host.at \in {"unhook", "unload", "drop"} ~> At("end")

\* A publish that begins when a plugin is gone, or when the hooks are, calls
\* none of its handlers.  One that collected the handlers before still calls
\* them: that a plugin is unloaded ends no delivery that is under way.
GoneStaySilent ==
  \A t \in Publishers : \A s \in call[t].left : s.owner \notin call[t].gone

\* The registry holds the plugins it should, and who publishes after one is gone
\* does not reach it.
RegistryHolds ==
  /\ TypeOK /\ FirstOfEachId /\ SubscribersAreLoaded /\ ShutdownInReverse
  /\ GoneStaySilent
=============================================================================
