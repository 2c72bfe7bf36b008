------------------------------- MODULE Plugins --------------------------------
(***************************************************************************)
(* Plugins (hestia/plugins): a registry of plugins whose handlers it calls *)
(* at the hooks.  A handler is the plugin author's code and may itself use *)
(* the registry, while the loop that called it goes on: the calls under    *)
(* way are a stack.                                                        *)
(***************************************************************************)
EXTENDS Integers, Sequences, FiniteSets, SequencesExt

CONSTANTS
    PluginObjects,
    NameOf,         \* "" for a plugin without a name
    Hooks,          \* hooks that execute_hooks is called for
    Handlers,       \* the number of handlers of a plugin for a hook
    Files,          \* for each file of the directory, in order, the instances
                    \* that may be made of the plugin class that it defines;
                    \* {} if it cannot be loaded
    MaxDepth,       \* bound: calls on the stack
    MaxSlots        \* bound: entries, deleted ones included
                    \* (bounded by Files, too: how often a file is loaded)

Lifecycle == {"on_load", "on_shutdown"}

ASSUME PluginsAssumption ==
    /\ {"gone", "none"} \cap PluginObjects = {}
    /\ NameOf \in [PluginObjects -> STRING]
    /\ Handlers \in [PluginObjects -> [Hooks \cup Lifecycle -> Nat]]
    /\ Files \in Seq(SUBSET PluginObjects)
    /\ MaxDepth \in Nat /\ MaxSlots \in Nat

VARIABLES
    slots,    \* _plugins, as the entries of the dictionary in their order, with
              \* "gone" where one was deleted under a loop
    enabled,  \* the plugins that are enabled
    made,     \* the plugins with a name that have been made
    stack,    \* the loops under way, the innermost last
    owed      \* history: plugins that entered the registry, and have neither
              \* been shut down nor replaced since

vars == <<slots, enabled, made, stack, owed>>

HaveName == {p \in PluginObjects : NameOf[p] # ""}

Init ==
    /\ slots = <<>> /\ enabled = PluginObjects
    /\ made = {p \in HaveName : \A i \in DOMAIN Files : p \notin Files[i]}
    /\ stack = <<>> /\ owed = {}

------------------------------------------------------------------------------
Entries == {i \in DOMAIN slots : slots[i] # "gone"}
Registered == {slots[i] : i \in Entries}
Named(name) == {i \in Entries : NameOf[slots[i]] = name}

Top == Last(stack)

(* A frame is a loop over the handlers of a plugin for a hook, within one  *)
(* over the entries (execute_hooks), or over the files (load_all).         *)
Frame(kind, hook, plugin) ==
    [kind |-> kind, hook |-> hook, plugin |-> plugin,
     at |-> 0,             \* entry or file
     called |-> 0,         \* handlers of plugin called so far
     running |-> FALSE,    \* one of them is
     size |-> IF kind = "execute" THEN Cardinality(Entries) ELSE 0,
     due |-> IF kind = "execute" THEN Registered \cap enabled ELSE {}]
         \* history: plugins registered and enabled all along whose turn is still
         \* to come; none when a plugin came or went

Push(frame) == stack' = Append(stack, frame)

(* Who calls the registry: the program, or the handler that is running.    *)
Calling == stack # <<>> => Top.running
Replace(frame) == [stack EXCEPT ![Len(stack)] = frame]

(* What the loops under way see of a change of the registry.               *)
Seen(frames, still) == [i \in DOMAIN frames |-> [frames[i] EXCEPT !.due = @ \cap still]]

(* _call_hooks, for a plugin that is enabled (and a loop that does not end *)
(* at once).                                                               *)
CallHooks(frames, plugin, hook) ==
    IF plugin \in enabled' /\ Handlers[plugin][hook] > 0
    THEN Append(frames, Frame("lifecycle", hook, plugin)) ELSE frames

Iterating == \E i \in DOMAIN stack : stack[i].kind = "execute"

(* Deleted entries matter only to loops.                                   *)
Compact(entries) ==
    LET left[n \in 0 .. Len(entries)] ==
            IF n = 0 THEN <<>>
            ELSE IF entries[n] = "gone" THEN left[n - 1]
            ELSE Append(left[n - 1], entries[n])
    IN  left[Len(entries)]

(* A dictionary that has to grow drops them under a loop, too.             *)
Grown == {slots, Compact(slots)}

------------------------------------------------------------------------------
(* Fault: an entry of the name stays.                                      *)
RegisterTwice(plugin, frames) ==
    /\ slots' = Append(slots, plugin)
    /\ stack' = CallHooks(Seen(frames, {}), plugin, "on_load")
    /\ owed' = owed \cup {plugin}

(* register, after the name was checked: an entry of the name is           *)
(* overwritten in its place; whoever was there is not told.                *)
Register(plugin, frames) ==
    LET places == Named(NameOf[plugin])
    IN  /\ IF places # {}
           THEN slots' = [i \in DOMAIN slots |-> IF i \in places THEN plugin ELSE slots[i]]
           ELSE \E entries \in Grown : /\ Len(entries) < MaxSlots
                                      /\ slots' = Append(entries, plugin)
        /\ stack' = CallHooks(Seen(frames, IF places = {} THEN {}
                                           ELSE {p \in PluginObjects : NameOf[p] # NameOf[plugin]}),
                              plugin, "on_load")
        /\ owed' = {p \in owed : NameOf[p] # NameOf[plugin]} \cup {plugin}

RegisterCalled(plugin) ==
    /\ Calling /\ plugin \in made
    /\ UNCHANGED <<enabled, made>>
    /\ Register(plugin, stack)
    /\ Len(stack') <= MaxDepth

(* Fault: the shutdown hooks are called first.                             *)
UnregisterLate(name) ==
    /\ Calling
    /\ UNCHANGED <<slots, enabled, made>>
    /\ \E i \in Named(name) :
          /\ stack' = CallHooks(stack, slots[i], "on_shutdown")
          /\ owed' = owed \ {slots[i]}
    /\ Len(stack') <= MaxDepth

(* unregister: the plugin is taken out, then told if it is enabled.        *)
Unregister(name) ==
    /\ Calling
    /\ UNCHANGED <<enabled, made>>
    /\ \E i \in Named(name) :
          /\ slots' = IF Iterating THEN [slots EXCEPT ![i] = "gone"]
                      ELSE Compact([slots EXCEPT ![i] = "gone"])
          /\ stack' = CallHooks(Seen(stack, {}),
                                slots[i], "on_shutdown")
          /\ owed' = owed \ {slots[i]}
    /\ Len(stack') <= MaxDepth

SetEnabled(plugin) ==
    /\ Calling /\ plugin \in made
    /\ \/ plugin \notin enabled /\ enabled' = enabled \cup {plugin}
       \/ plugin \in enabled /\ enabled' = enabled \ {plugin}
    /\ stack' = Seen(stack, enabled')
    /\ UNCHANGED <<slots, made, owed>>

ExecuteHooks(hook) ==
    /\ Calling /\ Len(stack) < MaxDepth
    /\ Push(Frame("execute", hook, "none"))
    /\ UNCHANGED <<slots, enabled, made, owed>>

(* The instances of a file that are left for the calls under way.          *)
Left(i) == {p \in Files[i] : p \notin made}
Loading(i) == {k \in DOMAIN stack : stack[k].kind = "load" /\ stack[k].at < i}

LoadAll ==
    /\ \A i \in DOMAIN Files :
          Files[i] # {} => Cardinality(Loading(i)) < Cardinality(Left(i))
    /\ Calling /\ Len(stack) + 1 < MaxDepth
    /\ Push(Frame("load", "none", "none"))
    /\ UNCHANGED <<slots, enabled, made, owed>>

------------------------------------------------------------------------------
(* The loops go on when no handler runs.                                   *)

HandlersLeft(frame) ==
    frame.kind # "load" /\ frame.plugin # "none"
    /\ frame.called < Handlers[frame.plugin][frame.hook]

CallHandler ==
    /\ stack # <<>> /\ ~Top.running /\ HandlersLeft(Top)
    /\ stack' = Replace([Top EXCEPT !.running = TRUE, !.called = @ + 1])
    /\ UNCHANGED <<slots, enabled, made, owed>>

(* Fault: an exception ends the loop over the plugin's handlers and the    *)
(* one over the plugins.                                                   *)
HandlerRaisesThrough ==
    /\ stack # <<>> /\ Top.running
    /\ stack' = Front(stack)
    /\ UNCHANGED <<slots, enabled, made, owed>>

(* A handler returns or raises: the loop goes on.                          *)
HandlerEnds ==
    /\ stack # <<>> /\ Top.running
    /\ stack' = Replace([Top EXCEPT !.running = FALSE])
    /\ UNCHANGED <<slots, enabled, made, owed>>

(* A call is over: whoever made it goes on, or, if it raised and he does   *)
(* not catch that, ends.                                                   *)
Return == stack' = Front(stack)

Raise ==
    \/ stack' = Front(stack)
    \/ /\ Len(stack) > 1
       /\ stack' = [Front(stack) EXCEPT ![Len(stack) - 1].running = FALSE]

EndLifecycle ==
    /\ stack # <<>> /\ Top.kind = "lifecycle" /\ ~Top.running /\ ~HandlersLeft(Top)
    /\ Return
    /\ UNCHANGED <<slots, enabled, made, owed>>

After(frame) == {i \in Entries : i > frame.at}

(* The next entry; a plugin that is not enabled is passed over.  (What was *)
(* last visited is complete now.)                                          *)
NextEntry ==
    /\ stack # <<>> /\ Top.kind = "execute" /\ ~Top.running /\ ~HandlersLeft(Top)
    /\ Top.size = Cardinality(Entries)
    /\ LET i == CHOOSE i \in After(Top) : \A j \in After(Top) : i <= j
       IN  /\ After(Top) # {}
           /\ stack' = Replace([Top EXCEPT
                 !.at = i, !.called = 0, !.due = @ \ {Top.plugin},
                 !.plugin = IF slots[i] \in enabled THEN slots[i] ELSE "none"])
    /\ UNCHANGED <<slots, enabled, made, owed>>

EndExecute ==
    /\ stack # <<>> /\ Top.kind = "execute" /\ ~Top.running /\ ~HandlersLeft(Top)
    /\ Top.size = Cardinality(Entries) /\ After(Top) = {}
    /\ Return
    /\ slots' = IF \E i \in 1 .. Len(stack) - 1 : stack[i].kind = "execute"
                THEN slots ELSE Compact(slots)
    /\ UNCHANGED <<enabled, made, owed>>

(* RuntimeError: the dictionary changed its size.  It is raised outside    *)
(* the try of execute_hooks.                                               *)
ExecuteRaises ==
    /\ stack # <<>> /\ Top.kind = "execute" /\ ~Top.running /\ ~HandlersLeft(Top)
    /\ Top.size # Cardinality(Entries)
    /\ Raise
    /\ slots' = IF \E i \in 1 .. Len(stack) - 1 : stack[i].kind = "execute"
                THEN slots ELSE Compact(slots)
    /\ UNCHANGED <<enabled, made, owed>>

(* load_all takes the next file: a new instance of the first Plugin class  *)
(* in it is registered; one without a name, or no class, is logged.        *)
NextFile ==
    /\ stack # <<>> /\ Top.kind = "load" /\ Top.at < Len(Files)
    /\ UNCHANGED enabled
    /\ LET i == Top.at + 1
           frames == Replace([Top EXCEPT !.at = i])
       IN  \/ \E plugin \in Left(i) \cap HaveName :
                 /\ made' = made \cup {plugin}
                 /\ Register(plugin, frames)
           \/ /\ Files[i] \cap HaveName = {}
              /\ stack' = frames
              /\ UNCHANGED <<slots, made, owed>>

EndLoad ==
    /\ stack # <<>> /\ Top.kind = "load" /\ Top.at = Len(Files)
    /\ Return
    /\ UNCHANGED <<slots, enabled, made, owed>>

Next ==
    \/ \E p \in HaveName : RegisterCalled(p) \/ Unregister(NameOf[p]) \/ SetEnabled(p)
    \/ \E h \in Hooks : ExecuteHooks(h)
    \/ LoadAll \/ CallHandler \/ HandlerEnds \/ EndLifecycle
    \/ NextEntry \/ EndExecute \/ ExecuteRaises \/ NextFile \/ EndLoad

Spec == Init /\ [][Next]_vars

------------------------------------------------------------------------------
Frames ==
    [kind : {"execute", "lifecycle", "load"},
     hook : Hooks \cup Lifecycle \cup {"none"}, plugin : PluginObjects \cup {"none"},
     at : Nat, called : Nat, running : BOOLEAN, size : Nat, due : SUBSET PluginObjects]

(* The shape of the state; no two entries have one name, deleted ones are  *)
(* there only under a loop, and only a loop over files goes on without a   *)
(* handler under loops further in.                                         *)
TypeOK ==
    /\ slots \in Seq(PluginObjects \cup {"gone"})
    /\ \A i, j \in Entries : NameOf[slots[i]] = NameOf[slots[j]] => i = j
    /\ Registered # Range(slots) => Iterating
    /\ enabled \subseteq PluginObjects /\ owed \subseteq PluginObjects
    /\ made \subseteq HaveName /\ Registered \subseteq made
    /\ stack \in Seq(Frames) /\ Len(stack) <= MaxDepth
    /\ \A i \in DOMAIN stack :
          i < Len(stack) => stack[i].running \/ stack[i].kind = "load"

(* "If a handler raises, the error is logged and other handlers continue"  *)
(* (registry.py:69).  Unless plugins come or go meanwhile, execute_hooks   *)
(* calls all handlers of every plugin that is registered and enabled all   *)
(* along, whatever the handlers do, nested calls included.  If they do, it *)
(* raises or may pass over some.                                           *)
HandlersReached ==
    [][Len(stack') < Len(stack) /\ Top.kind = "execute"
       => Top.due = {} \/ (Top.due = {Top.plugin} /\ ~HandlersLeft(Top))]_vars

(* A plugin is shut down at most once each time it is registered, also if  *)
(* its shutdown handler uses the registry; one that was replaced by        *)
(* another of its name is never shut down (unregister, register).          *)
ShutDownOnce ==
    [][/\ Len(stack') > Len(stack)
       /\ Last(stack').kind = "lifecycle" /\ Last(stack').hook = "on_shutdown"
       => Last(stack').plugin \in owed]_vars

==============================================================================
