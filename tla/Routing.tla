------------------------------ MODULE Routing ------------------------------
(***************************************************************************)
(* Who makes a thumbnail: for a group of urls a pool thread asks the       *)
(* manager for a specialized thumbnailer and, if there is none, the        *)
(* thumbnailer's table for a plugin, while the main loop changes both.     *)
(***************************************************************************)
EXTENDS ThumbnailManager, PluginHost, FiniteSets

CONSTANTS
  Thread,
  MaxChanges  \* bound: what clients and administrators do

ASSUME ThreadAssumption == IsFiniteSet(Thread) /\ MaxChanges \in Nat

VARIABLES
  at,    \* [Thread -> {"idle", "proxy", "plugin", "found", "inside"}]
  with,  \* [Thread -> Proxy \cup Plugin \cup Key \cup {None}]: what it uses
  acts   \* for the bound

threadVars == <<at, with>>
vars == <<managerVars, hostVars, threadVars, acts>>

TypeOK ==
  /\ ManagerTypeOK
  /\ HostTypeOK
  /\ at \in [Thread -> {"idle", "proxy", "plugin", "found", "inside"}]
  /\ with \in [Thread -> Proxy \cup Plugin \cup Key \cup {None}]
  /\ \A t \in Thread :
       \/ at[t] = "idle" /\ with[t] = None
       \/ at[t] = "proxy" /\ with[t] \in Proxy
       \/ at[t] = "plugin" /\ with[t] \in Key
       \/ at[t] \in {"found", "inside"} /\ with[t] \in Plugin
  /\ acts \in 0..MaxChanges

Init ==
  /\ ManagerInit
  /\ HostInit
  /\ at = [t \in Thread |-> "idle"]
  /\ with = [t \in Thread |-> None]
  /\ acts = 0

-----------------------------------------------------------------------------
(* A pool thread, in do_the_work.                                            *)

Goto(t, where, what) ==
  /\ at' = [at EXCEPT ![t] = where]
  /\ with' = [with EXCEPT ![t] = what]

AskManager(t, k) ==
  /\ at[t] = "idle"
  /\ stage = "monitoring"
  /\ GetHandler(k)
  /\ IF handlers[k] = None THEN Goto(t, "plugin", k)
                           ELSE Goto(t, "proxy", handlers[k])
  /\ UNCHANGED <<hostVars, acts>>

\* All urls have been sent to the specialized thumbnailer.
DropProxy(t) ==
  /\ at[t] = "proxy"
  /\ Unref(with[t])
  /\ Goto(t, "idle", None)
  /\ UNCHANGED <<hostVars, acts>>

\* get_plugin, or "No handler".
GetPlugin(t) ==
  /\ at[t] = "plugin"
  /\ IF plugins[with[t]] = None THEN Goto(t, "idle", None)
                                ELSE Goto(t, "found", plugins[with[t]])
  /\ UNCHANGED <<managerVars, hostVars, acts>>

\* hildon_thumbnail_plugin_do_create: the mutex is released before the call.
EnterPlugin(t) ==
  /\ at[t] = "found"
  /\ Goto(t, "inside", with[t])
  /\ UNCHANGED <<managerVars, hostVars, acts>>

LeavePlugin(t) ==
  /\ at[t] = "inside"
  /\ Goto(t, "idle", None)
  /\ UNCHANGED <<managerVars, hostVars, acts>>

ThreadStep(t) ==
  \/ \E k \in Key : AskManager(t, k)
  \/ DropProxy(t) \/ GetPlugin(t) \/ EnterPlugin(t) \/ LeavePlugin(t)

-----------------------------------------------------------------------------
(* The main loop, one handler after the other.                               *)

MainIdle == stage = "monitoring" /\ gone = {} /\ stopping = None

\* main: the manager, the plugins, the monitor, then the main loop.
Start ==
  /\ \/ Check /\ UNCHANGED hostVars
     \/ /\ scans = <<>>
        /\ InitPlugins
        /\ IHave(MimesOf(UNION {Types[p] : p \in files}))
     \/ MakeMonitor /\ UNCHANGED managerVars
  /\ UNCHANGED <<threadVars, acts>>

HandleGone ==
  /\ \E p \in gone : ServiceGone(p)
  /\ UNCHANGED <<hostVars, threadVars, acts>>

HandleRegister ==
  /\ MainIdle
  /\ \E c \in Client, k \in Key : Register(c, k)
  /\ UNCHANGED <<hostVars, threadVars, acts>>

HandlePluginCreated ==
  /\ MainIdle
  /\ \E p \in Plugin : OnCreated(p) /\ IHave(MimesOf(Types[p]))
  /\ UNCHANGED <<threadVars, acts>>

HandlePluginDeleted ==
  /\ MainIdle
  /\ OnNothing \/ \E p \in Plugin : OnDeleted(p)
  /\ UNCHANGED <<managerVars, threadVars, acts>>

StopPlugin == DoStop /\ UNCHANGED <<managerVars, threadVars, acts>>

MainLoop ==
  \/ Start \/ HandleGone \/ HandleRegister
  \/ HandlePluginCreated \/ HandlePluginDeleted \/ StopPlugin

-----------------------------------------------------------------------------
(* Clients, and whoever installs services and plugins.                       *)

ClientsAct ==
  \/ stage = "monitoring" /\ \E c \in Client, k \in Key : CallRegister(c, k)
  \/ MainIdle /\ \E c \in Client : Leave(c)

ServicesChange ==
  /\ scans = <<>>
  /\ \E d \in Dir, c \in Contents :
       OnFileChanged(d, c) \/ (MainIdle /\ OnDirCreated(d, c))

PluginsChange == \E p \in Plugin : FileCreated(p) \/ FileDeleted(p)

Outside ==
  /\ acts < MaxChanges
  /\ acts' = acts + 1
  /\ \/ (ClientsAct \/ ServicesChange) /\ UNCHANGED hostVars
     \/ PluginsChange /\ UNCHANGED managerVars
  /\ UNCHANGED threadVars

Next == (\E t \in Thread : ThreadStep(t)) \/ MainLoop \/ Outside

Spec == Init /\ [][Next]_vars

-----------------------------------------------------------------------------
(* Properties.                                                               *)

\* The proxy a thread calls is not finalized under its hands, although the main
\* loop replaces and removes handlers meanwhile: thumbnail_manager_get_handler
\* takes a reference before it releases the mutex, and do_the_work drops it
\* when all urls are done.  (And the state is well typed.)
ProxyHeld ==
  /\ TypeOK
  /\ \A t \in Thread : at[t] = "proxy" => refs[with[t]] > 0

\* GetSupported never leaves out a mime type that a thread would find a handler
\* or a plugin for: plugins report theirs to the manager when they register,
\* at the start and later (thumbnailer_register_plugin,
\* thumbnail_manager_get_supported).
SupportedIsComplete ==
  MimesOf({k \in Key : handlers[k] # None \/ plugins[k] # None})
    \subseteq Supported
=============================================================================
