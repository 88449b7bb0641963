----------------------------- MODULE PluginHost -----------------------------
(***************************************************************************)
(* The thumbnailer plugins inside the daemon: modules opened from the      *)
(* plugin directory at the start and when the directory's monitor reports  *)
(* a file, the thumbnailer's table of what they handle, and their closing  *)
(* when the file is deleted.  A module that is opened again under the same *)
(* file name is the same module with one reference more.                   *)
(***************************************************************************)
EXTENDS FileKinds, Naturals, Sequences

CONSTANTS
  Plugin,   \* the module files
  Types,    \* [Plugin -> SUBSET Key]: what a plugin registers for
  Priority, \* [Plugin -> Nat]: with which priority
  MaxFiles  \* bound: changes in the plugin directory

ASSUME HostAssumption ==
  /\ Types \in [Plugin -> SUBSET Key]
  /\ Priority \in [Plugin -> Nat]
  /\ MaxFiles \in Nat
  /\ None \notin Plugin

VARIABLES
  stage,         \* "start", "loaded" or "monitoring": how far main is
  files,         \* the files in the plugin directory
  events,        \* what the monitor has yet to report
  registrations, \* the modules of hildon-thumbnail-daemon.c
  opens,         \* [Plugin -> Nat]: references to the module
  plugins,       \* [Key -> Plugin \cup {None}]: plugins_perscheme
  stopping,      \* the module on_plugin_changed is about to stop, or None
  missed,        \* history: files changed before the monitor was there
  changes        \* for the bound

hostVars == <<stage, files, events, registrations, opens, plugins, stopping,
              missed, changes>>

Event == [type : {"created", "deleted"}, plugin : Plugin]

HostTypeOK ==
  /\ stage \in {"start", "loaded", "monitoring"}
  /\ files \subseteq Plugin
  /\ events \in Seq(Event)
  /\ registrations \subseteq Plugin
  /\ opens \in [Plugin -> 0..(MaxFiles + 1)]
  /\ plugins \in [Key -> Plugin \cup {None}]
  /\ stopping \in Plugin \cup {None}
  /\ missed \subseteq Plugin
  /\ changes \in 0..MaxFiles

\* The plugins of P that may be registered for a key when all of P have been
\* initialized, in any order: the first one with the highest priority.
Best(P, k) ==
  {p \in P : /\ k \in Types[p]
             /\ \A q \in P : k \in Types[q] => Priority[q] <= Priority[p]}

HostInit ==
  /\ stage = "start"
  /\ files \in SUBSET Plugin
  /\ events = <<>>
  /\ registrations = {}
  /\ opens = [p \in Plugin |-> 0]
  /\ plugins = [k \in Key |-> None]
  /\ stopping = None
  /\ missed = {}
  /\ changes = 0

\* init_plugins; no plugin's initialization fails.
InitPlugins ==
  /\ stage = "start"
  /\ stage' = "loaded"
  /\ registrations' = files
  /\ opens' = [p \in Plugin |-> IF p \in files THEN 1 ELSE 0]
  /\ plugins' \in [Key -> Plugin \cup {None}]
  /\ \A k \in Key : IF Best(files, k) = {} THEN plugins'[k] = None
                    ELSE plugins'[k] \in Best(files, k)
  /\ UNCHANGED <<files, events, stopping, missed, changes>>

\* main has the directory monitored from now on.
MakeMonitor ==
  /\ stage = "loaded"
  /\ stage' = "monitoring"
  /\ UNCHANGED <<files, events, registrations, opens, plugins, stopping, missed,
                 changes>>

-----------------------------------------------------------------------------
(* The plugin directory.                                                     *)

Reported(type, p) ==
  /\ changes < MaxFiles
  /\ changes' = changes + 1
  /\ IF stage = "monitoring"
     THEN /\ events' = Append(events, [type |-> type, plugin |-> p])
          /\ UNCHANGED missed
     ELSE /\ missed' = missed \cup {q \in {p} : stage = "loaded"}
          /\ UNCHANGED events
  /\ UNCHANGED <<stage, registrations, opens, plugins, stopping>>

\* A file is put there, or renamed over the old one.
FileCreated(p) ==
  /\ files' = files \cup {p}
  /\ Reported("created", p)

FileDeleted(p) ==
  /\ p \in files
  /\ files' = files \ {p}
  /\ Reported("deleted", p)

-----------------------------------------------------------------------------
(* on_plugin_changed, in the main loop.                                      *)

\* hildon_thumbnail_plugin_load: a module that is open is found by its name.
Loads(p) == opens[p] > 0 \/ p \in files

\* thumbnailer_register_plugin: a higher priority displaces.
Registered(p) ==
  [k \in Key |->
     IF k \in Types[p] /\ (\/ plugins[k] = None
                           \/ Priority[plugins[k]] < Priority[p])
     THEN p ELSE plugins[k]]

\* The file is there: the module is opened and registers what it supports.
OnCreated(p) ==
  /\ stopping = None
  /\ events # <<>>
  /\ Head(events) = [type |-> "created", plugin |-> p]
  /\ Loads(p)
  /\ events' = Tail(events)
  /\ opens' = [opens EXCEPT ![p] = @ + 1]
  /\ plugins' = Registered(p)
  /\ registrations' = registrations \cup {p}
  /\ missed' = missed \ {p}
  /\ UNCHANGED <<stage, files, stopping, changes>>

\* The file has gone again, or the deleted one was never loaded.
OnNothing ==
  /\ stopping = None
  /\ events # <<>>
  /\ LET reported == Head(events).plugin IN
     /\ \/ Head(events).type = "created" /\ ~Loads(reported)
        \/ Head(events).type = "deleted" /\ reported \notin registrations
     /\ missed' = missed \ {reported}
  /\ events' = Tail(events)
  /\ UNCHANGED <<stage, files, registrations, opens, plugins, stopping, changes>>

\* thumbnailer_unregister_plugin: from every scheme.
UnregisteredSomewhere(p) ==
  IF \E k \in Key : plugins[k] = p
  THEN [plugins EXCEPT ![CHOOSE k \in Key : plugins[k] = p] = None]
  ELSE plugins
Unregistered(p) ==
  [k \in Key |-> IF plugins[k] = p THEN None ELSE plugins[k]]

\* The file of a registered module is deleted ...
RegistrationKept(p) == registrations
RegistrationRemoved(p) == registrations \ {p}

OnDeleted(p) ==
  /\ stopping = None
  /\ events # <<>>
  /\ Head(events) = [type |-> "deleted", plugin |-> p]
  /\ p \in registrations
  /\ events' = Tail(events)
  /\ registrations' = RegistrationRemoved(p)
  /\ plugins' = Unregistered(p)
  /\ stopping' = p
  /\ missed' = missed \ {p}
  /\ UNCHANGED <<stage, files, opens, changes>>

\* ... and hildon_thumbnail_plugin_do_stop closes it.
Closed(p) == opens[p] - 1

DoStop ==
  /\ stopping # None
  /\ opens' = [opens EXCEPT ![stopping] = Closed(stopping)]
  /\ stopping' = None
  /\ UNCHANGED <<stage, files, events, registrations, plugins, missed, changes>>

-----------------------------------------------------------------------------
(* Properties.                                                               *)

\* A pool thread that looks a plugin up gets a module that is open, however
\* often files come, go and come back before the monitor's reports of them are
\* handled (thumbnailer_unregister_plugin before
\* hildon_thumbnail_plugin_do_stop in on_plugin_changed).
NoDanglingRegistration ==
  \A k \in Key : plugins[k] # None => opens[plugins[k]] > 0

\* When the monitor has nothing more to say of a file, the module is registered
\* if and only if the file is there, except for files changed between the scan
\* of init_plugins and the making of the monitor.
RegistrationsFollowFiles ==
  stage # "start" => \A p \in Plugin \ missed :
    (\A i \in DOMAIN events : events[i].plugin # p) =>
      (p \in registrations <=> p \in files)
=============================================================================
