-------------------------- MODULE ThumbnailManager --------------------------
(***************************************************************************)
(* The table of specialized thumbnailers, ThumbnailManager's handlers: it  *)
(* is filled from the service files of two directories, by Register calls  *)
(* over D-Bus, and emptied when a registered client leaves the bus.  All   *)
(* this happens in the main loop; the pool threads look handlers up and    *)
(* keep a reference to the one they use.                                   *)
(*                                                                         *)
(* A key stands for a uri scheme with a mime type.  The test on the files' *)
(* times in thumbnail_manager_check_dir looks a mime type up in a table of *)
(* keys and never finds one, so that of several files in a directory the   *)
(* one read last counts: any of them.                                      *)
(***************************************************************************)
EXTENDS FileKinds, Naturals, Sequences

CONSTANTS
  Client,   \* programs that call Register
  Service,  \* names in service files, started by the bus when called
  Slot,     \* bound: proxies of a key that exist at the same time
  Contents  \* bound: what a directory may contain

Dir == {"system", "home"}

\* plain: the names that files give for a key.
Content == [plain : [Key -> SUBSET Service],
            overrides : [Key -> Service \cup {None}]]

ASSUME ManagerAssumption ==
  /\ Contents \subseteq Content
  /\ Client \cap Service = {}
  /\ None \notin Client \cup Service

Proxy == Key \X Slot

ASSUME ProxyAssumption == None \notin Proxy

VARIABLES
  dirs,       \* [Dir -> Content]: the directories of service files
  scans,      \* the directories the main loop has yet to read at its start
  handlers,   \* [Key -> Proxy \cup {None}]
  name,       \* [Proxy -> Client \cup Service \cup {None}]
  refs,       \* [Proxy -> Nat]
  hooked,     \* the proxies whose "destroy" is connected to service_gone
  gone,       \* the proxies whose "destroy" is being emitted
  late,       \* history: proxies made for a client that had left
  clients,    \* the clients on the bus
  calls,      \* Register calls on their way to the daemon
  thumberHas  \* the mime types that plugins brought

managerVars == <<dirs, scans, handlers, name, refs, hooked, gone, late,
                 clients, calls, thumberHas>>
tableVars == <<handlers, name, refs, hooked, late>>

ManagerTypeOK ==
  /\ dirs \in [Dir -> Contents]
  /\ scans \in Seq(Dir)
  /\ handlers \in [Key -> Proxy \cup {None}]
  /\ name \in [Proxy -> Client \cup Service \cup {None}]
  /\ refs \in [Proxy -> Nat]
  /\ \A p \in Proxy : name[p] # None <=> refs[p] > 0
  /\ hooked \subseteq Proxy
  /\ gone \subseteq Proxy
  /\ late \subseteq Proxy
  /\ clients \subseteq Client
  /\ calls \subseteq Client \X Key
  /\ thumberHas \subseteq Mime

\* thumbnail_manager_check reads the system's directory, then the user's.
ManagerInit ==
  /\ dirs \in [Dir -> Contents]
  /\ scans = <<"system", "home">>
  /\ handlers = [k \in Key |-> None]
  /\ name = [p \in Proxy |-> None]
  /\ refs = [p \in Proxy |-> 0]
  /\ hooked = {}
  /\ gone = {}
  /\ late = {}
  /\ clients = Client
  /\ calls = {}
  /\ thumberHas = {}

-----------------------------------------------------------------------------
(* Proxies.                                                                  *)

Fresh(k) == CHOOSE p \in {k} \X Slot : refs[p] = 0 /\ p \notin gone
HasFresh(k) == \E p \in {k} \X Slot : refs[p] = 0 /\ p \notin gone

\* References as in r; a proxy without any is finalized.
SetRefs(r) ==
  /\ refs' = r
  /\ name' = [p \in Proxy |-> IF r[p] = 0 THEN None ELSE name[p]]
  /\ hooked' = {p \in hooked : r[p] > 0}
  /\ late' = {p \in late : r[p] > 0}

\* The table drops its reference.
Unreferenced(r, P) == [p \in Proxy |-> IF p \in P THEN r[p] - 1 ELSE r[p]]

\* thumbnail_manager_add for the keys of K, with the names of n.
Replaced(K) == {handlers[k] : k \in K} \ {None}
Add(K, n) ==
  LET fresh == {Fresh(k) : k \in K} IN
  /\ \A k \in K : HasFresh(k)
  /\ handlers' = [k \in Key |-> IF k \in K THEN Fresh(k) ELSE handlers[k]]
  /\ refs' = [p \in Proxy |->
                IF p \in fresh THEN 1
                               ELSE Unreferenced(refs, Replaced(K))[p]]
  /\ name' = [p \in Proxy |-> IF p \in fresh THEN n[p[1]]
                              ELSE IF refs'[p] = 0 THEN None ELSE name[p]]

StillHeld(P) == {p \in P : refs'[p] > 0}

-----------------------------------------------------------------------------
(* The directories.                                                          *)

\* The name a key ends up with in the table made from one directory.
NamesFor(c, k) ==
  IF c.overrides[k] # None THEN {c.overrides[k]}
  ELSE IF c.plain[k] = {} THEN {None} ELSE c.plain[k]

\* thumbnail_manager_check_dir: an entry of overrides always counts, another
\* one if the directory overrides or the handler has another name.
CheckDir(c, override) ==
  \E pre \in [Key -> Service \cup {None}] :
    /\ \A k \in Key : pre[k] \in NamesFor(c, k)
    /\ Add({k \in Key : /\ pre[k] # None
                        /\ \/ c.overrides[k] # None
                           \/ override
                           \/ handlers[k] = None
                           \/ pre[k] # name[handlers[k]]}, pre)
    /\ hooked' = StillHeld(hooked)
    /\ late' = StillHeld(late)

Check ==
  /\ scans # <<>>
  /\ CheckDir(dirs[Head(scans)], Head(scans) = "home")
  /\ scans' = Tail(scans)
  /\ UNCHANGED <<dirs, gone, clients, calls, thumberHas>>

\* A file of the directory changes: on_dir_changed is told of the file, which
\* cannot be opened as a directory.
OnFileChanged(d, c) ==
  /\ dirs[d] # c
  /\ dirs' = [dirs EXCEPT ![d] = c]
  /\ UNCHANGED <<scans, tableVars, gone, clients, calls, thumberHas>>

\* The directory itself is created again, with files in it: on_dir_changed
\* overrides when it is the system's.
OnDirCreated(d, c) ==
  /\ dirs' = [dirs EXCEPT ![d] = c]
  /\ CheckDir(c, d = "system")
  /\ UNCHANGED <<scans, gone, clients, calls, thumberHas>>

-----------------------------------------------------------------------------
(* Clients.                                                                  *)

\* A client calls Register; the call is delivered later.
CallRegister(c, k) ==
  /\ c \in clients
  /\ calls' = calls \cup {<<c, k>>}
  /\ UNCHANGED <<dirs, scans, tableVars, gone, clients, thumberHas>>

\* The handler looked up after the call of thumbnail_manager_add is hooked.
HookedOldHandler(k) == {handlers[k]} \ {None}
HookedHandler(k) == {handlers'[k]}

\* thumbnail_manager_register.
Register(c, k) ==
  /\ <<c, k>> \in calls
  /\ calls' = calls \ {<<c, k>>}
  /\ Add({k}, [x \in {k} |-> c])
  /\ hooked' = StillHeld(hooked) \cup HookedHandler(k)
  /\ late' = StillHeld(late)
               \cup (IF c \in clients THEN {} ELSE {handlers'[k]})
  /\ UNCHANGED <<dirs, scans, gone, clients, thumberHas>>

\* A client leaves the bus: its proxies are destroyed, those made later never.
Leave(c) ==
  /\ c \in clients
  /\ clients' = clients \ {c}
  /\ gone' = gone \cup {p \in Proxy : name[p] = c}
  /\ UNCHANGED <<dirs, scans, tableVars, calls, thumberHas>>

\* service_gone, if it was connected: every entry with this proxy goes.
WithoutProxy(p) ==
  [k \in Key |-> IF handlers[k] = p THEN None ELSE handlers[k]]

ServiceGone(p) ==
  /\ p \in gone
  /\ gone' = gone \ {p}
  /\ \/ p \notin hooked /\ UNCHANGED tableVars
     \/ /\ p \in hooked
        /\ handlers' = WithoutProxy(p)
        /\ SetRefs(Unreferenced(refs, Replaced(Key) \cap {p}))
  /\ UNCHANGED <<dirs, scans, clients, calls, thumberHas>>

-----------------------------------------------------------------------------
(* What the pool threads and the plugins call.                               *)

\* thumbnail_manager_get_handler: the caller gets a reference.
WithoutReference(r, p) == r
Referenced(r, p) == [r EXCEPT ![p] = @ + 1]

GetHandler(k) ==
  /\ refs' = IF handlers[k] = None THEN refs ELSE Referenced(refs, handlers[k])
  /\ UNCHANGED <<dirs, scans, handlers, name, hooked, gone, late, clients,
                 calls, thumberHas>>

\* g_object_unref (proxy) in do_the_work.
Unref(p) ==
  /\ SetRefs(Unreferenced(refs, {p}))
  /\ UNCHANGED <<dirs, scans, handlers, gone, clients, calls, thumberHas>>

\* thumbnail_manager_i_have.
NotAdded(M) == thumberHas
Added(M) == thumberHas \cup M
IHave(M) ==
  /\ thumberHas' = Added(M)
  /\ UNCHANGED <<dirs, scans, tableVars, gone, clients, calls>>

\* thumbnail_manager_get_supported.
Supported == thumberHas \cup MimesOf({k \in Key : handlers[k] # None})

-----------------------------------------------------------------------------
(* Properties.                                                               *)

\* A client that has left handles nothing once its proxies' "destroy" has been
\* emitted: the handler that Register connects to service_gone is the one it
\* has just added (thumbnail_manager_register, service_gone). A client that
\* leaves before its call arrives is missed.
NoHandlerOfTheDead ==
  \A k \in Key :
    LET proxy == handlers[k] IN
    (proxy # None /\ name[proxy] \in Client \ clients) =>
      proxy \in gone \cup late
=============================================================================
