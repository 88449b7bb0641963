------------------------------ MODULE Albumart ------------------------------
(***************************************************************************)
(* Album art: the queue of daemon/albumart.c with its one pool thread, and *)
(* the list of art providers that daemon/albumart-manager.c reads from a   *)
(* directory.                                                              *)
(*                                                                         *)
(* The thread asks the providers for a picture one after the other, the    *)
(* one of the highest priority first, until one succeeds.  It looks at the *)
(* head of the manager's list before it takes the manager's mutex, while   *)
(* the main loop, which has it, reads the files and replaces the list's    *)
(* nodes one after the other.                                              *)
(*                                                                         *)
(* A picture is found under a path made of its kind, artist and album, by  *)
(* the daemon from what arrives over the bus, where a missing name is an   *)
(* empty one, and by the client library from what it was given.            *)
(***************************************************************************)
EXTENDS Integers, Sequences, SequencesExt

CONSTANTS
  Name,      \* artists (or titles) and albums
  None,      \* where the code has NULL
  Provider,  \* the names of art providers, a file each
  Priority,  \* the priorities their files may give
  MaxTasks,  \* bound: Queue calls
  MaxReads,  \* bound: readings of the directory
  MaxChanges, \* bound: files written or removed
  Wanted     \* bound: what clients ask for

ASSUME AlbumartAssumption ==
  /\ None \notin Name \cup Priority
  /\ {"", " "} \cap Name = {}
  /\ Priority \subseteq Int
  /\ MaxTasks \in Nat /\ MaxChanges \in Nat /\ MaxReads \in Nat \ {0}

Handle == 1..MaxTasks
Kind == {"album", "podcast"}

\* What a client asks for; at least one of the names is there.
Request ==
  {r \in [artist : Name \cup {None}, album : Name \cup {None}, kind : Kind] :
     r.artist # None \/ r.album # None}

ASSUME WantedAssumption == Wanted \subseteq Request

\* A node of the manager's list; read: the reading that made it.
Node == [name : Provider, prio : Priority, read : 1..MaxReads]
NodeOf(n) == <<n.name, n.read>>

VARIABLES
  num,       \* the static counter of albumart_queue
  requests,  \* [Handle -> Request \cup {None}]
  tasks,     \* priv->tasks
  unqueued,  \* the tasks whose unqueued flag is set
  waiting,   \* the pool's queue
  pc,        \* where do_the_work is
  cur,       \* its task, or 0
  head,      \* the node albumart_manager_get_handlers begins with, or None
  todo,      \* the proxies it returned, not asked yet
  arts,      \* the paths where there is a picture
  providers, \* [Provider -> Priority \cup {None}]: the files
  changed,   \* has the monitor something to report?
  changes,   \* how often a file changed
  handlers,  \* the manager's list
  reads,     \* how often the directory was opened
  unread,    \* the files of it that have not been read
  adding,    \* the node on its way into the list, or None
  asked,     \* history: the providers asked for a task
  found,     \* history: tasks whose picture was there and was not deleted
  finished   \* history: [Handle -> Nat], how often Finished was emitted

queueVars == <<num, requests, tasks, unqueued, waiting>>
workVars == <<pc, cur, head, todo>>
readVars == <<handlers, reads, unread, adding>>
fileVars == <<providers, changed, changes>>
managerVars == <<fileVars, readVars>>
historyVars == <<asked, found, finished>>
vars == <<queueVars, workVars, arts, managerVars, historyVars>>

-----------------------------------------------------------------------------
(* Paths: hildon_thumbnail_util_get_albumart_path.                           *)

Part(x) == IF x = None THEN " " ELSE x
Path(artist, album, kind) == <<kind, Part(artist), Part(album)>>

\* A missing string is sent as an empty one.
OnBus(x) == IF x = None THEN "" ELSE x

\* What albumart_queue makes of the names and the kind.
FromBus(x) == IF x = "" THEN None ELSE x
KindForced(album, kind) == "album"
KindUsed(album, kind) == IF album = "" THEN "album" ELSE kind

ClientPath(r) == Path(r.artist, r.album, r.kind)
DaemonPath(r) == Path(FromBus(OnBus(r.artist)), FromBus(OnBus(r.album)),
                      KindUsed(OnBus(r.album), r.kind))

\* albumart_delete takes the names as they come.
DeletedPath(r) == Path(OnBus(r.artist), OnBus(r.album), r.kind)

-----------------------------------------------------------------------------
(* The manager.  The main loop reads the directory under the mutex.           *)

Reading == unread # {} \/ adding # None

\* on_dir_changed and albumart_manager_check, as far as g_dir_open.
OpenDir ==
  /\ ~Reading
  /\ reads < MaxReads
  /\ reads' = reads + 1
  /\ unread' = {p \in Provider : providers[p] # None}
  /\ UNCHANGED <<handlers, adding>>

OnDirChanged ==
  /\ changed
  /\ changed' = FALSE
  /\ OpenDir
  /\ UNCHANGED <<queueVars, workVars, arts, providers, changes, historyVars>>

\* albumart_manager_check_dir reads the next file, or cannot, and
\* albumart_manager_add takes the node with the same name out of the list ...
ReadFile(p) ==
  /\ adding = None
  /\ p \in unread
  /\ unread' = unread \ {p}
  /\ \/ /\ providers[p] = None
        /\ UNCHANGED <<handlers, adding>>
     \/ /\ providers[p] # None
        /\ adding' = [name |-> p, prio |-> providers[p], read |-> reads]
        /\ \/ \E i \in DOMAIN handlers :
                handlers[i].name = p /\ handlers' = RemoveAt(handlers, i)
           \/ /\ \A i \in DOMAIN handlers : handlers[i].name # p
              /\ UNCHANGED handlers
  /\ UNCHANGED <<queueVars, workVars, arts, fileVars, reads, historyVars>>

\* ... and inserts the new one before the first that is not smaller.
Smaller(i) == \A j \in 1..(i - 1) : handlers[j].prio < adding.prio

Insert ==
  /\ adding # None
  /\ \E i \in 1..(Len(handlers) + 1) :
       /\ Smaller(i)
       /\ i <= Len(handlers) => handlers[i].prio >= adding.prio
       /\ handlers' = InsertAt(handlers, i, adding)
  /\ adding' = None
  /\ UNCHANGED <<queueVars, workVars, arts, fileVars, reads, unread, historyVars>>

Read == Insert \/ \E p \in Provider : ReadFile(p)

\* A provider's file is written or removed.  The monitor is made after the
\* first reading.
Monitored == reads > 1 \/ (reads = 1 /\ ~Reading)

ProviderChanges(p) ==
  /\ changes < MaxChanges
  /\ changes' = changes + 1
  /\ \E v \in (Priority \cup {None}) \ {providers[p]} :
       providers' = [providers EXCEPT ![p] = v]
  /\ changed' = (changed \/ Monitored)
  /\ UNCHANGED <<queueVars, workVars, arts, readVars, historyVars>>

-----------------------------------------------------------------------------
(* The D-Bus methods.                                                        *)

MarkUnqueuedAnywhere(h) == unqueued \cup ({h} \cap 1..num)
MarkUnqueued(h) == unqueued \cup ({h} \cap tasks)

\* A call that names no art gets a handle too, and nothing comes of it.
QueueNothing ==
  /\ num < MaxTasks
  /\ num' = num + 1
  /\ UNCHANGED <<requests, tasks, unqueued, waiting, workVars, arts,
                 managerVars, historyVars>>

Queue(r, h) ==
  /\ num < MaxTasks
  /\ num' = num + 1
  /\ requests' = [requests EXCEPT ![num + 1] = r]
  /\ unqueued' = MarkUnqueued(h)
  /\ tasks' = tasks \cup {num + 1}
  /\ waiting' = waiting \cup {num + 1}
  /\ UNCHANGED <<workVars, arts, managerVars, historyVars>>

Unqueue(h) ==
  /\ h \in 1..num
  /\ unqueued' = MarkUnqueued(h)
  /\ UNCHANGED <<num, requests, tasks, waiting, workVars, arts, managerVars,
                 historyVars>>

Delete(r) ==
  /\ DeletedPath(r) \in arts
  /\ arts' = arts \ {DeletedPath(r)}
  /\ found' = {h \in found : DaemonPath(requests[h]) # DeletedPath(r)}
  /\ UNCHANGED <<queueVars, workVars, managerVars, asked, finished>>

-----------------------------------------------------------------------------
(* do_the_work, in the only thread of the pool.                              *)

Goto(from, to) == pc = from /\ pc' = to

\* The newest task is taken; Started is emitted.
Start ==
  /\ Goto("idle", "started")
  /\ \E h \in waiting :
       /\ \A k \in waiting : k <= h
       /\ cur' = h
       /\ waiting' = waiting \ {h}
  /\ UNCHANGED <<num, requests, tasks, unqueued, head, todo, arts, managerVars,
                 historyVars>>

Take ==
  /\ Goto("started", IF cur \in unqueued THEN "done" ELSE "look")
  /\ tasks' = tasks \ {cur}
  /\ UNCHANGED <<num, requests, unqueued, waiting, cur, head, todo, arts,
                 managerVars, historyVars>>

Look ==
  LET there == DaemonPath(requests[cur]) \in arts IN
  /\ Goto("look", IF there THEN "done" ELSE "list")
  /\ found' = IF there THEN found \cup {cur} ELSE found
  /\ UNCHANGED <<queueVars, cur, head, todo, arts, managerVars, asked, finished>>

\* albumart_manager_get_handlers: its initializer, not under the mutex ...
ReadHead ==
  /\ Goto("list", "copy")
  /\ head' = IF handlers = <<>> THEN None ELSE NodeOf(Head(handlers))
  /\ UNCHANGED <<queueVars, cur, todo, arts, managerVars, historyVars>>

\* ... and its loop, which turns the order round.  Where the node it begins
\* with has been freed, its memory may be that of any node of the list now;
\* or the process crashes.
From(i) == SubSeq(handlers, i, Len(handlers))
Collected(s) == s
Reversed(s) == Reverse(s)

HeadAt(i) == NodeOf(handlers[i]) = head

CopyHandlers ==
  /\ pc = "copy"
  /\ ~Reading
  /\ \/ head = None /\ todo' = <<>> /\ pc' = "ask"
     \/ \E i \in DOMAIN handlers :
          HeadAt(i) /\ todo' = Reversed(From(i)) /\ pc' = "ask"
     \/ /\ head # None
        /\ \A i \in DOMAIN handlers : ~HeadAt(i)
        /\ \/ \E i \in DOMAIN handlers : todo' = Reversed(From(i)) /\ pc' = "ask"
           \/ todo' = <<>> /\ pc' = "crashed"
  /\ head' = None
  /\ UNCHANGED <<queueVars, cur, arts, managerVars, historyVars>>

\* Fetch, answered by an error or nothing within the time D-Bus allows.
FetchFails ==
  /\ pc = "ask"
  /\ todo # <<>>
  /\ asked' = [asked EXCEPT ![cur] = Append(@, Head(todo))]
  /\ todo' = Tail(todo)
  /\ UNCHANGED <<queueVars, pc, cur, head, arts, managerVars, found, finished>>

\* Fetch succeeds: the thumbnailer is asked for the thumbnails, Ready emitted.
Fetched ==
  /\ todo # <<>>
  /\ Goto("ask", "done")
  /\ asked' = [asked EXCEPT ![cur] = Append(@, Head(todo))]
  /\ arts' = arts \cup {DaemonPath(requests[cur])}
  /\ found' = found \cup {cur}
  /\ todo' = <<>>
  /\ UNCHANGED <<queueVars, cur, head, managerVars, finished>>

NobodyLeft ==
  /\ Goto("ask", "done")
  /\ todo = <<>>
  /\ UNCHANGED <<queueVars, cur, head, todo, arts, managerVars, historyVars>>

\* At the label "unqueued", for cancelled tasks and others.
EmitsUnlessUnqueued == cur \notin unqueued
Emits == TRUE

Finish ==
  /\ Goto("done", "idle")
  /\ finished' = [finished EXCEPT ![cur] = IF Emits THEN @ + 1 ELSE @]
  /\ cur' = 0
  /\ UNCHANGED <<queueVars, head, todo, arts, managerVars, asked, found>>

Work ==
  \/ Start \/ Take \/ Look \/ ReadHead \/ CopyHandlers
  \/ FetchFails \/ Fetched \/ NobodyLeft \/ Finish

-----------------------------------------------------------------------------

Init ==
  /\ num = 0
  /\ requests = [h \in Handle |-> None]
  /\ tasks = {}
  /\ unqueued = {}
  /\ waiting = {}
  /\ pc = "idle"
  /\ cur = 0
  /\ head = None
  /\ todo = <<>>
  /\ arts = {}
  /\ providers \in [Provider -> Priority \cup {None}]
  /\ changed = FALSE
  /\ changes = 0
  /\ handlers = <<>>
  /\ reads = 0
  /\ unread = {}
  /\ adding = None
  /\ asked = [h \in Handle |-> <<>>]
  /\ found = {}
  /\ finished = [h \in Handle |-> 0]

\* albumart_manager_check, before anything is served.
FirstCheck ==
  /\ reads = 0
  /\ OpenDir
  /\ UNCHANGED <<queueVars, workVars, arts, fileVars, historyVars>>

MainLoop ==
  /\ reads > 0
  /\ ~Reading
  /\ pc # "crashed"
  /\ \/ OnDirChanged
     \/ QueueNothing
     \/ \E r \in Wanted, h \in 0..MaxTasks : Queue(r, h)
     \/ \E h \in Handle : Unqueue(h)
     \/ \E r \in Wanted : Delete(r)

Next ==
  \/ FirstCheck \/ MainLoop \/ Read \/ Work
  \/ \E p \in Provider : ProviderChanges(p)

Spec == Init /\ [][Next]_vars

\* Both threads are scheduled, a directory has an end, and a Fetch is answered or
\* timed out.
FairSpec == Spec /\ WF_vars(Work) /\ WF_vars(Read)

-----------------------------------------------------------------------------
(* Properties.                                                               *)

TypeOK ==
  /\ num \in 0..MaxTasks
  /\ requests \in [Handle -> Request \cup {None}]
  /\ waiting \subseteq tasks
  /\ tasks \subseteq 1..num
  /\ unqueued \subseteq 1..num
  /\ pc \in {"idle", "started", "look", "list", "copy", "ask", "done", "crashed"}
  /\ cur \in 0..num
  /\ head \in {NodeOf(n) : n \in Node} \cup {None}
  /\ todo \in Seq(Node)
  /\ arts \subseteq {ClientPath(r) : r \in Request}
  /\ providers \in [Provider -> Priority \cup {None}]
  /\ changed \in BOOLEAN
  /\ changes \in 0..MaxChanges
  /\ handlers \in Seq(Node)
  /\ reads \in 0..MaxReads
  /\ unread \subseteq Provider
  /\ adding \in Node \cup {None}
  /\ asked \in [Handle -> Seq(Node)]
  /\ found \subseteq Handle
  /\ finished \in [Handle -> 0..1]

\* The thread asks the providers in the order of their priorities, each once:
\* the list is kept in ascending order by albumart_manager_add and turned round
\* by albumart_manager_get_handlers, whatever the main loop does to it between
\* the thread's look at its head and the walk along it.
AskedByPriority ==
  \A h \in Handle : \A i, j \in DOMAIN asked[h] :
    i < j => /\ asked[h][i].prio >= asked[h][j].prio
             /\ asked[h][i].name # asked[h][j].name

\* When a request is finished and its picture has been found or fetched, and
\* not deleted since, the client finds it where it looks: the daemon, which
\* gets empty strings for what the client left out, makes the same path.
\* Not so for another kind than "album" without an album, see albumart_queue.
ClientFindsArt ==
  \A h \in found :
    LET r == requests[h] IN
    (finished[h] > 0 /\ (r.album # None \/ r.kind = "album")) =>
      ClientPath(r) \in arts

\* No provider is bothered for a request that was cancelled in time: the flag
\* is only set while the task is in the list, and read when it leaves it.
\* (And the state is well typed.)
CancelledIsNotAsked ==
  /\ TypeOK
  /\ \A h \in unqueued : asked[h] = <<>>

\* Every task is finished, cancelled or not, unless the process crashes.
EveryTaskFinishes ==
  \A h \in Handle : h \in tasks ~> finished[h] > 0 \/ pc = "crashed"
=============================================================================
