---------------------------- MODULE Thumbnailer ----------------------------
(***************************************************************************)
(* The request queue of the thumbnail daemon, daemon/thumbnailer.c.        *)
(*                                                                         *)
(* The D-Bus methods Queue and Unqueue and the unmount handler run on the  *)
(* main loop; the threads of two pools (one for long requests, one for the *)
(* others) carry the requests out and emit Started, Ready, Error and       *)
(* Finished.  Both sides share priv->tasks, the list of the requests no    *)
(* thread has taken yet, under priv->mutex.  What runs under the mutex is  *)
(* one action; so is what a thread does between two shared accesses.       *)
(*                                                                         *)
(* A request's urls are a set: the array order and a url listed twice in   *)
(* one call are abstracted.  What the file system, the registries and the  *)
(* plugins answer is a choice: their own modules model it.                 *)
(***************************************************************************)
EXTENDS Integers, FiniteSets

CONSTANTS
  Url,            \* the urls clients ask about
  KeyOf,          \* [Url -> key]: scheme and mime type, the unit of dispatch
  NormalThreads,  \* the threads of priv->normal_pool (2 in the code)
  LargeThreads,   \* the threads of priv->large_pool (1 in the code)
  LargeLimit,     \* a request with more urls than this is large (50)
  MaxTasks        \* bound: Queue calls in one life of the daemon

ASSUME ThreadsAssumption == NormalThreads \cap LargeThreads = {}
ASSUME BoundsAssumption == LargeLimit \in Nat /\ MaxTasks \in Nat

Thread == NormalThreads \cup LargeThreads
Handle == 1..MaxTasks
Pool == {"normal", "large"}

PoolOf(w) == IF w \in LargeThreads THEN "large" ELSE "normal"
PoolFor(U) == IF Cardinality(U) > LargeLimit THEN "large" ELSE "normal"

VARIABLES
  num,       \* the static counter of thumbnailer_queue
  main,      \* what the main loop is doing
  tasks,     \* priv->tasks
  unqueued,  \* the tasks whose unqueued flag is set
  dead,      \* the tasks whose dead flag is set
  urls,      \* [Handle -> SUBSET Url]: task->urls
  waiting,   \* [Pool -> SUBSET Handle]: what is pushed and not popped yet
  pc,        \* [Thread -> where do_the_work is]
  cur,       \* [Thread -> Handle \cup {0}]: the thread's task
  todo,      \* urls not examined yet
  cached,    \* thumb_items
  fresh,     \* urls in the schemes table, waiting for their group's turn
  batch,     \* urlss of the group being handled, not answered yet
  started,   \* history: handles Started was emitted for
  finished,  \* history: how often Finished was emitted
  reports    \* history: Ready and Error signals naming the url, per task

mainVars == <<num, main, urls>>
flagVars == <<unqueued, dead>>
workVars == <<todo, cached, fresh, batch>>
vars == <<num, main, tasks, unqueued, dead, urls, waiting, pc, cur, todo,
          cached, fresh, batch, started, finished, reports>>

Working == {"examine", "groups", "specialized", "plugin"}

TypeOK ==
  /\ num \in 0..MaxTasks
  /\ main \in {"idle", "reply", "exiting", "down"}
  /\ tasks \subseteq Handle
  /\ unqueued \subseteq Handle
  /\ dead \subseteq Handle
  /\ urls \in [Handle -> SUBSET Url]
  /\ waiting \in [Pool -> SUBSET Handle]
  /\ pc \in [Thread -> {"idle", "started", "unqueued"} \cup Working]
  /\ cur \in [Thread -> Handle \cup {0}]
  /\ \A w \in Thread : pc[w] # "idle" => cur[w] \in Handle
  /\ todo \in [Thread -> SUBSET Url]
  /\ cached \in [Thread -> SUBSET Url]
  /\ fresh \in [Thread -> SUBSET Url]
  /\ batch \in [Thread -> SUBSET Url]
  /\ started \subseteq Handle
  /\ finished \in [Handle -> Nat]
  /\ reports \in [Handle -> [Url -> Nat]]

Init ==
  /\ num = 0
  /\ main = "idle"
  /\ tasks = {}
  /\ unqueued = {}
  /\ dead = {}
  /\ urls = [h \in Handle |-> {}]
  /\ waiting = [p \in Pool |-> {}]
  /\ pc = [w \in Thread |-> "idle"]
  /\ cur = [w \in Thread |-> 0]
  /\ todo = [w \in Thread |-> {}]
  /\ cached = [w \in Thread |-> {}]
  /\ fresh = [w \in Thread |-> {}]
  /\ batch = [w \in Thread |-> {}]
  /\ started = {}
  /\ finished = [h \in Handle |-> 0]
  /\ reports = [h \in Handle |-> [u \in Url |-> 0]]

-----------------------------------------------------------------------------
(* The main loop: Queue, Unqueue and the mount-pre-unmount handler.          *)

\* mark_unqueued over priv->tasks: only a task no thread has taken is marked.
MarkUnqueuedAnywhere(h) == unqueued \cup ({h} \cap 1..num)
MarkUnqueued(h) == unqueued \cup ({h} \cap tasks)

NewHandlePostIncrement == num
NewHandle == num + 1

\* thumbnailer_queue up to the unlock; the reply is sent by QueueReply.
Queue(U, toUnqueue) ==
  /\ main = "idle"
  /\ num < MaxTasks
  /\ num' = num + 1
  /\ main' = "reply"
  /\ urls' = [urls EXCEPT ![NewHandle] = U]
  /\ unqueued' = MarkUnqueued(toUnqueue)
  /\ tasks' = tasks \cup {NewHandle}
  /\ waiting' = [waiting EXCEPT ![PoolFor(U)] = @ \cup {NewHandle}]
  /\ UNCHANGED <<dead, pc, cur, workVars, started, finished, reports>>

\* dbus_g_method_return: the client learns the handle only now.
QueueReply ==
  /\ main = "reply"
  /\ main' = "idle"
  /\ UNCHANGED <<num, tasks, flagVars, urls, waiting, pc, cur, workVars,
                 started, finished, reports>>

Unqueue(h) ==
  /\ main = "idle"
  /\ unqueued' = MarkUnqueued(h)
  /\ UNCHANGED <<mainVars, tasks, dead, waiting, pc, cur, workVars, started,
                 finished, reports>>

\* crash_queued over priv->tasks: the flags and one Finished each.  The tasks
\* stay in the list and in the pools.
CrashUnqueuedNot == unqueued
CrashUnqueued == unqueued \cup tasks
CrashDeadNot == dead
CrashDead == dead \cup tasks

CrashOut ==
  /\ main = "idle"
  /\ main' = "exiting"
  /\ unqueued' = CrashUnqueued
  /\ dead' = CrashDead
  /\ finished' = [h \in Handle |-> finished[h] + IF h \in tasks THEN 1 ELSE 0]
  /\ UNCHANGED <<num, tasks, urls, waiting, pc, cur, workVars, started, reports>>

\* exit (0) at the end of on_pre_unmount: until here the threads run on.
Exit ==
  /\ main = "exiting"
  /\ main' = "down"
  /\ UNCHANGED <<num, tasks, flagVars, urls, waiting, pc, cur, workVars,
                 started, finished, reports>>

\* The next activation is a new process: nothing survives, and the handles
\* start over at 1.
Restart ==
  /\ main = "down"
  /\ num' = 0
  /\ main' = "idle"
  /\ tasks' = {}
  /\ unqueued' = {}
  /\ dead' = {}
  /\ urls' = [h \in Handle |-> {}]
  /\ waiting' = [p \in Pool |-> {}]
  /\ pc' = [w \in Thread |-> "idle"]
  /\ cur' = [w \in Thread |-> 0]
  /\ todo' = [w \in Thread |-> {}]
  /\ cached' = [w \in Thread |-> {}]
  /\ fresh' = [w \in Thread |-> {}]
  /\ batch' = [w \in Thread |-> {}]
  /\ started' = {}
  /\ finished' = [h \in Handle |-> 0]
  /\ reports' = [h \in Handle |-> [u \in Url |-> 0]]

-----------------------------------------------------------------------------
(* A pool thread: do_the_work.                                               *)

Running == main # "down"

\* One more Ready or Error signal naming each url of U.
Counted(f, U) == [u \in Url |-> f[u] + IF u \in U THEN 1 ELSE 0]
Report(h, U) == reports' = [reports EXCEPT ![h] = Counted(@, U)]

\* pool_sort_compare makes the pool hand out the highest handle first.
FirstOldest(S, h) == h \in S /\ \A k \in S : h <= k
First(S, h) == h \in S /\ \A k \in S : k <= h

\* The pool pops a task for an idle thread, which emits Started.
Start(w) ==
  /\ Running
  /\ pc[w] = "idle"
  /\ \E h \in waiting[PoolOf(w)] :
       /\ First(waiting[PoolOf(w)], h)
       /\ waiting' = [waiting EXCEPT ![PoolOf(w)] = @ \ {h}]
       /\ cur' = [cur EXCEPT ![w] = h]
       /\ started' = started \cup {h}
  /\ pc' = [pc EXCEPT ![w] = "started"]
  /\ UNCHANGED <<mainVars, tasks, flagVars, workVars, finished, reports>>

\* Under the mutex: the task leaves priv->tasks and its flag is read.
Removed(w) == tasks \ {cur[w]}

Take(w) ==
  /\ Running
  /\ pc[w] = "started"
  /\ tasks' = Removed(w)
  /\ pc' = [pc EXCEPT ![w] = IF cur[w] \in unqueued THEN "unqueued"
                                                    ELSE "examine"]
  /\ todo' = [todo EXCEPT ![w] = IF cur[w] \in unqueued THEN {}
                                                        ELSE urls[cur[w]]]
  /\ UNCHANGED <<mainVars, flagVars, waiting, cur, cached, fresh, batch,
                 started, finished, reports>>

\* get_some_file_infos failed: Error for this url alone.
ExamineUnreadable(w, u) ==
  /\ Running
  /\ pc[w] = "examine"
  /\ u \in todo[w]
  /\ todo' = [todo EXCEPT ![w] = @ \ {u}]
  /\ Report(cur[w], {u})
  /\ UNCHANGED <<mainVars, tasks, flagVars, waiting, pc, cur, cached, fresh,
                 batch, started, finished>>

\* A thumbnail with the file's mtime exists.
ExamineCached(w, u) ==
  /\ Running
  /\ pc[w] = "examine"
  /\ u \in todo[w]
  /\ todo' = [todo EXCEPT ![w] = @ \ {u}]
  /\ cached' = [cached EXCEPT ![w] = @ \cup {u}]
  /\ UNCHANGED <<mainVars, tasks, flagVars, waiting, pc, cur, fresh, batch,
                 started, finished, reports>>

\* No thumbnail yet: the url joins its scheme and mime type's group.
ExamineMissing(w, u) ==
  /\ Running
  /\ pc[w] = "examine"
  /\ u \in todo[w]
  /\ todo' = [todo EXCEPT ![w] = @ \ {u}]
  /\ fresh' = [fresh EXCEPT ![w] = @ \cup {u}]
  /\ UNCHANGED <<mainVars, tasks, flagVars, waiting, pc, cur, cached, batch,
                 started, finished, reports>>

\* One Ready for everything that was cached (none if nothing was).
EmitCached(w) ==
  /\ Running
  /\ pc[w] = "examine"
  /\ todo[w] = {}
  /\ Report(cur[w], cached[w])
  /\ cached' = [cached EXCEPT ![w] = {}]
  /\ pc' = [pc EXCEPT ![w] = "groups"]
  /\ UNCHANGED <<mainVars, tasks, flagVars, waiting, cur, todo, fresh, batch,
                 started, finished>>

Group(w, u) == {v \in fresh[w] : KeyOf[v] = KeyOf[u]}

\* The group leaves the table and goes to the handler at pc "handler".
Dispatch(w, u, handler) ==
  /\ Running
  /\ pc[w] = "groups"
  /\ u \in fresh[w]
  /\ fresh' = [fresh EXCEPT ![w] = @ \ Group(w, u)]
  /\ batch' = [batch EXCEPT ![w] = Group(w, u)]
  /\ pc' = [pc EXCEPT ![w] = handler]
  /\ UNCHANGED <<mainVars, tasks, flagVars, waiting, cur, todo, cached,
                 started, finished, reports>>

\* thumbnail_manager_get_handler knows a specialized thumbnailer.
ToSpecialized(w, u) == Dispatch(w, u, "specialized")

\* There is none, but a plugin is registered.
ToPlugin(w, u) == Dispatch(w, u, "plugin")

\* Neither: Error for the whole group.
NoHandler(w, u) ==
  /\ Running
  /\ pc[w] = "groups"
  /\ u \in fresh[w]
  /\ fresh' = [fresh EXCEPT ![w] = @ \ Group(w, u)]
  /\ Report(cur[w], Group(w, u))
  /\ UNCHANGED <<mainVars, tasks, flagVars, waiting, pc, cur, todo, cached,
                 batch, started, finished>>

\* The call for one url ended with Ready, with Error or in a timeout.
SpecializedAnswer(w, u) ==
  /\ Running
  /\ pc[w] = "specialized"
  /\ u \in batch[w]
  /\ batch' = [batch EXCEPT ![w] = @ \ {u}]
  /\ pc' = [pc EXCEPT ![w] = IF batch[w] = {u} THEN "groups" ELSE @]
  /\ Report(cur[w], {u})
  /\ UNCHANGED <<mainVars, tasks, flagVars, waiting, cur, todo, cached, fresh,
                 started, finished>>

\* subtract_strv: what of a is not in b.
SubtractNothing(a, b) == a
Subtract(a, b) == a \ b

\* do_create returned: Ready for all of the group, or Ready for what did not
\* fail followed by Error for what failed.
PluginReturn(w, failed) ==
  /\ Running
  /\ pc[w] = "plugin"
  /\ failed \subseteq batch[w]
  /\ reports' = [reports EXCEPT
       ![cur[w]] = Counted(Counted(@, Subtract(batch[w], failed)), failed)]
  /\ batch' = [batch EXCEPT ![w] = {}]
  /\ pc' = [pc EXCEPT ![w] = "groups"]
  /\ UNCHANGED <<mainVars, tasks, flagVars, waiting, cur, todo, cached, fresh,
                 started, finished>>

EmitsUnlessUnqueued(w) == cur[w] \notin unqueued
Emits(w) == cur[w] \notin dead

\* The label "unqueued": Finished unless the unmount handler sent it already.
Finish(w) ==
  /\ Running
  /\ \/ pc[w] = "unqueued"
     \/ pc[w] = "groups" /\ fresh[w] = {}
  /\ finished' = [finished EXCEPT ![cur[w]] = @ + IF Emits(w) THEN 1 ELSE 0]
  /\ pc' = [pc EXCEPT ![w] = "idle"]
  /\ cur' = [cur EXCEPT ![w] = 0]
  /\ UNCHANGED <<mainVars, tasks, flagVars, waiting, workVars, started, reports>>

Work(w) ==
  \/ Start(w)
  \/ Take(w)
  \/ \E u \in Url : ExamineUnreadable(w, u)
  \/ \E u \in Url : ExamineCached(w, u)
  \/ \E u \in Url : ExamineMissing(w, u)
  \/ EmitCached(w)
  \/ \E u \in Url : ToSpecialized(w, u)
  \/ \E u \in Url : ToPlugin(w, u)
  \/ \E u \in Url : NoHandler(w, u)
  \/ \E u \in Url : SpecializedAnswer(w, u)
  \/ \E failed \in SUBSET Url : PluginReturn(w, failed)
  \/ Finish(w)

Next ==
  \/ \E U \in SUBSET Url, h \in 0..MaxTasks : Queue(U, h)
  \/ QueueReply
  \/ \E h \in Handle : Unqueue(h)
  \/ CrashOut
  \/ Exit
  \/ Restart
  \/ \E w \in Thread : Work(w)

Spec == Init /\ [][Next]_vars

-----------------------------------------------------------------------------
(* The service this daemon implements.                                       *)

\* A thread that took a cancelled request only has its Finished left to send:
\* for the service the request is still queued.
Phase(h) ==
  IF h > num THEN "new"
  ELSE IF finished[h] > 0 THEN "done"
  ELSE IF \E w \in Thread : cur[w] = h /\ pc[w] \in Working THEN "running"
  ELSE "queued"

Service == INSTANCE ThumbnailService WITH
  accepted <- num,
  wanted <- urls,
  phase <- [h \in Handle |-> Phase(h)],
  cancelled <- unqueued,
  answered <- [h \in Handle |-> {u \in Url : reports[h][u] > 0}],
  service <- IF main \in {"idle", "reply"} THEN "up"
             ELSE IF main = "exiting" THEN "ending" ELSE "down"

\* The daemon keeps the service's promises: no interleaving of the threads,
\* the main loop and the unmount handler shows a client anything but queued,
\* then running with answers to urls not yet answered, then done once.
ImplementsService == Service!Spec

-----------------------------------------------------------------------------
(* Properties.                                                               *)

Pending(w) == todo[w] \cup cached[w] \cup fresh[w] \cup batch[w]

\* A request is in exactly one place: waiting in the pool its length chose,
\* or with one thread of that pool; and it is in priv->tasks exactly while a
\* thread has not taken it.  Unqueue and crash_out act on that list, so a
\* request missing from it, or left in it, would be cancelled or finished
\* wrongly.
OnePlace ==
  /\ tasks \subseteq 1..num
  /\ \A p \in Pool : \A h \in waiting[p] : h \in tasks /\ PoolFor(urls[h]) = p
  /\ \A w \in Thread :
       pc[w] # "idle" =>
         /\ cur[w] \in 1..num
         /\ \A p \in Pool : cur[w] \notin waiting[p]
         /\ cur[w] \in tasks <=> pc[w] = "started"
         /\ PoolFor(urls[cur[w]]) = PoolOf(w)
         /\ \A v \in Thread \ {w} : cur[v] # cur[w]
  /\ \A w \in Thread : pc[w] = "idle" => cur[w] = 0
  /\ \A h \in tasks :
       \/ \E p \in Pool : h \in waiting[p]
       \/ \E w \in Thread : pc[w] = "started" /\ cur[w] = h

\* Finished is sent once: the unmount handler and a pool thread never both
\* send it, whatever the moment at which the unmount interrupts the queue.
FinishedAtMostOnce == \A h \in Handle : finished[h] <= 1

\* Every url of a request that was carried out to its end is answered by
\* exactly one Ready or Error, and no url is ever answered twice or answered
\* without having been asked for.
EachUrlAnsweredOnce ==
  \A h \in Handle :
    /\ \A u \in Url : reports[h][u] <= (IF u \in urls[h] THEN 1 ELSE 0)
    /\ finished[h] > 0 /\ h \notin unqueued =>
         \A u \in urls[h] : reports[h][u] = 1

\* A request that Unqueue, a later Queue or the unmount handler cancelled
\* reports nothing: the flag is only ever set while no work has been done,
\* and from then on none is.
CancelledIsSilent ==
  \A h \in unqueued : \A u \in Url : reports[h][u] = 0

\* The flags tell who sends Finished: a task in the list or with a thread has
\* had none unless the unmount handler marked it dead, and a thread does work
\* only for a task that is not cancelled.
FlagsDecideFinished ==
  /\ dead \subseteq unqueued
  /\ unqueued \subseteq 1..num
  /\ main \in {"idle", "reply"} => dead = {}
  /\ FinishedAtMostOnce
  /\ \A h \in Handle : h > num => finished[h] = 0
  /\ \A h \in tasks : h \notin dead => finished[h] = 0
  /\ \A w \in Thread :
       /\ pc[w] # "idle" /\ cur[w] \notin dead => finished[cur[w]] = 0
       /\ pc[w] \in Working => cur[w] \notin unqueued
       /\ pc[w] = "unqueued" => cur[w] \in unqueued

\* While a thread works, each url of its task is either in exactly one of the
\* four lists it goes through or answered, exactly once; when no one works on
\* a request, all of it is answered or none of it is.
Books ==
  /\ \A w \in Thread :
       /\ pc[w] \notin Working => Pending(w) = {}
       /\ pc[w] # "examine" => todo[w] = {} /\ cached[w] = {}
       /\ pc[w] \notin {"specialized", "plugin"} => batch[w] = {}
       /\ todo[w] \cap (cached[w] \cup fresh[w]) = {}
       /\ cached[w] \cap fresh[w] = {}
       /\ batch[w] \cap fresh[w] = {}
       /\ pc[w] \in Working =>
            /\ Pending(w) \subseteq urls[cur[w]]
            /\ \A u \in Url : reports[cur[w]][u] =
                 IF u \in urls[cur[w]] \ Pending(w) THEN 1 ELSE 0
  /\ \A h \in Handle : h > num \/ h \in tasks \cup unqueued =>
       \A u \in Url : reports[h][u] = 0
  /\ \A h \in Handle :
       (\A w \in Thread : cur[w] # h) /\ h \in (1..num) \ (tasks \cup unqueued) =>
         \A u \in Url : reports[h][u] = IF u \in urls[h] THEN 1 ELSE 0

\* The inductive invariant: OnePlace keeps the unmount handler and a thread
\* from acting on the same task, FlagsDecideFinished turns that into one
\* Finished, Books into one answer per url.
IInv == TypeOK /\ OnePlace /\ FlagsDecideFinished /\ Books

\* Finished closes a request: no Ready or Error is sent for it afterwards,
\* not even by the threads that keep running while the process exits.
SilentAfterFinished ==
  [][\A h \in Handle :
       finished[h] > 0 /\ main # "down" => reports'[h] = reports[h]]_vars

\* The comment above do_the_work: "new requests get a certain priority over
\* older requests".  A request overtakes every older one of its pool that no
\* thread had begun.
NewestFirst ==
  [][\A h \in started' \ started :
       \A k \in tasks \ started : PoolFor(urls[k]) = PoolFor(urls[h]) => k <= h]_vars
=============================================================================
