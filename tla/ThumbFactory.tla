---------------------------- MODULE ThumbFactory ----------------------------
(***************************************************************************)
(* The client library, thumbs/hildon-thumbnail-obj.c, talking to the       *)
(* daemon over the session bus (QueueOnBus).                               *)
(*                                                                         *)
(* The library is single threaded: what the application calls, and what    *)
(* the main context dispatches (replies and signals in the order they were *)
(* sent, idle callbacks in any order), are one action each.                *)
(*                                                                         *)
(* Abstracted: the files behind a thumbnail (a request either has all its  *)
(* thumbnails when it is made, or asks the daemon), sizes and pixbufs.     *)
(* Bounds: one url per request, an application makes each request once and *)
(* unqueues it at most once, and calls nothing from inside a callback; the *)
(* joins, which end only if the daemon answers, are not used in the rough  *)
(* world.                                                                  *)
(***************************************************************************)
EXTENDS QueueOnBus

\* The HildonThumbnailRequest objects the application makes; "thumbnail" is in
\* Service.
Request == Caller

VARIABLES
  \* the library
  key,        \* [Request -> r_priv->key]
  unqueued,   \* the requests with r_priv->unqueued
  errors,     \* the requests with r_priv->errors
  tasks,      \* f_priv->tasks: [Key -> Request \cup {None}]
  waiting,    \* waiting_for_cb
  idle,       \* the requests with an idle callback to come
  awaiting,   \* the requests whose Queue call has no reply yet
  unqueueing, \* the requests with an Unqueue call under way
  refs,       \* [Request -> reference count]
  \* the application
  asked,      \* the requests made so far
  held,       \* the requests the application holds a reference to
  join,       \* where a join is: "no", "flag" or "table"
  joined,     \* the request it joins, None for all
  \* history
  had,        \* requests that had their thumbnails when they were made
  called,     \* [Request -> how often its callback ran]
  blamed      \* requests whose callback was given an error

libVars == <<key, unqueued, errors, tasks, waiting, idle, awaiting,
             unqueueing, refs>>
appVars == <<asked, held, join, joined>>
callVars == <<called, blamed>>
vars == <<busVars, libVars, appVars, had, callVars>>

Joins == world # "rough"

Init ==
  /\ DaemonInit
  /\ key = [r \in Request |-> NoKey]
  /\ unqueued = {}
  /\ errors = {}
  /\ tasks = [k \in Key |-> None]
  /\ waiting = FALSE
  /\ idle = {}
  /\ awaiting = {}
  /\ unqueueing = {}
  /\ refs = [r \in Request |-> 0]
  /\ asked = {}
  /\ held = {}
  /\ join = "no"
  /\ joined = None
  /\ had = {}
  /\ called = [r \in Request |-> 0]
  /\ blamed = {}

-----------------------------------------------------------------------------
(* The library, called by the application.                                   *)

NotCalled == <<had, callVars>>

\* g_object_unref of the requests in the sequence rs; None is no request.
Unref(rs) ==
  [r \in Request |-> refs[r] - Cardinality({i \in DOMAIN rs : rs[i] = r})]

\* request_generic: the daemon is asked unless every thumbnail is there.  The
\* application and the call, or the idle source, hold a reference each.
MissThumbnail(r) ==
  /\ AskDaemon("thumbnail", r)
  /\ awaiting' = awaiting \cup {r}
  /\ UNCHANGED <<idle, had>>

UseCache(r) ==
  /\ idle' = idle \cup {r}
  /\ had' = had \cup {r}
  /\ UNCHANGED <<busVars, awaiting>>

MakeRequest(r) ==
  /\ join = "no"
  /\ r \notin asked
  /\ Serial => ~waiting
  /\ asked' = asked \cup {r}
  /\ held' = held \cup {r}
  /\ refs' = [refs EXCEPT ![r] = 2]
  /\ waiting' = TRUE
  /\ MissThumbnail(r) \/ UseCache(r)
  /\ UNCHANGED <<key, unqueued, errors, tasks, unqueueing, join, joined,
                 callVars>>

\* hildon_thumbnail_request_unqueue: without a handle only the flag is set.
Unqueue(r) ==
  /\ join = "no"
  /\ r \in held
  /\ r \notin unqueued
  /\ unqueued' = unqueued \cup {r}
  /\ IF key[r] # NoKey
     THEN /\ unqueueing' = unqueueing \cup {r}
          /\ refs' = [refs EXCEPT ![r] = @ + 1]
     ELSE UNCHANGED <<unqueueing, refs>>
  /\ UNCHANGED <<busVars, key, errors, tasks, waiting, idle, awaiting,
                 appVars, NotCalled>>

Release(r) ==
  /\ join = "no"
  /\ r \in held
  /\ held' = held \ {r}
  /\ refs' = Unref(<<r>>)
  /\ UNCHANGED <<busVars, key, unqueued, errors, tasks, waiting, idle,
                 awaiting, unqueueing, asked, join, joined, NotCalled>>

\* hildon_thumbnail_factory_join (None) and hildon_thumbnail_request_join:
\* two loops that dispatch, the first on the flag, the second on the table.
Join(r) ==
  /\ Joins
  /\ join = "no"
  /\ r \in held \cup {None}
  /\ join' = "flag"
  /\ joined' = r
  /\ UNCHANGED <<busVars, libVars, asked, held, NotCalled>>

FlagDownAlways == TRUE
FlagDown == ~waiting

JoinFlag ==
  /\ join = "flag"
  /\ FlagDown
  /\ join' = "table"
  /\ UNCHANGED <<busVars, libVars, asked, held, joined, NotCalled>>

NothingToJoin ==
  IF joined = None THEN \A k \in Key : tasks[k] = None
  ELSE \A k \in {key[joined]} \ {NoKey} : tasks[k] = None

JoinReturns ==
  /\ join = "table"
  /\ NothingToJoin
  /\ join' = "no"
  /\ joined' = None
  /\ UNCHANGED <<busVars, libVars, asked, held, NotCalled>>

-----------------------------------------------------------------------------
(* The library, called by the main context.                                  *)

\* create_pixbuf_and_callback.
CallBack(r) ==
  /\ called' = [called EXCEPT ![r] = @ + 1]
  /\ blamed' = IF r \in errors THEN blamed \cup {r} ELSE blamed

HaveAll(r) ==
  /\ r \in idle
  /\ idle' = idle \ {r}
  /\ waiting' = FALSE
  /\ refs' = Unref(<<r>>)
  /\ CallBack(r)
  /\ UNCHANGED <<busVars, key, unqueued, errors, tasks, awaiting,
                 unqueueing, appVars, had>>

\* The reference of the call goes to the table, or is dropped; an entry the
\* new one replaces loses its own.
DroppedForgets(r, k) == IF r \in unqueued THEN <<>> ELSE <<tasks[k]>>
Dropped(r, k) == IF r \in unqueued THEN <<r>> ELSE <<tasks[k]>>

\* on_got_handle.  It does not look at the error: k is garbage then.
GotHandle(r, k) ==
  /\ awaiting' = awaiting \ {r}
  /\ waiting' = FALSE
  /\ refs' = Unref(Dropped(r, k))
  /\ IF r \in unqueued THEN UNCHANGED <<key, tasks>>
     ELSE /\ key' = [key EXCEPT ![r] = k]
          /\ tasks' = [tasks EXCEPT ![k] = r]
  /\ UNCHANGED <<unqueued, errors, idle, unqueueing, callVars>>

\* A reply to a call that has timed out already is dropped by D-Bus.
TooLate ==
  UNCHANGED <<libVars, callVars>>

TaskError(h) ==
  /\ errors' = errors \cup ({tasks[h]} \ {None})
  /\ UNCHANGED <<key, unqueued, tasks, waiting, idle, awaiting, unqueueing,
                 refs, callVars>>

RunsCallback(r) == r \notin unqueued

RemovedKept(k) == tasks
Removed(k) == [tasks EXCEPT ![k] = None]

TaskFinished(h) ==
  IF tasks[h] = None THEN UNCHANGED <<libVars, callVars>>
  ELSE /\ IF RunsCallback(tasks[h]) THEN CallBack(tasks[h])
          ELSE UNCHANGED callVars
       /\ refs' = Unref(<<tasks[h]>>)
       /\ tasks' = Removed(h)
       /\ UNCHANGED <<key, unqueued, errors, waiting, idle, awaiting, unqueueing>>

\* The next message of the daemon's connection.
Dispatch ==
  /\ TakeMessage
  /\ LET m == Head(wire)
     IN CASE m.msg = "reply" -> IF m.call[2] \in awaiting
                                THEN GotHandle(m.call[2], m.handle) ELSE TooLate
          [] m.msg = "noreply" -> IF m.call[2] \in awaiting
                                  THEN \E k \in Garbage : GotHandle(m.call[2], k)
                                  ELSE TooLate
          [] m.msg = "Error" -> TaskError(m.task[2])
          [] m.msg = "Finished" -> TaskFinished(m.task[2])
  /\ UNCHANGED <<calls, appVars, had>>

\* No answer within the bus's time limit.
QueueTimesOut(r) ==
  /\ MayFail
  /\ r \in awaiting
  /\ \E k \in Garbage : GotHandle(r, k)
  /\ UNCHANGED <<busVars, appVars, had>>

\* on_unqueued.  The daemon never replies to Unqueue: it runs when the call
\* times out.
UnqueueTimesOut(r) ==
  /\ r \in unqueueing
  /\ unqueueing' = unqueueing \ {r}
  /\ refs' = Unref(<<r, tasks[key[r]]>>)
  /\ tasks' = Removed(key[r])
  /\ UNCHANGED <<busVars, key, unqueued, errors, waiting, idle,
                 awaiting, appVars, NotCalled>>

Elsewhere == Daemon({"thumbnail"}) /\ UNCHANGED <<libVars, appVars, had, callVars>>

Application ==
  \/ \E r \in Request : MakeRequest(r) \/ Unqueue(r) \/ Release(r)
  \/ \E r \in Request \cup {None} : Join(r)

Loop ==
  \/ JoinFlag
  \/ JoinReturns
  \/ \E r \in Request : HaveAll(r) \/ QueueTimesOut(r) \/ UnqueueTimesOut(r)
  \/ Dispatch

Next == Elsewhere \/ Application \/ Loop

Spec == Init /\ [][Next]_vars

\* Threads and main loops are scheduled and a call that is not answered times
\* out; applications, other clients and unmounts promise nothing.
Fairness ==
  /\ WF_vars(Serve /\ UNCHANGED <<libVars, appVars, had, callVars>>)
  /\ WF_vars(Dispatch)
  /\ \A r \in Request : WF_vars(HaveAll(r)) /\ WF_vars(UnqueueTimesOut(r))
  /\ \A r \in Request : WF_vars(QueueTimesOut(r))
  /\ WF_vars(JoinFlag \/ JoinReturns)

FairSpec == Spec /\ Fairness

-----------------------------------------------------------------------------
(* Properties.                                                               *)

Keys(r) == {k \in Key : tasks[k] = r}
One(b) == IF b THEN 1 ELSE 0

TypeOK ==
  /\ DaemonTypeOK
  /\ key \in [Request -> Key \cup {NoKey}]
  /\ tasks \in [Key -> Request \cup {None}]
  /\ waiting \in BOOLEAN
  /\ refs \in [Request -> Nat]
  /\ called \in [Request -> Nat]
  /\ \A S \in {unqueued, errors, idle, awaiting, unqueueing, held, had,
               blamed} : S \subseteq asked
  /\ asked \subseteq Request
  /\ join \in {"no", "flag", "table"}
  /\ joined \in Request \cup {None}

\* A request's reference count is the number of those who hold one: the
\* application, a call or idle source that will call back with it, the table.
\* One unref too few and it is never finalized, one too many and a late reply
\* or Finished touches a finalized request.
RefsBalance ==
  /\ TypeOK
  /\ \A r \in asked :
       refs[r] = One(r \in held) + One(r \in awaiting) + One(r \in idle)
                 + One(r \in unqueueing) + Cardinality(Keys(r))

\* Whatever is lost or late, a request's callback, which frees user_data,
\* never runs twice, and the table never holds a request under two handles.
CalledBackAtMostOnce ==
  \A r \in Request :
    /\ called[r] <= 1
    /\ Cardinality(Keys(r)) <= 1
    /\ called[r] = 1 => r \notin awaiting \cup idle /\ Keys(r) = {}

\* Signals carry a handle and reach every client: in an orderly world the
\* callback of a request runs only after its own task was finished, never for a
\* stranger's, and is given an error only if the daemon sent one for it.
CalledBackForItsOwnTask == world = "orderly" =>
  /\ \A r \in Request : called[r] > 0 => r \in had \/ <<"thumbnail", r>> \in served
  /\ \A r \in blamed : <<"thumbnail", r>> \in failed

\* hildon-thumbnail-factory.h: "Waits until all queued requests in @self are
\* completed".  When the join of an application that waited for its replies
\* returns, each request was called back or unqueued.
JoinIsComplete ==
  world = "orderly" /\ JoinReturns /\ joined = None =>
    \A r \in asked : called[r] > 0 \/ r \in unqueued

JoinMeansCompleted == [][JoinIsComplete]_vars

\* hildon-thumbnail-factory.h: the callback is "Called when the thumbnailing
\* process finishes or there is an error".
EveryRequestCalledBack ==
  \A r \in Request : r \in asked ~> called[r] > 0 \/ r \in unqueued
=============================================================================
