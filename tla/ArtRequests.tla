---------------------------- MODULE ArtRequests ----------------------------
(***************************************************************************)
(* The client library for album art, thumbs/hildon-albumart-obj.c, on top  *)
(* of the older thumbnail calls (Loads), which it uses for a thumbnail of  *)
(* the art it has got.                                                     *)
(*                                                                         *)
(* A plain request is one object.  A thumbnail request is two: the one the *)
(* application is given, and a second one, its "real", that asks for the   *)
(* art; when that is called back the thumbnail is loaded, and a record     *)
(* (ArtReqInfo) keeps the first object until the load calls back.          *)
(*                                                                         *)
(* Bounds: each request is made once and unqueued at most once; it is      *)
(* unqueued or joined only when its handle is known, since both read       *)
(* r_priv->key; nothing is called inside a callback but what               *)
(* intercept_callback calls; other clients' tasks and Error signals, which *)
(* thumb_callback passes on, are left to Loads; as many requests are for a *)
(* thumbnail as a service takes calls.                                     *)
(***************************************************************************)
EXTENDS Loads

ASSUME BothServices == Service = {"thumbnail", "albumart"}

Request == Caller

VARIABLES
  thumbs,       \* the requests for a thumbnail
  artKey,       \* [Request -> r_priv->key], of the real request
  artTasks,     \* f_priv->tasks: [Key -> Request \cup {None}], real requests
  artWaiting,   \* waiting_for_cb of this file
  artPending,   \* the requests whose Queue call has no reply yet
  unqueueing,   \* the requests with an Unqueue call under way
  info,         \* the requests with an ArtReqInfo
  outerRefs,    \* references to the object a thumbnail request was given
  realRefs,     \* references to the object that asks for the art
  artAsked,     \* the requests made so far
  held,         \* the requests the application holds a reference to
  join,         \* where a join is: "no", "flag" or "table"
  joined,       \* the request it joins, None for all
  unqueued,     \* history: requests the application unqueued
  artCalled     \* history: [Request -> how often its callback ran]

tableVars == <<artKey, artTasks, artWaiting, artPending>>
madeVars == <<thumbs, artAsked>>
joinVars == <<join, joined>>
artVars == <<madeVars, tableVars, unqueueing, info, outerRefs, realRefs, held,
             joinVars, unqueued, artCalled>>
artSpecVars == <<vars, artVars>>

ArtInit ==
  /\ thumbs = {}
  /\ artKey = [r \in Request |-> NoKey]
  /\ artTasks = [k \in Key |-> None]
  /\ artWaiting = FALSE
  /\ artPending = {}
  /\ unqueueing = {}
  /\ info = {}
  /\ outerRefs = [r \in Request |-> 0]
  /\ realRefs = [r \in Request |-> 0]
  /\ artAsked = {}
  /\ held = {}
  /\ join = "no"
  /\ joined = None
  /\ unqueued = {}
  /\ artCalled = [r \in Request |-> 0]

-----------------------------------------------------------------------------
(* References.  The first object of a thumbnail request owns a reference to  *)
(* its real one, which finalize drops.                                       *)

One(b) == IF b THEN 1 ELSE 0

Finalized(r) == r \in thumbs /\ outerRefs[r] > 0 /\ outerRefs'[r] = 0

\* g_object_unref of the real requests in the sequence rs; None is no request.
UnrefReal(rs) ==
  realRefs' = [r \in Request |-> realRefs[r] - One(Finalized(r))
                                 - Cardinality({n \in DOMAIN rs : rs[n] = r})]

UnrefOuter(r) == outerRefs' = [outerRefs EXCEPT ![r] = @ - 1]

-----------------------------------------------------------------------------
(* What the application calls.                                               *)

\* hildon_albumart_factory_queue and _queue_thumbnail: a reference for the
\* application, one for the Queue call, one for the record.
QueueArt(r) ==
  /\ join = "no"
  /\ r \notin artAsked
  /\ Serial => ~artWaiting
  /\ artAsked' = artAsked \cup {r}
  /\ held' = held \cup {r}
  /\ realRefs' = [realRefs EXCEPT ![r] = 2]
  /\ \/ UNCHANGED <<thumbs, info, outerRefs>>
     \/ /\ Cardinality(thumbs) < TaskLimit
        /\ thumbs' = thumbs \cup {r}
        /\ info' = info \cup {r}
        /\ outerRefs' = [outerRefs EXCEPT ![r] = 2]
  /\ artWaiting' = TRUE
  /\ artPending' = artPending \cup {r}
  /\ AskDaemon("albumart", r)
  /\ UNCHANGED <<loadVars, artKey, artTasks, unqueueing, joinVars,
                 unqueued, artCalled>>

\* hildon_albumart_request_unqueue, which goes on to the real request.
UnqueueArt(r) ==
  /\ join = "no"
  /\ r \in held \ unqueued
  /\ artKey[r] # NoKey
  /\ unqueued' = unqueued \cup {r}
  /\ unqueueing' = unqueueing \cup {r}
  /\ realRefs' = [realRefs EXCEPT ![r] = @ + 1]
  /\ UNCHANGED <<vars, madeVars, tableVars, info, outerRefs, held, joinVars,
                 artCalled>>

Release(r) ==
  /\ join = "no"
  /\ r \in held
  /\ held' = held \ {r}
  /\ IF r \in thumbs THEN UnrefOuter(r) /\ UnrefReal(<<>>)
                     ELSE UNCHANGED outerRefs /\ UnrefReal(<<r>>)
  /\ UNCHANGED <<vars, madeVars, tableVars, unqueueing, info, joinVars, unqueued,
                 artCalled>>

\* hildon_albumart_factory_join (None) and hildon_albumart_request_join.
Join(r) ==
  /\ ~MayFail
  /\ join = "no"
  /\ r # None => r \in held /\ artKey[r] # NoKey
  /\ join' = "flag"
  /\ joined' = r
  /\ UNCHANGED <<vars, madeVars, tableVars, unqueueing, info, outerRefs, realRefs,
                 held, unqueued, artCalled>>

ArtFlagIgnored == TRUE
ArtFlagDown == ~artWaiting

JoinFlag ==
  /\ join = "flag"
  /\ ArtFlagDown
  /\ join' = "table"
  /\ UNCHANGED <<vars, madeVars, tableVars, unqueueing, info, outerRefs, realRefs,
                 held, joined, unqueued, artCalled>>

NothingToJoin ==
  IF joined = None THEN \A k \in Key : artTasks[k] = None
  ELSE artTasks[artKey[joined]] = None

JoinReturns ==
  /\ join = "table"
  /\ NothingToJoin
  /\ join' = "no"
  /\ joined' = None
  /\ UNCHANGED <<vars, madeVars, tableVars, unqueueing, info, outerRefs, realRefs,
                 held, unqueued, artCalled>>

-----------------------------------------------------------------------------
(* What the main context dispatches.                                         *)

\* on_got_handle, which does not look at the error: the reference of the call
\* becomes the table's, and an entry that is replaced loses its own.
ReplacedKept(k) == <<>>
Replaced(k) == <<artTasks[k]>>

GotArtHandle(r, k) ==
  /\ r \in artPending
  /\ artPending' = artPending \ {r}
  /\ artKey' = [artKey EXCEPT ![r] = k]
  /\ artTasks' = [artTasks EXCEPT ![k] = r]
  /\ artWaiting' = FALSE
  /\ UNCHANGED outerRefs
  /\ UnrefReal(Replaced(k))
  /\ UNCHANGED <<loadVars, madeVars, unqueueing, info, held, joinVars, unqueued,
                 artCalled>>

ArtTooLate(r) ==
  /\ r \notin artPending
  /\ UNCHANGED <<loadVars, artVars>>

ArtCallBack(r) == artCalled' = [artCalled EXCEPT ![r] = @ + 1]

\* thumb_callback.
ThumbCallback(r) ==
  /\ ArtCallBack(r)
  /\ info' = info \ {r}
  /\ UnrefOuter(r)

\* intercept_callback: the thumbnail is loaded if the art is there.
Intercept(r) ==
  \/ Load(r) /\ UNCHANGED <<artCalled, info, outerRefs>>
  \/ ThumbCallback(r) /\ UNCHANGED <<loadVars, calls>>

\* on_task_finished: the callback, then the entry goes with its reference.
ArtEntryKept(k) == artTasks
ArtEntryRemoved(k) == [artTasks EXCEPT ![k] = None]

ArtFinished(k) ==
  IF artTasks[k] = None THEN UNCHANGED <<loadVars, artVars, calls>>
  ELSE /\ IF artTasks[k] \in thumbs THEN Intercept(artTasks[k])
          ELSE /\ ArtCallBack(artTasks[k])
               /\ UNCHANGED <<loadVars, info, outerRefs, calls>>
       /\ artTasks' = ArtEntryRemoved(k)
       /\ UnrefReal(<<artTasks[k]>>)
       /\ UNCHANGED <<madeVars, artKey, artWaiting, artPending, unqueueing, held,
                      joinVars, unqueued>>

\* A load of the library's own has called back, or none has.
LoadsCallBack ==
  IF called' = called THEN UNCHANGED artVars
  ELSE /\ \E r \in Request : called'[r] # called[r] /\ ThumbCallback(r)
       /\ UnrefReal(<<>>)
       /\ UNCHANGED <<madeVars, tableVars, unqueueing, held, joinVars, unqueued>>

ServiceOf(m) == IF m.msg \in {"reply", "noreply"} THEN m.call[1] ELSE m.task[1]

\* An Error is of the thumbnail service.
ReceiveArt(m) ==
  CASE m.msg = "reply" -> /\ GotArtHandle(m.call[2], m.handle) \/ ArtTooLate(m.call[2])
                          /\ UNCHANGED calls
    [] m.msg = "noreply" -> /\ \/ \E k \in Garbage : GotArtHandle(m.call[2], k)
                               \/ ArtTooLate(m.call[2])
                            /\ UNCHANGED calls
    [] m.msg = "Finished" -> ArtFinished(m.task[2])

DispatchBoth ==
  /\ TakeMessage
  /\ IF ServiceOf(Head(wire)) = "albumart" THEN ReceiveArt(Head(wire))
     ELSE Receive(Head(wire)) /\ LoadsCallBack /\ UNCHANGED calls

ArtQueueTimesOut(r) ==
  /\ MayFail
  /\ \E k \in Garbage : GotArtHandle(r, k)
  /\ Undisturbed

\* on_unqueued, when the call times out.
ArtUnqueueTimesOut(r) ==
  /\ r \in unqueueing
  /\ unqueueing' = unqueueing \ {r}
  /\ artTasks' = ArtEntryRemoved(artKey[r])
  /\ UNCHANGED outerRefs
  /\ UnrefReal(<<r, artTasks[artKey[r]]>>)
  /\ UNCHANGED <<vars, madeVars, artKey, artWaiting, artPending, info, held,
                 joinVars, unqueued, artCalled>>

ArtNext ==
  \/ Daemon({}) /\ UNCHANGED <<loadVars, artVars>>
  \/ \E r \in Request : QueueArt(r) \/ UnqueueArt(r) \/ Release(r)
  \/ \E r \in Request \cup {None} : Join(r)
  \/ JoinFlag \/ JoinReturns
  \/ \E r \in Request : ArtQueueTimesOut(r) \/ ArtUnqueueTimesOut(r)
  \/ \E i \in Item : Timers(i) /\ LoadsCallBack
  \/ DispatchBoth

ArtSpec == Init /\ lib = "thumbnail" /\ ArtInit /\ [][ArtNext]_artSpecVars

-----------------------------------------------------------------------------
(* Properties.                                                               *)

ArtKeys(r) == {k \in Key : artTasks[k] = r}

ArtTypeOK ==
  /\ TypeOK
  /\ artKey \in [Request -> Key \cup {NoKey}]
  /\ artTasks \in [Key -> Request \cup {None}]
  /\ artWaiting \in BOOLEAN
  /\ outerRefs \in [Request -> Nat]
  /\ realRefs \in [Request -> Nat]
  /\ artCalled \in [Request -> Nat]
  /\ \A S \in {thumbs, artPending, unqueueing, info, held, unqueued} :
       S \subseteq artAsked \cup asked
  /\ artAsked \subseteq Request
  /\ join \in {"no", "flag", "table"}
  /\ joined \in Request \cup {None}

\* Both objects of a request are referenced once by each of those who will use
\* them: the first by the application and by the record thumb_callback is
\* given, the real one by the first (or, of a plain request, the application),
\* by the calls under way and by the table.
ArtRefsBalance ==
  /\ ArtTypeOK
  /\ \A r \in artAsked :
       /\ outerRefs[r] = IF r \in thumbs THEN One(r \in held) + One(r \in info) ELSE 0
       /\ realRefs[r] = One(IF r \in thumbs THEN outerRefs[r] > 0 ELSE r \in held)
                        + One(r \in artPending) + One(r \in unqueueing)
                        + Cardinality(ArtKeys(r))

\* The application's callback, which frees user_data, runs at most once, whether
\* from the art or from the load of its thumbnail, and nothing is left that
\* would run it again.
ArtCalledBackAtMostOnce ==
  \A r \in artAsked :
    /\ artCalled[r] <= 1
    /\ artCalled[r] = 1 =>
         /\ r \notin artPending \cup info \cup pending \cup idle
         /\ ArtKeys(r) = {} /\ Entries(r) = {}
    /\ r \in asked => r \in thumbs

\* hildon-albumart-factory.h: join "Waits until all queued requests in @self are
\* completed".  When it returns to an application that waited for its replies, a
\* request was called back or unqueued, or is a thumbnail request whose art has
\* come and whose thumbnail is being loaded: for that no join waits.
ArtJoinIsComplete ==
  world = "orderly" /\ JoinReturns /\ joined = None =>
    \A r \in artAsked : artCalled[r] > 0 \/ r \in unqueued \/ r \in asked
=============================================================================
