----------------------------- MODULE GatedQueue -----------------------------
(***************************************************************************)
(* The queue (Thumbnailer) of a build with HAVE_OSSO: the thread of the    *)
(* large pool passes the gate (TrackerGate) before it examines each url of *)
(* its request, and the main loop that serves Queue, Unqueue and the       *)
(* unmount also handles Tracker's signals.                                 *)
(***************************************************************************)
EXTENDS Thumbnailer

ASSUME OneLargeThread == Cardinality(LargeThreads) = 1
ASSUME FiniteUrls == IsFiniteSet(Url)

large == CHOOSE w \in LargeThreads : TRUE

VARIABLES gate, left, mustWait, announced, handler

gateVars == <<gate, left, mustWait, announced, handler>>
gatedVars == <<vars, gateVars>>

\* TrackerGate's waiting is named announced here.  What Tracker is doing and what
\* it has sent do not matter, only what is handled: any signal at any time.
Gate == INSTANCE TrackerGate WITH
  Urls <- Cardinality(Url),
  waiting <- announced,
  tracker <- "Idle",
  bus <- <<>>,
  MaxSignals <- 0

GatedInit ==
  /\ Init
  /\ gate = "work"
  /\ left = 0
  /\ mustWait = FALSE
  /\ announced = FALSE
  /\ handler = "none"

-----------------------------------------------------------------------------
(* The thread of the large pool.                                             *)

\* It takes a task: all of its urls are to pass.
TakeLarge ==
  /\ Take(large)
  /\ left' = Cardinality(todo'[large])
  /\ UNCHANGED <<gate, mustWait, announced, handler>>

\* A url's turn: it is examined when the gate was passed for it.
Examine(w) ==
  \E u \in Url :
    ExamineUnreadable(w, u) \/ ExamineCached(w, u) \/ ExamineMissing(w, u)

Passed == gate = "work" /\ left < Cardinality(todo[large])

ExamineLarge ==
  /\ Passed
  /\ Examine(large)
  /\ UNCHANGED gateVars

AtGate ==
  /\ Running
  /\ \/ Gate!NextUrl /\ left = Cardinality(todo[large])
     \/ Gate!CheckMustWait
     \/ Gate!Sleep
  /\ UNCHANGED vars

\* The rest of do_the_work has nothing to do with the gate.
BesideGate(w) ==
  \/ Start(w)
  \/ EmitCached(w)
  \/ \E u \in Url : ToSpecialized(w, u) \/ ToPlugin(w, u) \/ NoHandler(w, u)
  \/ \E u \in Url : SpecializedAnswer(w, u)
  \/ \E failed \in SUBSET Url : PluginReturn(w, failed)
  \/ Finish(w)

WorkLarge ==
  \/ TakeLarge
  \/ ExamineLarge
  \/ AtGate
  \/ BesideGate(large) /\ UNCHANGED gateVars

WorkNormal(w) == Work(w) /\ UNCHANGED gateVars

-----------------------------------------------------------------------------
(* The main loop: one callback at a time.                                    *)

Method ==
  /\ handler = "none"
  /\ \/ \E U \in SUBSET Url, h \in 0..MaxTasks : Queue(U, h)
     \/ \E h \in Handle : Unqueue(h)
     \/ CrashOut
  /\ UNCHANGED gateVars

Completes == (QueueReply \/ Exit) /\ UNCHANGED gateVars

TrackerSignal ==
  /\ main = "idle"
  /\ \E s \in Gate!State : Gate!HandleSignal(s)
  /\ UNCHANGED vars

TrackerHandled == (Gate!Release \/ Gate!ClearMustWait) /\ UNCHANGED vars

\* g_cond_wait may return by itself.
Spurious == Running /\ Gate!WakeSpuriously /\ UNCHANGED vars

\* A new process, with a new connection.
RestartGated ==
  /\ Restart
  /\ gate' = "work"
  /\ left' = 0
  /\ mustWait' = FALSE
  /\ announced' = FALSE
  /\ UNCHANGED handler

GatedNext ==
  \/ Method
  \/ Completes
  \/ TrackerSignal
  \/ TrackerHandled
  \/ Spurious
  \/ RestartGated
  \/ WorkLarge
  \/ \E w \in NormalThreads : WorkNormal(w)

GatedSpec == GatedInit /\ [][GatedNext]_gatedVars

\* The threads are scheduled, every file operation, plugin call and specialized
\* call returns, and the main loop completes what it began.  Clients, unmounts,
\* activation and Tracker promise nothing.
GatedFairness ==
  /\ WF_gatedVars(Completes)
  /\ WF_gatedVars(TrackerHandled)
  /\ WF_gatedVars(WorkLarge)
  /\ \A w \in NormalThreads : WF_gatedVars(WorkNormal(w))

GatedFairSpec == GatedSpec /\ GatedFairness

-----------------------------------------------------------------------------
(* Properties.                                                               *)

\* A sleeping thread is always one the next Idle signal will wake, since the
\* flag is never cleared without a wakeup; and it is held for a url of its
\* request, for which it passes the gate once: the gate is never behind or ahead
\* of the examination by more than the url whose turn it is.
SleeperIsKnown ==
  /\ Gate!TypeOK
  /\ Gate!SleeperIsKnown
  /\ gate # "work" => pc[large] = "examine" /\ left < Cardinality(todo[large])
  /\ pc[large] = "examine" =>
       left \in {Cardinality(todo[large]) - 1, Cardinality(todo[large])}

\* A large request that waits for Tracker holds nobody up but the large pool:
\* every other request is closed by a Finished unless the process exits, and
\* so are the large ones if Tracker announces Idle again and again.
Closed(h) == finished[h] > 0 \/ main = "down"

EveryRequestFinishes ==
  \A h \in Handle :
    /\ h \in tasks /\ PoolFor(urls[h]) = "normal" ~> Closed(h)
    /\ []<>(handler = "idle") => (h \in tasks ~> Closed(h))
=============================================================================
