----------------------------- MODULE TrackerGate -----------------------------
(***************************************************************************)
(* The gate that holds the thread of the large pool back while Tracker is  *)
(* indexing: daemon/thumbnailer.c in a build with HAVE_OSSO.               *)
(*                                                                         *)
(* Before each url the thread reads priv->must_wait, without a lock, and   *)
(* if it is set sleeps on priv->cond.  The main loop handles Tracker's     *)
(* IndexStateChange signals: "Idle" wakes the thread if priv->waiting says *)
(* it sleeps, and then clears must_wait; any other state sets it.          *)
(***************************************************************************)
EXTENDS Integers, Sequences

CONSTANTS
  Urls,       \* bound: urls of the large request
  MaxSignals  \* bound: IndexStateChange signals under way at a time

VARIABLES
  gate,      \* where the thread is: "check", "lock", "wait", "work"
  left,      \* urls it has not begun to work on
  mustWait,  \* priv->must_wait
  waiting,   \* priv->waiting
  handler,   \* where tracker_index_state_changed is: "none", "idle", "clear"
  tracker,   \* what Tracker is doing: "Idle" or "Indexing"
  bus        \* its signals the main loop has not handled

vars == <<gate, left, mustWait, waiting, handler, tracker, bus>>

State == {"Idle", "Indexing"}

TypeOK ==
  /\ gate \in {"check", "lock", "wait", "work"}
  /\ left \in 0..Urls
  /\ mustWait \in BOOLEAN
  /\ waiting \in BOOLEAN
  /\ handler \in {"none", "idle", "clear"}
  /\ tracker \in State
  /\ bus \in Seq(State)
  /\ Len(bus) <= MaxSignals

Init ==
  /\ gate = "work"
  /\ left = Urls
  /\ mustWait = FALSE
  /\ waiting = FALSE
  /\ handler = "none"
  /\ tracker \in State
  /\ bus = <<>>

-----------------------------------------------------------------------------
(* The thread of the large pool.                                             *)

MoreUrls == left > 0

\* The work on one url is over, the next one's turn begins.
NextUrl ==
  /\ gate = "work"
  /\ MoreUrls
  /\ left' = left - 1
  /\ gate' = "check"
  /\ UNCHANGED <<mustWait, waiting, handler, tracker, bus>>

\* if (big_thread && priv->must_wait), not holding priv->cmutex.
CheckMustWait ==
  /\ gate = "check"
  /\ gate' = IF mustWait THEN "lock" ELSE "work"
  /\ UNCHANGED <<left, mustWait, waiting, handler, tracker, bus>>

\* Under priv->cmutex, which g_cond_wait gives up: waiting is set in the same
\* critical section the thread falls asleep in.
AnnouncedNot == waiting
Announced == TRUE

Sleep ==
  /\ gate = "lock"
  /\ waiting' = Announced
  /\ gate' = "wait"
  /\ UNCHANGED <<left, mustWait, handler, tracker, bus>>

\* g_cond_wait may return for no reason, and the thread does not look again.
WakeSpuriously ==
  /\ gate = "wait"
  /\ gate' = "work"
  /\ UNCHANGED <<left, mustWait, waiting, handler, tracker, bus>>

-----------------------------------------------------------------------------
(* Tracker, and the main loop handling its signals.                          *)

Change(s) ==
  /\ Len(bus) < MaxSignals
  /\ tracker' = s
  /\ bus' = Append(bus, s)
  /\ UNCHANGED <<gate, left, mustWait, waiting, handler>>

HandleSignal(s) ==
  /\ handler = "none"
  /\ IF s = "Idle"
     THEN handler' = "idle" /\ UNCHANGED mustWait
     ELSE mustWait' = TRUE /\ UNCHANGED handler
  /\ UNCHANGED <<gate, left, waiting, tracker>>

Handle ==
  /\ bus # <<>>
  /\ bus' = Tail(bus)
  /\ HandleSignal(Head(bus))

\* Under priv->cmutex: wake the thread if it sleeps.
ReleaseForgetsFlag ==
  /\ handler = "idle"
  /\ handler' = "clear"
  /\ waiting' = FALSE
  /\ UNCHANGED <<gate, left, mustWait, tracker, bus>>

Release ==
  /\ handler = "idle"
  /\ handler' = "clear"
  /\ gate' = IF waiting /\ gate = "wait" THEN "work" ELSE gate
  /\ waiting' = FALSE
  /\ UNCHANGED <<left, mustWait, tracker, bus>>

\* priv->must_wait = FALSE, after the unlock.
ClearMustWait ==
  /\ handler = "clear"
  /\ handler' = "none"
  /\ mustWait' = FALSE
  /\ UNCHANGED <<gate, left, waiting, tracker, bus>>

MainLoop == Handle \/ Release \/ ClearMustWait
Thread == NextUrl \/ CheckMustWait \/ Sleep

Next ==
  \/ Thread
  \/ WakeSpuriously
  \/ \E s \in State : Change(s)
  \/ MainLoop

Spec == Init /\ [][Next]_vars

\* The thread runs when it is awake and the main loop handles what arrives;
\* Tracker need never change state, and no spurious wakeup need ever come.
FairSpec == Spec /\ WF_vars(Thread) /\ WF_vars(MainLoop)

-----------------------------------------------------------------------------
(* Properties.                                                               *)

\* A sleeping thread is always one the next Idle signal will wake: the flag is
\* never cleared without a wakeup.
SleeperIsKnown == gate = "wait" => waiting

\* ChangeLog: "Letting the big-task queue thread wait until Tracker is finished
\* indexing": once Tracker is idle for good the thread does not wait for good.
WaitEndsWhenTrackerIsIdle ==
  ~<>[](gate = "wait" /\ tracker = "Idle" /\ bus = <<>>)
=============================================================================
