------------------------------- MODULE Loads -------------------------------
(***************************************************************************)
(* The older calls of the client libraries: load, cancel and wait of       *)
(* thumbs/hildon-thumbnail-factory.c and of its sibling for album art,     *)
(* thumbs/hildon-albumart-factory.c, against the daemon (QueueOnBus).      *)
(*                                                                         *)
(* A load allocates an item, which the application uses as its handle.     *)
(* Nothing counts references: the item is freed with its entry in the      *)
(* static table of tasks, or with the idle source that calls back for it.  *)
(* The two libraries differ in what they do with a failed Queue call and   *)
(* in when a cancelled item leaves the table.                              *)
(*                                                                         *)
(* Abstracted: the files (a load either finds its thumbnail or asks the    *)
(* daemon) and pixbufs.  Bounds: each item is made once and cancelled at   *)
(* most once, by an application that has not been called back for it and   *)
(* that calls nothing from inside a callback; wait, which ends only if the *)
(* daemon answers, is not used in the rough world.                         *)
(***************************************************************************)
EXTENDS QueueOnBus

CONSTANT Libraries  \* the libraries looked at: "thumbnail", "albumart"

ASSUME LibrariesAssumption == Libraries \subseteq Service

Item == Caller

VARIABLES
  lib,        \* the library of this behaviour, named by the service it asks
  handleId,   \* [Item -> item->handle_id]
  tasks,      \* the table: [Key -> Item \cup {None}]
  waiting,    \* waiting_for_cb
  pending,    \* the items whose Queue call has not been answered
  idle,       \* the items with an idle callback to come
  cancelling, \* albumart: the items with an Unqueue call under way
  freed,      \* the items that were freed
  errors,     \* thumbnail: the items with item->errors
  wait,       \* where a wait is: "no", "flag" or "table"
  asked,      \* the items made so far
  \* history
  had,        \* items whose thumbnail was there when they were made
  cancelled,  \* items the application cancelled when their handle was known
  called,     \* [Item -> how often its callback ran]
  blamed,     \* items whose callback was given an error of the daemon
  misread     \* was a freed item read, and its handle_id not what it had been?

itemVars == <<handleId, freed, errors>>
histVars == <<had, cancelled, misread>>
callVars == <<called, blamed>>
loadVars == <<lib, itemVars, tasks, waiting, pending, idle, cancelling, wait,
              asked, histVars, callVars>>
vars == <<busVars, loadVars>>

LoadsInit ==
  /\ lib \in Libraries
  /\ handleId = [i \in Item |-> NoKey]
  /\ tasks = [k \in Key |-> None]
  /\ waiting = FALSE
  /\ pending = {}
  /\ idle = {}
  /\ cancelling = {}
  /\ freed = {}
  /\ errors = {}
  /\ wait = "no"
  /\ asked = {}
  /\ had = {}
  /\ cancelled = {}
  /\ called = [i \in Item |-> 0]
  /\ blamed = {}
  /\ misread = FALSE

Init == DaemonInit /\ LoadsInit

-----------------------------------------------------------------------------
(* load, as the application or another library calls it.                     *)

\* The thumbnail is there: the callback comes from an idle source.
FindAll(i) ==
  /\ idle' = idle \cup {i}
  /\ had' = had \cup {i}
  /\ UNCHANGED <<calls, waiting, pending>>

\* It is not there, or old, or RECREATE was asked for: the daemon is asked.
Miss(i) ==
  /\ waiting' = TRUE
  /\ calls' = Append(calls, <<lib, i>>)
  /\ pending' = pending \cup {i}
  /\ UNCHANGED <<idle, had>>

Load(i) ==
  /\ i \notin asked
  /\ asked' = asked \cup {i}
  /\ FindAll(i) \/ Miss(i)
  /\ UNCHANGED <<lib, itemVars, tasks, cancelling, wait, cancelled, misread,
                 callVars>>

-----------------------------------------------------------------------------
(* The table.                                                                *)

\* g_hash_table_remove frees the item with its entry.
EntryKept(k) == tasks
EntryRemoved(k) == [tasks EXCEPT ![k] = None]
FreedWith(k) == freed \cup ({tasks[k]} \ {None})

\* What item->handle_id yields: anything once the item has been freed.
ReadHandle(i) == {handleId[i]} \cup IF i \in freed THEN Garbage ELSE {}

CallBack(i) ==
  /\ called' = [called EXCEPT ![i] = @ + 1]
  /\ blamed' = IF i \in errors THEN blamed \cup {i} ELSE blamed

-----------------------------------------------------------------------------
(* cancel and wait, called by the application.                               *)

\* A handle may be cancelled until its callback has run.
MayCancel(i) ==
  /\ wait = "no"
  /\ i \in asked \ cancelled
  /\ called[i] = 0

\* hildon_thumbnail_factory_cancel: the item leaves the table and is freed at
\* once.  The Unqueue call that follows reads its handle_id out of freed memory
\* (whatever it names, it only changes when that task is finished), and its
\* reply is not looked at.
CancelThumbnail(i) ==
  /\ lib = "thumbnail"
  /\ \E k \in ReadHandle(i) \ {NoKey} :
       /\ tasks' = EntryRemoved(k)
       /\ freed' = FreedWith(k)
  /\ cancelled' = cancelled \cup {i}
  /\ UNCHANGED <<handleId, errors, cancelling, misread>>

\* hildon_albumart_factory_cancel: only the Unqueue call is made, and keeps the
\* item's address.
CancelArt(i) ==
  /\ lib = "albumart"
  /\ \E k \in ReadHandle(i) : k # NoKey
  /\ cancelling' = cancelling \cup {i}
  /\ cancelled' = cancelled \cup {i}
  /\ UNCHANGED <<itemVars, tasks, misread>>

\* An item without a handle yet is left alone: cancel then does nothing.
Cancel(i) ==
  /\ MayCancel(i)
  /\ CancelThumbnail(i) \/ CancelArt(i)
  /\ UNCHANGED <<busVars, lib, waiting, pending, idle, wait, asked, had, callVars>>

Wait ==
  /\ ~MayFail
  /\ wait = "no"
  /\ wait' = "flag"
  /\ UNCHANGED <<busVars, lib, itemVars, tasks, waiting, pending, idle, cancelling,
                 asked, histVars, callVars>>

FlagIgnored == TRUE
FlagDown == ~waiting

WaitFlag ==
  /\ wait = "flag"
  /\ FlagDown
  /\ wait' = "table"
  /\ UNCHANGED <<busVars, lib, itemVars, tasks, waiting, pending, idle, cancelling,
                 asked, histVars, callVars>>

WaitReturns ==
  /\ wait = "table"
  /\ \A k \in Key : tasks[k] = None
  /\ wait' = "no"
  /\ UNCHANGED <<busVars, lib, itemVars, tasks, waiting, pending, idle, cancelling,
                 asked, histVars, callVars>>

-----------------------------------------------------------------------------
(* What the main context dispatches.                                         *)

\* have_all_cb, and the source's destroy function.
HaveAll(i) ==
  /\ i \in idle
  /\ idle' = idle \ {i}
  /\ CallBack(i)
  /\ freed' = freed \cup {i}
  /\ UNCHANGED <<lib, handleId, errors, tasks, waiting, pending, cancelling, wait,
                 asked, histVars>>

\* on_got_handle enters the item; one it replaces is freed with its entry.
Enter(i, k) ==
  /\ tasks' = [tasks EXCEPT ![k] = i]
  /\ freed' = FreedWith(k)
  /\ UNCHANGED callVars

\* The call failed and k is garbage.  One library looks at the error, calls
\* back and forgets the item, the other enters it.
Refuse(i, k) ==
  IF lib = "thumbnail" THEN CallBack(i) /\ UNCHANGED <<tasks, freed>>
  ELSE Enter(i, k)

GotHandle(i, k, failure) ==
  /\ i \in pending
  /\ pending' = pending \ {i}
  /\ handleId' = [handleId EXCEPT ![i] = k]
  /\ waiting' = FALSE
  /\ IF failure THEN Refuse(i, k) ELSE Enter(i, k)
  /\ UNCHANGED <<lib, errors, idle, cancelling, wait, asked, histVars>>

\* D-Bus drops the reply to a call that has timed out.
TooLate(i) ==
  /\ i \notin pending
  /\ UNCHANGED loadVars

TaskErrorEnds(k) ==
  /\ errors' = errors \cup ({tasks[k]} \ {None})
  /\ tasks' = EntryRemoved(k)
  /\ freed' = FreedWith(k)
  /\ UNCHANGED <<lib, handleId, waiting, pending, idle, cancelling, wait, asked,
                 histVars, callVars>>

TaskError(k) ==
  /\ errors' = errors \cup ({tasks[k]} \ {None})
  /\ UNCHANGED <<lib, handleId, freed, tasks, waiting, pending, idle, cancelling,
                 wait, asked, histVars, callVars>>

TaskFinished(k) ==
  IF tasks[k] = None THEN UNCHANGED loadVars
  ELSE /\ CallBack(tasks[k])
       /\ tasks' = EntryRemoved(k)
       /\ freed' = FreedWith(k)
       /\ UNCHANGED <<lib, handleId, errors, waiting, pending, idle, cancelling,
                      wait, asked, histVars>>

\* A message of the service this library uses.
Receive(m) ==
  CASE m.msg = "reply" -> GotHandle(m.call[2], m.handle, FALSE) \/ TooLate(m.call[2])
    [] m.msg = "noreply" -> \/ \E k \in Garbage : GotHandle(m.call[2], k, TRUE)
                            \/ TooLate(m.call[2])
    [] m.msg = "Error" -> TaskError(m.task[2])
    [] m.msg = "Finished" -> TaskFinished(m.task[2])

\* No answer to Queue within the bus's time limit.
QueueTimesOut(i) ==
  /\ MayFail
  /\ \E k \in Garbage : GotHandle(i, k, TRUE)

\* on_cancelled of the album art library, which runs when the Unqueue call times
\* out: the item may have been freed when its task was finished.
UnqueueTimesOut(i) ==
  /\ i \in cancelling
  /\ cancelling' = cancelling \ {i}
  /\ \E k \in ReadHandle(i) :
       /\ tasks' = EntryRemoved(k)
       /\ freed' = FreedWith(k)
       /\ misread' = (misread \/ k # handleId[i])
  /\ UNCHANGED <<lib, handleId, errors, waiting, pending, idle, wait, asked, had,
                 cancelled, callVars>>

Elsewhere == Daemon({lib}) /\ UNCHANGED loadVars
Undisturbed == UNCHANGED busVars

Application ==
  \/ /\ wait = "no"
     /\ Serial => ~waiting
     /\ \E i \in Item : Load(i)
     /\ UNCHANGED <<world, daemonVars, wire>>
  \/ \E i \in Item : Cancel(i)
  \/ Wait

Dispatch ==
  /\ TakeMessage
  /\ Receive(Head(wire))
  /\ UNCHANGED calls

Timers(i) == (HaveAll(i) \/ QueueTimesOut(i) \/ UnqueueTimesOut(i)) /\ Undisturbed

Loop ==
  \/ WaitFlag \/ WaitReturns
  \/ \E i \in Item : Timers(i)
  \/ Dispatch

Next == Elsewhere \/ Application \/ Loop

Spec == Init /\ [][Next]_vars

-----------------------------------------------------------------------------
(* Properties.                                                               *)

Entries(i) == {k \in Key : tasks[k] = i}
TypeOK ==
  /\ DaemonTypeOK
  /\ lib \in Libraries
  /\ handleId \in [Item -> Key \cup {NoKey}]
  /\ tasks \in [Key -> Item \cup {None}]
  /\ waiting \in BOOLEAN
  /\ wait \in {"no", "flag", "table"}
  /\ \A S \in {pending, idle, cancelling, freed, errors, had, cancelled, blamed} :
       S \subseteq asked
  /\ asked \subseteq Item
  /\ called \in [Item -> Nat]
  /\ misread \in BOOLEAN

\* An item has at most one owner, the Queue call, the idle source or an entry of
\* the table, and none once it is freed: whatever fails, times out or is
\* cancelled, it is not freed twice, and no reply, signal or idle source finds
\* freed memory under it.
OwnedOnce ==
  \A i \in Item :
    /\ i \notin pending \cap idle
    /\ i \in pending \cup idle => Entries(i) = {}
    /\ \A k, l \in Entries(i) : k = l
    /\ i \in freed => i \notin pending \cup idle /\ Entries(i) = {}

\* The callback runs at most once, and not after a cancel that found a handle
\* (of the thumbnail library: the other one cancels only when the call ends).
CalledBackAtMostOnce ==
  \A i \in Item :
    /\ called[i] <= 1
    /\ called[i] = 1 => i \notin pending \cup idle /\ Entries(i) = {}
    /\ lib = "thumbnail" /\ i \in cancelled => called[i] = 0

\* The memory behind a handle lives until the callback has run or the handle was
\* cancelled, unless the daemon restarts (the new task's entry replaces the old
\* one) or the album art library reads a freed item and removes a wrong entry.
FreedOnlyWhenDone ==
  world # "rough" =>
    \A i \in freed : called[i] = 1 \/ i \in cancelled \/ misread

\* While the daemon stays up a callback runs only after the load's own task was
\* finished, and is given an error only if one was sent for that task.
CalledBackForItsOwnTask ==
  world # "rough" =>
    /\ \A i \in Item : called[i] > 0 => i \in had \/ <<lib, i>> \in served
    /\ \A i \in blamed : <<lib, i>> \in failed

\* hildon-thumbnail-factory.h: "Wait until all thumbnailing processes have
\* finished".  When wait returns to an application that waited for its replies,
\* every load that asked the daemon was called back or cancelled, unless the
\* album art library removed its entry by mistake.
WaitMeansFinished ==
  [][world = "orderly" /\ WaitReturns =>
       \A i \in asked \ had : called[i] > 0 \/ i \in cancelled \/ misread]_vars
=============================================================================
