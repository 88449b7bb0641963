----------------------------- MODULE QueueOnBus -----------------------------
(***************************************************************************)
(* The daemon as a client library sees it over the session bus: Queue      *)
(* calls come in, replies and signals go out, in the order in which they   *)
(* were sent.  One process serves thumbnails (daemon/thumbnailer.c) and    *)
(* album art (daemon/albumart.c), each with a counter of handles of its    *)
(* own.  Both push a request before its reply is sent, so that their       *)
(* threads may send Finished first.                                        *)
(*                                                                         *)
(* Unqueue is not served here: it changes when Finished is sent, not       *)
(* whether, and neither service replies to it.  Bounds: an album art       *)
(* request has a name (one without is never finished), an Error names one  *)
(* task at most once.                                                      *)
(***************************************************************************)
EXTENDS Integers, Sequences, FiniteSets

CONSTANTS
  Service,    \* the interfaces used: "thumbnail", "albumart"
  Caller,     \* who in this process calls Queue: requests or loads
  None,       \* no one; also the caller of other clients' tasks
  MaxTasks,   \* bound: Queue calls of a service in one life of the daemon,
  RoughTasks, \* the same in a rough world
  MaxLives,   \* bound: lives of the daemon
  Garbage,    \* what a guint that was never assigned may hold
  Worlds      \* the worlds looked at, see World

ASSUME ServiceAssumption == Service \subseteq {"thumbnail", "albumart"}
ASSUME NoneAssumption == None \notin Caller
ASSUME TasksAssumption == MaxTasks \in Nat /\ RoughTasks \in 0..MaxTasks
ASSUME LivesAssumption == MaxLives \in Nat \ {0}
ASSUME GarbageAssumption == Garbage \subseteq Nat \ {0}

\* In an orderly world the daemon stays up and the application waits for each
\* reply before it asks again, in a hasty one the application does not, in a
\* rough one calls time out too and the daemon exits.
World == {"orderly", "hasty", "rough"}
ASSUME WorldAssumption == Worlds \subseteq World

Handle == 1..MaxTasks
Key == Handle \cup Garbage
NoKey == 0

\* A Queue call, and a task of a service.
Call == Service \X Caller
Task == Service \X Handle

\* What the library receives: the answer to a call, or a signal about a task.
\* Only the thumbnail service has Error.
Message ==
  [msg : {"reply"}, call : Call, handle : Handle]
    \cup [msg : {"noreply"}, call : Call]
    \cup [msg : {"Error"}, task : {t \in Task : t[1] = "thumbnail"}]
    \cup [msg : {"Finished"}, task : Task]

VARIABLES
  world,      \* the world of this behaviour
  num,        \* [Service -> the counter of its Queue]
  open,       \* the tasks whose Finished is still to be sent
  running,    \* is there a daemon process?
  calls,      \* the Queue calls under way, in order
  owed,       \* the call whose reply has not been sent, or None
  wire,       \* what the daemon sent and the library has not dispatched
  owner,      \* [Task -> Caller \cup {None}]: who made the call
  lives,      \* lives of the daemon so far
  served,     \* history: calls whose task was finished
  failed      \* history: calls an Error was sent for

daemonVars == <<num, open, running, owed, owner, lives, served, failed>>
busVars == <<world, daemonVars, calls, wire>>

MayFail == world = "rough"
Serial == world = "orderly"

DaemonTypeOK ==
  /\ world \in Worlds
  /\ num \in [Service -> 0..MaxTasks]
  /\ open \subseteq Task
  /\ running \in BOOLEAN
  /\ calls \in Seq(Call)
  /\ owed \in Call \cup {None}
  /\ wire \in Seq(Message)
  /\ owner \in [Task -> Caller \cup {None}]
  /\ lives \in 1..MaxLives
  /\ served \subseteq Call
  /\ failed \subseteq Call

DaemonInit ==
  /\ world \in Worlds
  /\ num = [s \in Service |-> 0]
  /\ open = {}
  /\ running = TRUE
  /\ calls = <<>>
  /\ owed = None
  /\ wire = <<>>
  /\ owner = [t \in Task |-> None]
  /\ lives = 1
  /\ served = {}
  /\ failed = {}

-----------------------------------------------------------------------------

NewHandleNotStatic(s) == 1
NewHandle(s) == num[s] + 1

TaskLimit == IF MayFail THEN RoughTasks ELSE MaxTasks

Accept(s, c) ==
  /\ running
  /\ owed = None
  /\ num[s] < TaskLimit
  /\ num' = [num EXCEPT ![s] = @ + 1]
  /\ open' = open \cup {<<s, NewHandle(s)>>}
  /\ owner' = [owner EXCEPT ![<<s, NewHandle(s)>>] = c]
  /\ UNCHANGED <<world, running, wire, lives, served, failed>>

\* thumbnailer_queue or albumart_queue for a call of this library: the task is
\* in its pool, the reply is still owed.
ServeQueue ==
  /\ calls # <<>>
  /\ Accept(Head(calls)[1], Head(calls)[2])
  /\ calls' = Tail(calls)
  /\ owed' = Head(calls)

Reply ==
  /\ owed # None
  /\ wire' = Append(wire, [msg |-> "reply", call |-> owed, handle |-> num[owed[1]]])
  /\ owed' = None
  /\ UNCHANGED <<world, num, open, running, calls, owner, lives, served, failed>>

\* A call of another client: its signals reach this library too.
ServeOther(s) ==
  /\ Accept(s, None)
  /\ UNCHANGED <<calls, owed>>

CallOf(t) == <<t[1], owner[t]>>
Own(t) == owner[t] # None

\* Ready is not connected to.
SendError(t) ==
  /\ t[1] = "thumbnail"
  /\ t \in open
  /\ Own(t)
  /\ CallOf(t) \notin failed
  /\ wire' = Append(wire, [msg |-> "Error", task |-> t])
  /\ failed' = failed \cup {CallOf(t)}
  /\ UNCHANGED <<world, num, open, running, calls, owed, owner, lives, served>>

Finished(t) == [msg |-> "Finished", task |-> t]

SendFinished(t) ==
  /\ t \in open
  /\ open' = open \ {t}
  /\ wire' = Append(wire, Finished(t))
  /\ served' = served \cup (IF Own(t) THEN {CallOf(t)} ELSE {})
  /\ UNCHANGED <<world, num, running, calls, owed, owner, lives, failed>>

\* thumbnailer_crash_out finishes what no thread took, the tasks q, newest
\* first, and the process exits; of album art nothing is said.  The bus answers
\* the calls it had not read.
Exit(q) ==
  /\ MayFail
  /\ running
  /\ owed = None
  /\ \A i \in DOMAIN q :
       /\ <<"thumbnail", q[i]>> \in open
       /\ \A j \in DOMAIN q : i < j => q[i] > q[j]
  /\ running' = FALSE
  /\ wire' = wire \o [i \in DOMAIN q |-> Finished(<<"thumbnail", q[i]>>)]
                  \o [i \in DOMAIN calls |-> [msg |-> "noreply", call |-> calls[i]]]
  /\ open' = {}
  /\ calls' = <<>>
  /\ owner' = [t \in Task |-> None]
  /\ served' = served \cup
       {CallOf(t) : t \in {x \in Task : Own(x) /\ \E i \in DOMAIN q : x = <<"thumbnail", q[i]>>}}
  /\ UNCHANGED <<world, num, owed, lives, failed>>

\* The bus starts the daemon again: handles start over at 1.
Restart ==
  /\ ~running
  /\ lives < MaxLives
  /\ running' = TRUE
  /\ lives' = lives + 1
  /\ num' = [s \in Service |-> 0]
  /\ UNCHANGED <<world, open, calls, owed, wire, owner, served, failed>>

Serve == ServeQueue \/ Reply \/ \E t \in Task : SendFinished(t)

\* S: the services whose Error signals and other clients are looked at.
Daemon(S) ==
  \/ Serve
  \/ \E s \in S : ServeOther(s)
  \/ \E t \in Task : t[1] \in S /\ SendError(t)
  \/ \E n \in 0..MaxTasks : \E q \in [1..n -> Handle] : Exit(q)
  \/ Restart

-----------------------------------------------------------------------------
(* The library's end of the connection.                                      *)

\* An asynchronous call of Queue leaves the process.
AskDaemon(s, c) ==
  /\ calls' = Append(calls, <<s, c>>)
  /\ UNCHANGED <<world, daemonVars, wire>>

\* The next message is taken off the connection; what is done about it may
\* make a call.
TakeMessage ==
  /\ wire # <<>>
  /\ wire' = Tail(wire)
  /\ UNCHANGED <<world, daemonVars>>
=============================================================================
