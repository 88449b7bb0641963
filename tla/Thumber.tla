------------------------------ MODULE Thumber ------------------------------
(***************************************************************************)
(* The video thumbnailer, gst-thumb-thumber.c and gst-thumb-main.c: the    *)
(* process the daemon calls Create of (SpecializedCall).  It has one       *)
(* thread.  Calls and the messages of the playback library come over one   *)
(* connection, in order; an idle source works off the tasks, a file at a   *)
(* time (ThumberPipe), while the library permits it, and a timer quits     *)
(* when there has been nothing to do.                                      *)
(*                                                                         *)
(* Both builds are modelled: without the playback library permission is    *)
(* always there.  Abstracted: mime types, the length of the timer; a uri   *)
(* is a model value.  Bounds: MaxCalls calls, MaxWords messages the        *)
(* library sends unasked, one life.                                        *)
(***************************************************************************)
EXTENDS ThumberPipe, FiniteSets

CONSTANTS
  Uri,
  Lists,    \* the lists of uris that Create and CreateMany are called with
  MaxCalls,
  MaxWords

ASSUME ListsAssumption ==
  Lists \subseteq
    {us \in Seq(Uri) : \A i, j \in 1..Len(us) : us[i] = us[j] => i = j}
ASSUME CallsAssumption == MaxCalls \in Nat /\ MaxWords \in Nat

Task == 1..MaxCalls
NoTask == 0

PlayState == {"play", "stop"}
Words ==
  [msg : {"request"}, state : PlayState]
    \cup [msg : {"hint"}, allowed : SUBSET PlayState \ {{}}]
Message ==
  [msg : {"create"}, uris : Lists] \cup [msg : {"reply"}, granted : PlayState]
    \cup Words

VARIABLES
  playback,  \* is this a HAVE_PLAYBACK build?
  inbox,     \* what arrived on the connection and was not dispatched
  asks,      \* pb_playback_req_state calls without a reply, in order
  words,     \* unasked messages of the playback library so far
  loop,      \* "running", "quitting" (g_main_loop_quit was called), "leaving"
             \* (what was ready has been dispatched) or "down"
  at,        \* thumber_process_func: "out", "file" or "next"
  \* ThumberPrivate
  state,     \* "pending_stop", "stopped", "paused" or "working"
  idle,      \* idle_id # 0
  timer,     \* quit_timeout_id # 0
  queue,     \* task_queue
  files,     \* file_queue
  current,   \* current_task
  pipe,      \* pipe # NULL
  \* history
  num,       \* calls accepted
  calls,     \* calls made
  lists,     \* the uris of each task
  answered,  \* the uris a Ready or Error was emitted for, of each task
  finished,  \* tasks Finished was emitted for
  late,      \* tasks accepted after the timer had fired
  unmounted  \* did the process exit for an unmount?

busVars == <<inbox, asks, words, calls>>
stateVars == <<state, idle, timer>>
workVars == <<queue, files, current, pipe>>
historyVars == <<num, lists, answered, finished, late, unmounted>>
vars == <<playback, busVars, loop, at, stateVars, workVars, historyVars, pipeVars>>

TypeOK ==
  /\ PipeTypeOK
  /\ playback \in BOOLEAN
  /\ inbox \in Seq(Message)
  /\ asks \in Seq(PlayState)
  /\ words \in 0..MaxWords
  /\ loop \in {"running", "quitting", "leaving", "down"}
  /\ at \in {"out", "file", "next"}
  /\ state \in {"pending_stop", "stopped", "paused", "working"}
  /\ idle \in BOOLEAN
  /\ timer \in BOOLEAN
  /\ num \in Nat
  /\ queue \in Seq(1..num)
  /\ files \in Seq(Uri)
  /\ current \in 0..num
  /\ pipe \in BOOLEAN
  /\ calls \in 0..MaxCalls
  /\ lists \in Seq(Lists) /\ Len(lists) = num
  /\ answered \in Seq(SUBSET Uri) /\ Len(answered) = num
  /\ finished \subseteq 1..num
  /\ late \subseteq 1..num
  /\ unmounted \in BOOLEAN

\* thumber_start, before the main loop runs.
Init ==
  /\ PipeInit
  /\ playback \in BOOLEAN
  /\ inbox = <<>>
  /\ asks = <<>>
  /\ words = 0
  /\ loop = "running"
  /\ at = "out"
  /\ state = "stopped"
  /\ idle = FALSE
  /\ timer = TRUE
  /\ queue = <<>>
  /\ files = <<>>
  /\ current = NoTask
  /\ pipe = FALSE
  /\ num = 0
  /\ calls = 0
  /\ lists = <<>>
  /\ answered = <<>>
  /\ finished = {}
  /\ late = {}
  /\ unmounted = FALSE

-----------------------------------------------------------------------------
(* States and permissions.                                                   *)

\* thumber_set_state.
StopsTimerToWork(s) == s = "working"
StopsTimer(s) == s \in {"working", "paused"}
SetState(s) ==
  /\ state' = s
  /\ idle' = (s = "working")
  /\ timer' = (IF StopsTimer(s) THEN FALSE
               ELSE s \in {"pending_stop", "stopped"} \/ timer)

RequestResources ==
  IF state = "working" THEN UNCHANGED <<stateVars, asks>>
  ELSE IF playback
  THEN SetState("paused") /\ asks' = Append(asks, "play")
  ELSE SetState("working") /\ UNCHANGED asks

ReleaseResources ==
  IF state = "stopped" THEN UNCHANGED <<stateVars, asks>>
  ELSE IF playback
  THEN SetState("pending_stop") /\ asks' = Append(asks, "stop")
  ELSE SetState("stopped") /\ UNCHANGED asks

-----------------------------------------------------------------------------
(* What arrives.                                                             *)

\* The main loop dispatches one message; after g_main_loop_quit only what was
\* ready in the same iteration.
Dispatch(kind) ==
  /\ loop \in {"running", "quitting"}
  /\ at = "out"
  /\ inbox # <<>>
  /\ Head(inbox).msg = kind
  /\ inbox' = Tail(inbox)
  /\ loop' = IF loop = "quitting" THEN "leaving" ELSE loop
  /\ UNCHANGED <<playback, words, calls, at, finished, unmounted, pipeVars>>

\* task_info_new.
NewId == num + 1

\* thumber_dbus_method_create and thumber_dbus_method_create_many.
Create ==
  /\ Dispatch("create")
  /\ num' = num + 1
  /\ lists' = Append(lists, Head(inbox).uris)
  /\ answered' = Append(answered, {})
  /\ queue' = Append(queue, NewId)
  /\ late' = IF loop = "quitting" THEN late \cup {NewId} ELSE late
  /\ RequestResources
  /\ UNCHANGED <<files, current, pipe>>

\* libplayback_state_hint_handler.
StateHint ==
  /\ Dispatch("hint")
  /\ CASE state = "pending_stop" /\ "stop" \in Head(inbox).allowed -> ReleaseResources
       [] state = "paused" /\ "play" \in Head(inbox).allowed -> RequestResources
       [] OTHER -> UNCHANGED <<stateVars, asks>>
  /\ UNCHANGED <<workVars, num, lists, answered, late>>

\* libplayback_state_request_handler.
StateRequest ==
  /\ Dispatch("request")
  /\ CASE state = "paused" /\ Head(inbox).state = "play" -> SetState("working")
       [] state = "working" /\ Head(inbox).state = "stop" -> SetState("paused")
       [] OTHER -> UNCHANGED stateVars
  /\ UNCHANGED <<asks, workVars, num, lists, answered, late>>

\* libplayback_state_reply.
StopsAnywhere(s) == TRUE
StopsIn(s) == s = "pending_stop"
StateReply ==
  /\ Dispatch("reply")
  /\ CASE state = "paused" /\ Head(inbox).granted = "play" -> SetState("working")
       [] StopsIn(state) /\ Head(inbox).granted = "stop" -> SetState("stopped")
       [] OTHER -> UNCHANGED stateVars
  /\ UNCHANGED <<asks, workVars, num, lists, answered, late>>

\* quit_timeout_cb.
QuitTimeout ==
  /\ loop = "running"
  /\ at = "out"
  /\ timer
  /\ loop' = "quitting"
  /\ UNCHANGED <<playback, busVars, at, stateVars, workVars, historyVars, pipeVars>>

\* g_main_loop_run returns and main ends.
Leave ==
  /\ loop \in {"quitting", "leaving"}
  /\ loop' = "down"
  /\ UNCHANGED <<playback, busVars, at, stateVars, workVars, historyVars, pipeVars>>

\* mount_pre_unmount_cb.
PreUnmount ==
  /\ loop # "down"
  /\ at = "out"
  /\ loop' = "down"
  /\ unmounted' = TRUE
  /\ UNCHANGED <<playback, busVars, at, stateVars, workVars, num, lists,
                 answered, finished, late, pipeVars>>

Receive == Create \/ StateHint \/ StateRequest \/ StateReply

-----------------------------------------------------------------------------
(* thumber_process_func, the idle source.                                    *)

Idle == loop = "running" /\ at = "out" /\ idle

Processing == <<playback, busVars, loop, stateVars>>

\* The next file of the current task.
BeginFile ==
  /\ Idle
  /\ pipe /\ files # <<>>
  /\ at' = "file"
  /\ Initialize
  /\ UNCHANGED <<Processing, workVars, historyVars>>

RunFile ==
  /\ at = "file"
  /\ PipeStep
  /\ UNCHANGED <<Processing, at, workVars, historyVars>>

\* Ready or Error is emitted; the file was popped before it was run.
EmitAnswer ==
  /\ at = "file"
  /\ stage = "done"
  /\ at' = "out"
  /\ Returned
  /\ files' = Tail(files)
  /\ answered' = [answered EXCEPT ![current] = @ \cup {Head(files)}]
  /\ UNCHANGED <<Processing, queue, current, pipe, num, lists, finished, late,
                 unmounted, backup, pixbufs>>

\* No file is left: the task is finished, if there is one ...
EmitFinished ==
  /\ Idle
  /\ ~pipe \/ files = <<>>
  /\ at' = "next"
  /\ finished' = finished \cup ({current} \ {NoTask})
  /\ current' = NoTask
  /\ UNCHANGED <<Processing, queue, files, pipe, num, lists, answered, late,
                 unmounted, pipeVars>>

\* ... and the next one begins, its files in the reverse of their order
\* (task_info_add_uri, thumber_populate_file_queue) ...
ButFirst(us) == [i \in 1..(IF us = <<>> THEN 0 ELSE Len(us) - 1) |-> us[Len(us) + 1 - i]]
Prepended(us) == [i \in 1..Len(us) |-> us[Len(us) + 1 - i]]

BeginTask ==
  /\ at = "next"
  /\ queue # <<>>
  /\ at' = "out"
  /\ queue' = Tail(queue)
  /\ current' = Head(queue)
  /\ files' = files \o Prepended(lists[Head(queue)])
  /\ pipe' = TRUE
  /\ UNCHANGED <<Processing, historyVars, pipeVars>>

\* ... or all is done.
FewLeft == Len(queue) <= 1
NothingLeft == queue = <<>>
AllDone ==
  /\ at = "next"
  /\ NothingLeft
  /\ at' = "out"
  /\ pipe' = FALSE
  /\ ReleaseResources
  /\ UNCHANGED <<playback, inbox, words, calls, loop, queue, files, current,
                 historyVars, pipeVars>>

Process ==
  BeginFile \/ RunFile \/ EmitAnswer \/ EmitFinished \/ BeginTask \/ AllDone

-----------------------------------------------------------------------------
(* The other processes.                                                      *)

Outside == <<playback, loop, at, stateVars, workVars, historyVars, pipeVars>>

\* The daemon calls Create, other programs CreateMany.
Call(us) ==
  /\ loop # "down"
  /\ calls < MaxCalls
  /\ calls' = calls + 1
  /\ inbox' = Append(inbox, [msg |-> "create", uris |-> us])
  /\ UNCHANGED <<asks, words, Outside>>

\* The playback library answers the oldest request, with what was asked for
\* or with stop.
Grant(s) ==
  /\ asks # <<>>
  /\ loop # "down"
  /\ s \in {Head(asks), "stop"}
  /\ inbox' = Append(inbox, [msg |-> "reply", granted |-> s])
  /\ asks' = Tail(asks)
  /\ UNCHANGED <<words, calls, Outside>>

\* It changes its mind without being asked.
Says(m) ==
  /\ playback
  /\ loop # "down"
  /\ words < MaxWords
  /\ words' = words + 1
  /\ inbox' = Append(inbox, m)
  /\ UNCHANGED <<asks, calls, Outside>>

Others ==
  \/ \E us \in Lists : Call(us)
  \/ \E s \in PlayState : Grant(s)
  \/ \E m \in Words : Says(m)

MainLoop == Receive \/ Process

Next == MainLoop \/ QuitTimeout \/ Leave \/ PreUnmount \/ Others

Spec == Init /\ [][Next]_vars

\* The main loop runs, each wait of the pipeline ends and does not for ever
\* receive frames it does not like, and each request to the playback library
\* is answered, though not always granted.
FairSpec ==
  /\ Spec
  /\ WF_vars(MainLoop)
  /\ WF_vars(Leave)
  /\ WF_vars(at = "file" /\ PipeWaits /\ UNCHANGED <<Processing, at, workVars, historyVars>>)
  /\ WF_vars(\E s \in PlayState : Grant(s))

-----------------------------------------------------------------------------
(* Properties.                                                               *)

Uris(t) == {lists[t][i] : i \in 1..Len(lists[t])}

\* Accepted and not finished.
Unfinished == {t \in 1..num : t \notin finished}

\* A process that quits because it had nothing to do had nothing to do: what
\* it accepted is finished, with each uri answered, except for a call that is
\* dispatched in the iteration in which the timer fired (quit_timeout_cb,
\* thumber_set_state).
QuitLosesNothing ==
  (loop # "running" /\ ~unmounted) =>
    \A t \in 1..num : (t \in finished /\ answered[t] = Uris(t)) \/ t \in late

\* What is unfinished has the idle source or waits for the permission, without
\* the quit timer: no task is left with neither, whatever order calls,
\* requests, replies and hints come in.
WorkIsDriven ==
  Unfinished # {} => (idle \/ state = "paused") /\ ~timer

\* Every task is finished unless the process ends or the permission to work
\* stays away for good.
EveryTaskFinishes ==
  ~<>[](state = "paused") =>
    \A t \in Task : (num >= t) ~> (t \in finished \/ loop = "down")

\* What a client may rely on is ThumbnailService: tasks begin, are answered
\* once for each uri and finished after that; what has not begun is given up
\* when the process ends.
Phase(t) ==
  CASE t > num -> "new"
    [] t \in finished -> "done"
    [] t = current -> "running"
    [] OTHER -> IF loop = "down" THEN "done" ELSE "queued"

Service == INSTANCE ThumbnailService WITH
  Url <- Uri, MaxTasks <- MaxCalls,
  accepted <- num,
  wanted <- [t \in Task |-> IF t > num THEN {} ELSE Uris(t)],
  phase <- [t \in Task |-> Phase(t)],
  cancelled <- IF loop = "down"
               THEN {t \in 1..num : t \notin finished /\ t # current} ELSE {},
  answered <- [t \in Task |-> IF t > num THEN {} ELSE answered[t]],
  service <- IF loop = "down" THEN "ending" ELSE "up"
ImplementsService == Service!Spec
=============================================================================
