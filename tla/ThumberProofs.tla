--------------------------- MODULE ThumberProofs ---------------------------
(***************************************************************************)
(* Proofs about Thumber and its ThumberPipe, for any uris, lists, sizes    *)
(* and bounds, and for both builds.  IInv is inductive; WorkIsDriven and   *)
(* QuitLosesNothing follow from what it says of the states and the tasks,  *)
(* RunEndsClean from what it says of the pipeline.  With Waiting and       *)
(* Counted it gives the refinement of ThumbnailService.                    *)
(***************************************************************************)
EXTENDS Thumber, TLAPS

\* The pipeline runs exactly while a file is being worked on.
Pipeline ==
  /\ at = "file" <=> stage # "off"
  /\ ReadyMeansSaved
  /\ FramesReleased

\* The state decides which sources there are, and the idle source runs only
\* while it is "working".
Sources ==
  /\ idle <=> state = "working"
  /\ timer => state \in {"pending_stop", "stopped"}
  /\ at # "out" => state = "working" /\ loop = "running"

\* A stopped thumbnailer has no task, and an unfinished one is somewhere.
Tasks ==
  /\ state \in {"pending_stop", "stopped"} => queue = <<>> /\ current = NoTask
  /\ at = "next" => current = NoTask
  /\ \A t \in 1..num :
       t \in finished \/ t = current \/ \E i \in 1..Len(queue) : queue[i] = t

\* Of the current task what is not answered is in the queue of files.
Answers ==
  /\ \A t \in 1..num : answered[t] \subseteq Uris(t)
  /\ \A t \in finished : answered[t] = Uris(t)
  /\ current # NoTask =>
       /\ pipe
       /\ Uris(current) = answered[current] \cup {files[i] : i \in 1..Len(files)}
  /\ current = NoTask => files = <<>>
  /\ at = "file" => files # <<>>

IInv == TypeOK /\ Pipeline /\ Sources /\ Tasks /\ Answers /\ QuitLosesNothing

-----------------------------------------------------------------------------
(* Lemmas.                                                                   *)

\* The files of a list are put in the queue in some order, and are those of
\* the list.
LEMMA PrependedType ==
  ASSUME NEW us \in Seq(Uri)
  PROVE  /\ Prepended(us) \in Seq(Uri)
         /\ {Prepended(us)[i] : i \in 1..Len(Prepended(us))} = {us[i] : i \in 1..Len(us)}
<1>1. Prepended(us) \in Seq(Uri) /\ Len(Prepended(us)) = Len(us)
  BY DEF Prepended
<1>2. \A i \in 1..Len(us) : /\ Len(us) + 1 - i \in 1..Len(us)
                            /\ Prepended(us)[i] = us[Len(us) + 1 - i]
                            /\ us[i] = Prepended(us)[Len(us) + 1 - i]
  BY DEF Prepended
<1> QED
  BY <1>1, <1>2, SMTT(30)

\* Each list is a sequence of uris.
LEMMA ListType == Lists \subseteq Seq(Uri)
BY ListsAssumption

\* A sequence of tasks is one of more tasks too.
LEMMA MoreTasks ==
  ASSUME NEW n \in Nat, NEW q \in Seq(1..n)
  PROVE  q \in Seq(1..(n + 1))
OBVIOUS

\* Asking for the permission to work: the state becomes "working" or "paused".
LEMMA Requested ==
  ASSUME TypeOK, Sources, RequestResources
  PROVE  /\ state' \in {"working", "paused"}
         /\ state = "working" => state' = "working"
         /\ idle' = (state' = "working")
         /\ timer' = FALSE
         /\ asks' \in Seq(PlayState)
<1> USE DEF TypeOK, Sources, RequestResources, SetState, StopsTimer, stateVars, PlayState
<1>1. CASE state = "working"
  BY <1>1
<1>2. CASE state # "working" /\ playback
  <2>1. SetState("paused") /\ asks' = Append(asks, "play")
    BY <1>2
  <2>2. asks' \in Seq(PlayState)
    BY <2>1
  <2> QED
    BY <2>1, <2>2, <1>2
<1>3. CASE state # "working" /\ ~playback
  BY <1>3
<1> QED
  BY <1>1, <1>2, <1>3

\* Giving it back: the state becomes "pending_stop" or "stopped".
LEMMA Released ==
  ASSUME TypeOK, Sources, ReleaseResources
  PROVE  /\ state' \in {"pending_stop", "stopped"}
         /\ idle' = FALSE
         /\ timer' \in BOOLEAN
         /\ asks' \in Seq(PlayState)
<1> USE DEF TypeOK, Sources, ReleaseResources, SetState, StopsTimer, stateVars, PlayState
<1>1. CASE state = "stopped"
  BY <1>1
<1>2. CASE state # "stopped" /\ playback
  <2>1. SetState("pending_stop") /\ asks' = Append(asks, "stop")
    BY <1>2
  <2>2. asks' \in Seq(PlayState)
    BY <2>1
  <2> QED
    BY <2>1, <2>2, <1>2
<1>3. CASE state # "stopped" /\ ~playback
  BY <1>3
<1> QED
  BY <1>1, <1>2, <1>3

\* What the handlers of the playback library do to the state: it is stopped
\* only where it was about to be.
LEMMA Permitted ==
  ASSUME TypeOK, Sources, StateHint \/ StateRequest \/ StateReply
  PROVE  /\ state' \in {"pending_stop", "stopped", "paused", "working"}
         /\ state' \in {"pending_stop", "stopped"} => state \in {"pending_stop", "stopped"}
         /\ idle' = (state' = "working")
         /\ timer' \in BOOLEAN
         /\ timer' => state' \in {"pending_stop", "stopped"}
         /\ asks' \in Seq(PlayState)
<1>1. CASE StateHint
  <2>1. CASE state = "pending_stop" /\ "stop" \in Head(inbox).allowed
    BY <1>1, <2>1, Released DEF StateHint
  <2>2. CASE state = "paused" /\ "play" \in Head(inbox).allowed
    BY <1>1, <2>2, Requested DEF StateHint
  <2>3. CASE /\ ~(state = "pending_stop" /\ "stop" \in Head(inbox).allowed)
             /\ ~(state = "paused" /\ "play" \in Head(inbox).allowed)
    BY <1>1, <2>3 DEF StateHint, stateVars, TypeOK, Sources
  <2> QED
    BY <2>1, <2>2, <2>3
<1>2. CASE StateRequest
  <2>1. CASE state = "paused" /\ Head(inbox).state = "play"
    BY <1>2, <2>1 DEF StateRequest, SetState, StopsTimer, TypeOK
  <2>2. CASE state = "working" /\ Head(inbox).state = "stop"
    BY <1>2, <2>2 DEF StateRequest, SetState, StopsTimer, TypeOK
  <2>3. CASE /\ ~(state = "paused" /\ Head(inbox).state = "play")
             /\ ~(state = "working" /\ Head(inbox).state = "stop")
    BY <1>2, <2>3 DEF StateRequest, stateVars, TypeOK, Sources
  <2> QED
    BY <2>1, <2>2, <2>3
<1>3. CASE StateReply
  <2>1. CASE state = "paused" /\ Head(inbox).granted = "play"
    BY <1>3, <2>1 DEF StateReply, StopsIn, SetState, StopsTimer, TypeOK
  <2>2. CASE state = "pending_stop" /\ Head(inbox).granted = "stop"
    BY <1>3, <2>2 DEF StateReply, StopsIn, SetState, StopsTimer, TypeOK
  <2>3. CASE /\ ~(state = "paused" /\ Head(inbox).granted = "play")
             /\ ~(state = "pending_stop" /\ Head(inbox).granted = "stop")
    BY <1>3, <2>3 DEF StateReply, StopsIn, stateVars, TypeOK, Sources
  <2> QED
    BY <2>1, <2>2, <2>3
<1> QED
  BY <1>1, <1>2, <1>3

\* One message is taken from the connection, and nothing of the pipeline moves.
LEMMA DispatchType ==
  ASSUME TypeOK, NEW kind, Dispatch(kind)
  PROVE  /\ Head(inbox) \in Message /\ Head(inbox).msg = kind
         /\ inbox' \in Seq(Message)
         /\ loop' \in {"running", "leaving"}
         /\ PipeTypeOK'
         /\ UNCHANGED <<playback, words, calls, at, finished, unmounted, pipeVars>>
<1>1. Head(inbox) \in Message /\ Tail(inbox) \in Seq(Message)
  BY DEF TypeOK, Dispatch
<1>2. UNCHANGED <<playback, words, calls, at, finished, unmounted, pipeVars>>
  BY DEF Dispatch
<1>3. PipeTypeOK'
  BY <1>2 DEF TypeOK, PipeTypeOK, pipeVars
<1> QED
  BY <1>1, <1>2, <1>3 DEF Dispatch

\* Only a call carries uris.
LEMMA CallCarriesList ==
  ASSUME NEW m \in Message, m.msg = "create"
  PROVE  m.uris \in Lists
BY DEF Message, Words

\* Every step of the pipeline keeps the types of its variables and stays
\* between "paused" and "done".
LEMMA PipeStepType ==
  ASSUME PipeTypeOK, FramesReleased, PipeStep
  PROVE  PipeTypeOK' /\ stage # "off" /\ stage' # "off"
<1> USE DEF PipeTypeOK, FramesReleased
<1>1. CASE StateChanged
  BY <1>1 DEF StateChanged
<1>2. CASE WaitFails
  BY <1>2 DEF WaitFails, Fails
<1>3. CASE GoodFrame
  BY <1>3 DEF GoodFrame, CreateThumbnails
<1>4. CASE DullFrame
  BY <1>4 DEF DullFrame, KeptOnce
<1>5. CASE EndOfStream
  <2>1. CASE backup
    <3>1. CreateThumbnails /\ pixbufs' = 0 /\ backup' = FALSE /\ stage = "playing"
      BY <1>5, <2>1 DEF EndOfStream
    <3> QED
      BY <3>1 DEF CreateThumbnails
  <2>2. CASE ~backup
    BY <1>5, <2>2 DEF EndOfStream, Fails
  <2> QED
    BY <2>1, <2>2
<1>6. CASE Deinitialize
  <2>1. pixbufs' \in Nat
    <3>1. CASE backup
      BY <1>6, <3>1 DEF Deinitialize
    <3>2. CASE ~backup
      BY <1>6, <3>2 DEF Deinitialize
    <3> QED
      BY <3>1, <3>2
  <2>2. backup' \in BOOLEAN
    BY <1>6 DEF Deinitialize
  <2> QED
    BY <1>6, <2>1, <2>2 DEF Deinitialize
<1> QED
  BY <1>1, <1>2, <1>3, <1>4, <1>5, <1>6 DEF PipeStep, PipeWaits

\* Every step of the pipeline keeps the account of its frames and sizes.
LEMMA PipeStepCounts ==
  ASSUME PipeTypeOK, FramesReleased, ReadyMeansSaved, PipeStep
  PROVE  FramesReleased' /\ ReadyMeansSaved'
<1> USE DEF PipeTypeOK, FramesReleased, ReadyMeansSaved
<1>1. CASE StateChanged
  BY <1>1 DEF StateChanged
<1>2. CASE WaitFails
  BY <1>2 DEF WaitFails, Fails
<1>3. CASE GoodFrame
  BY <1>3 DEF GoodFrame, CreateThumbnails, Complete
<1>4. CASE DullFrame
  BY <1>4 DEF DullFrame, KeptOnce
<1>5. CASE EndOfStream
  <2>1. CASE backup
    BY <1>5, <2>1 DEF EndOfStream, CreateThumbnails, Complete
  <2>2. CASE ~backup
    BY <1>5, <2>2 DEF EndOfStream, Fails
  <2> QED
    BY <2>1, <2>2
<1>6. CASE Deinitialize
  BY <1>6 DEF Deinitialize
<1> QED
  BY <1>1, <1>2, <1>3, <1>4, <1>5, <1>6 DEF PipeStep, PipeWaits

-----------------------------------------------------------------------------
(* The invariant is inductive.                                               *)

\* A process that has just started.
LEMMA InitIInv == Init => IInv
<1> SUFFICES ASSUME Init PROVE IInv
  OBVIOUS
<1>1. TypeOK
  <2>1. Len(Sizes) \in Nat
    BY SizesAssumption
  <2>2. backup \in BOOLEAN
    BY DEF Init, PipeInit
  <2>3. PipeTypeOK
    BY <2>1, <2>2 DEF Init, PipeInit, PipeTypeOK
  <2>4. /\ inbox \in Seq(Message) /\ asks \in Seq(PlayState) /\ queue \in Seq(1..num)
        /\ files \in Seq(Uri)
    BY DEF Init
  <2>5. /\ lists \in Seq(Lists) /\ Len(lists) = num
        /\ answered \in Seq(SUBSET Uri) /\ Len(answered) = num
    BY DEF Init
  <2>6. /\ words \in 0..MaxWords /\ calls \in 0..MaxCalls /\ num \in Nat
        /\ current \in 0..num
    BY CallsAssumption DEF Init, NoTask
  <2> QED
    BY <2>3, <2>4, <2>5, <2>6 DEF Init, TypeOK
<1>2. Pipeline /\ Sources /\ Tasks
  BY DEF Init, PipeInit, Pipeline, ReadyMeansSaved, FramesReleased, Sources, Tasks, NoTask
<1>3. Answers /\ QuitLosesNothing
  BY DEF Init, Answers, QuitLosesNothing, NoTask
<1> QED
  BY <1>1, <1>2, <1>3 DEF IInv

\* The handlers of the playback library leave the tasks alone.
Handler == StateHint \/ StateRequest \/ StateReply

LEMMA HandlerUnchanged ==
  ASSUME TypeOK, Handler
  PROVE  /\ inbox' \in Seq(Message)
         /\ PipeTypeOK'
         /\ at = "out"
         /\ loop \in {"running", "quitting"}
         /\ loop' = IF loop = "quitting" THEN "leaving" ELSE loop
         /\ UNCHANGED <<playback, words, calls, at, finished, unmounted, pipeVars>>
         /\ UNCHANGED <<queue, files, current, pipe, num, lists, answered, late>>
<1>1. \E kind : Dispatch(kind)
  BY DEF Handler, StateHint, StateRequest, StateReply
<1>2. UNCHANGED <<queue, files, current, pipe, num, lists, answered, late>>
  BY DEF Handler, StateHint, StateRequest, StateReply, workVars
<1> QED
  BY <1>1, <1>2, DispatchType DEF Dispatch

\* The other processes change nothing but the connection.
LEMMA OthersUnchanged ==
  ASSUME Others
  PROVE  /\ UNCHANGED <<playback, loop, at, stateVars, workVars, pipeVars>>
         /\ UNCHANGED <<num, lists, answered, finished, late, unmounted>>
<1>1. CASE \E us \in Lists : Call(us)
  BY <1>1 DEF Call, Outside, historyVars
<1>2. CASE \E s \in PlayState : Grant(s)
  BY <1>2 DEF Grant, Outside, historyVars
<1>3. CASE \E m \in Words : Says(m)
  BY <1>3 DEF Says, Outside, historyVars
<1> QED
  BY <1>1, <1>2, <1>3 DEF Others

\* Every step of Thumber keeps the types.
LEMMA NextType == IInv /\ [Next]_vars => TypeOK'
<1> SUFFICES ASSUME IInv, [Next]_vars PROVE TypeOK'
  OBVIOUS
<1>0. TypeOK /\ Sources /\ Pipeline /\ Answers
  BY DEF IInv
<1>1. CASE Create
  <2>1. /\ Head(inbox) \in Message /\ Head(inbox).msg = "create"
        /\ inbox' \in Seq(Message) /\ loop' \in {"running", "leaving"}
        /\ PipeTypeOK'
        /\ UNCHANGED <<playback, words, calls, at, finished, unmounted, files, current, pipe>>
    BY <1>0, <1>1, DispatchType DEF Create
  <2>2. /\ state' \in {"working", "paused"} /\ idle' \in BOOLEAN
        /\ timer' \in BOOLEAN /\ asks' \in Seq(PlayState)
    BY <1>0, <1>1, Requested DEF Create
  <2>3. lists' \in Seq(Lists) /\ Len(lists') = num'
    BY <1>0, <1>1, <2>1, CallCarriesList, SMTT(30) DEF Create, TypeOK
  <2>4. answered' \in Seq(SUBSET Uri) /\ Len(answered') = num'
    BY <1>0, <1>1 DEF Create, TypeOK
  <2>5. num' \in Nat /\ current' \in 0..num' /\ finished' \subseteq 1..num'
    BY <1>0, <1>1, <2>1 DEF Create, TypeOK
  <2>6. late' \subseteq 1..num'
    BY <1>0, <1>1 DEF Create, TypeOK, NewId
  <2>7. queue' \in Seq(1..num')
    <3>1. queue \in Seq(1..(num + 1)) /\ num + 1 \in 1..(num + 1)
      BY <1>0, MoreTasks DEF TypeOK
    <3> QED
      BY <1>1, <3>1 DEF Create, NewId
  <2> QED
    BY <1>0, <2>1, <2>2, <2>3, <2>4, <2>5, <2>6, <2>7 DEF TypeOK
<1>2. CASE Handler
  BY <1>0, <1>2, Permitted, HandlerUnchanged DEF Handler, TypeOK
<1>3. CASE QuitTimeout \/ Leave \/ PreUnmount
  BY <1>0, <1>3, ZenonT(60) DEF QuitTimeout, Leave, PreUnmount, busVars, stateVars, workVars, historyVars,
     pipeVars, TypeOK, PipeTypeOK
<1>4. CASE BeginFile
  <2>1. PipeTypeOK'
    <3>1. Initialize /\ PipeTypeOK
      BY <1>0, <1>4 DEF BeginFile, TypeOK
    <3>2. Len(Sizes) \in Nat
      BY SizesAssumption
    <3>3. backup' \in BOOLEAN
      BY <3>1 DEF Initialize
    <3> QED
      BY <3>1, <3>2, <3>3 DEF Initialize, PipeTypeOK
  <2> QED
    BY <1>0, <1>4, <2>1 DEF BeginFile, Processing, busVars, stateVars, workVars, historyVars,
       TypeOK
<1>5. CASE RunFile
  <2>1. PipeTypeOK'
    BY <1>0, <1>5, PipeStepType DEF RunFile, TypeOK, Pipeline
  <2> QED
    BY <1>0, <1>5, <2>1 DEF RunFile, Processing, busVars, stateVars, workVars, historyVars,
       TypeOK
<1>6. CASE EmitAnswer
  <2>1. PipeTypeOK'
    BY <1>0, <1>6, SizesAssumption DEF EmitAnswer, Returned, TypeOK, PipeTypeOK
  <2>2. files # <<>> /\ Head(files) \in Uri /\ files' \in Seq(Uri)
    BY <1>0, <1>6 DEF EmitAnswer, Answers, TypeOK
  <2>3. answered' \in Seq(SUBSET Uri) /\ Len(answered') = num
    <3>1. current \in 1..num
      BY <1>0, <2>2 DEF TypeOK, Answers, NoTask
    <3>2. answered[current] \cup {Head(files)} \in SUBSET Uri
      BY <1>0, <2>2, <3>1 DEF TypeOK
    <3> QED
      BY <1>0, <1>6, <3>1, <3>2 DEF EmitAnswer, TypeOK
  <2> QED
    BY <1>0, <1>6, <2>1, <2>2, <2>3 DEF EmitAnswer, Processing, busVars, stateVars, TypeOK
<1>7. CASE EmitFinished
  BY <1>0, <1>7 DEF EmitFinished, Processing, busVars, stateVars, pipeVars, NoTask, TypeOK,
     PipeTypeOK
<1>8. CASE BeginTask
  <2>1. Head(queue) \in 1..num /\ Tail(queue) \in Seq(1..num)
    BY <1>0, <1>8 DEF BeginTask, TypeOK
  <2>2. lists[Head(queue)] \in Seq(Uri)
    BY <1>0, <2>1, ListType DEF TypeOK
  <2>3. files' \in Seq(Uri)
    BY <1>0, <1>8, <2>2, PrependedType DEF BeginTask, TypeOK
  <2> QED
    BY <1>0, <1>8, <2>1, <2>3, SMTT(30) DEF BeginTask, Processing, busVars, stateVars, historyVars,
       pipeVars, TypeOK, PipeTypeOK
<1>9. CASE AllDone
  <2>1. /\ state' \in {"pending_stop", "stopped"} /\ idle' \in BOOLEAN
        /\ timer' \in BOOLEAN /\ asks' \in Seq(PlayState)
    BY <1>0, <1>9, Released DEF AllDone
  <2> QED
    BY <1>0, <1>9, <2>1, ZenonT(60) DEF AllDone, historyVars, pipeVars, TypeOK, PipeTypeOK
<1>10. ASSUME NEW us \in Lists, Call(us)
       PROVE  TypeOK'
  <2>1. inbox' \in Seq(Message)
    BY <1>0, <1>10 DEF Call, Message, TypeOK
  <2> QED
    BY <1>0, <1>10, <2>1, CallsAssumption DEF Call, Outside, stateVars, workVars, historyVars, pipeVars, TypeOK,
       PipeTypeOK
<1>11. ASSUME NEW s \in PlayState, Grant(s)
       PROVE  TypeOK'
  <2>1. inbox' \in Seq(Message) /\ asks' \in Seq(PlayState)
    BY <1>0, <1>11 DEF Grant, Message, TypeOK
  <2> QED
    BY <1>0, <1>11, <2>1 DEF Grant, Outside, stateVars, workVars, historyVars, pipeVars, TypeOK,
       PipeTypeOK
<1>12. ASSUME NEW m \in Words, Says(m)
       PROVE  TypeOK'
  <2>1. inbox' \in Seq(Message)
    BY <1>0, <1>12 DEF Says, Message, TypeOK
  <2> QED
    BY <1>0, <1>12, <2>1, CallsAssumption DEF Says, Outside, stateVars, workVars, historyVars, pipeVars, TypeOK,
       PipeTypeOK
<1>13. CASE UNCHANGED vars
  BY <1>0, <1>13 DEF vars, busVars, stateVars, workVars, historyVars, pipeVars, TypeOK, PipeTypeOK
<1> QED
  BY <1>1, <1>2, <1>3, <1>4, <1>5, <1>6, <1>7, <1>8, <1>9, <1>10, <1>11, <1>12, <1>13
     DEF Next, MainLoop, Receive, Handler, Process, Others

\* ... and Pipeline: the run of a file begins and ends with "file".
LEMMA NextPipeline == IInv /\ [Next]_vars => Pipeline'
<1> SUFFICES ASSUME IInv, [Next]_vars PROVE Pipeline'
  OBVIOUS
<1>0. TypeOK /\ PipeTypeOK /\ Pipeline
  BY DEF IInv, TypeOK
<1>1. CASE Create
  BY <1>0, <1>1, DispatchType DEF Create, pipeVars, Pipeline, ReadyMeansSaved, FramesReleased
<1>2. CASE Handler
  BY <1>0, <1>2, HandlerUnchanged DEF pipeVars, Pipeline, ReadyMeansSaved, FramesReleased
<1>3. CASE QuitTimeout \/ Leave \/ PreUnmount \/ Others
  <2>1. UNCHANGED at /\ UNCHANGED pipeVars
    BY <1>3, OthersUnchanged DEF QuitTimeout, Leave, PreUnmount
  <2>2. CASE at = "out"
    BY <1>0, <2>1, <2>2 DEF pipeVars, Pipeline, ReadyMeansSaved, FramesReleased
  <2>3. CASE at # "out"
    BY <1>0, <2>1, <2>3 DEF pipeVars, Pipeline, ReadyMeansSaved, FramesReleased
  <2> QED
    BY <2>2, <2>3
<1>4. CASE BeginFile
  <2>1. at = "out" /\ at' = "file" /\ Initialize
    BY <1>4 DEF BeginFile, Idle
  <2>2. stage = "off" /\ pixbufs = 0
    BY <1>0, <2>1 DEF Pipeline, PipeTypeOK, FramesReleased
  <2> QED
    BY <2>1, <2>2 DEF Initialize, Pipeline, ReadyMeansSaved, FramesReleased
<1>5. CASE RunFile
  BY <1>0, <1>5, PipeStepType, PipeStepCounts DEF RunFile, Pipeline
<1>6. CASE EmitAnswer
  BY <1>0, <1>6 DEF EmitAnswer, Returned, Pipeline, ReadyMeansSaved, FramesReleased
<1>7. CASE EmitFinished \/ BeginTask \/ AllDone
  BY <1>0, <1>7 DEF EmitFinished, Idle, BeginTask, AllDone, pipeVars, Pipeline, ReadyMeansSaved,
     FramesReleased
<1>8. CASE UNCHANGED vars
  BY <1>0, <1>8 DEF vars, pipeVars, Pipeline, ReadyMeansSaved, FramesReleased
<1> QED
  BY <1>1, <1>2, <1>3, <1>4, <1>5, <1>6, <1>7, <1>8
     DEF Next, MainLoop, Receive, Handler, Process

\* ... and Sources: only SetState changes them, and the idle source stays while
\* it works.
LEMMA NextSources == IInv /\ [Next]_vars => Sources'
<1> SUFFICES ASSUME IInv, [Next]_vars PROVE Sources'
  OBVIOUS
<1>0. TypeOK /\ Sources
  BY DEF IInv
<1>1. CASE Create
  BY <1>0, <1>1, Requested DEF Create, Dispatch, Sources
<1>2. CASE Handler
  BY <1>0, <1>2, Permitted, HandlerUnchanged DEF Handler, Sources
<1>3. CASE QuitTimeout \/ Leave \/ PreUnmount
  BY <1>0, <1>3 DEF QuitTimeout, Leave, PreUnmount, stateVars, Sources
<1>4. CASE BeginFile \/ RunFile \/ EmitAnswer \/ EmitFinished \/ BeginTask
  BY <1>0, <1>4 DEF BeginFile, RunFile, EmitAnswer, EmitFinished, BeginTask, Idle, Processing,
     stateVars, Sources
<1>5. CASE AllDone
  BY <1>0, <1>5, Released DEF AllDone, Sources
<1>6. CASE Others
  BY <1>0, <1>6, OthersUnchanged DEF stateVars, Sources
<1>7. CASE UNCHANGED vars
  BY <1>0, <1>7 DEF vars, stateVars, Sources
<1> QED
  BY <1>1, <1>2, <1>3, <1>4, <1>5, <1>6, <1>7 DEF Next, MainLoop, Receive, Handler, Process

\* ... and Tasks: a task goes from the queue to current_task to finished, and
\* the state is left only when there is none.
LEMMA NextTasks == IInv /\ [Next]_vars => Tasks'
<1> SUFFICES ASSUME IInv, [Next]_vars PROVE Tasks'
  OBVIOUS
<1>0. TypeOK /\ Sources /\ Tasks
  BY DEF IInv
<1>1. CASE Create
  <2>1. /\ state' \in {"working", "paused"} /\ at' = "out"
        /\ num' = num + 1 /\ queue' = Append(queue, num')
        /\ UNCHANGED <<current, finished>>
    BY <1>0, <1>1, Requested DEF Create, NewId, Dispatch
  <2>2. ASSUME NEW t \in 1..num', t \notin finished, t # current
        PROVE  \E i \in 1..Len(queue') : queue'[i] = t
    <3>1. CASE t = num'
      <4>1. Len(queue') = Len(queue) + 1 /\ queue'[Len(queue) + 1] = num'
        BY <1>0, <2>1 DEF TypeOK
      <4>2. Len(queue) + 1 \in 1..Len(queue')
        BY <1>0, <4>1 DEF TypeOK
      <4> QED
        BY <3>1, <4>1, <4>2
    <3>2. CASE t # num'
      <4>1. PICK i \in 1..Len(queue) : queue[i] = t
        BY <1>0, <2>1, <2>2, <3>2 DEF Tasks, TypeOK
      <4> QED
        BY <1>0, <2>1, <4>1 DEF TypeOK
    <3> QED
      BY <3>1, <3>2
  <2> QED
    BY <2>1, <2>2 DEF Tasks
<1>2. CASE Handler
  BY <1>0, <1>2, Permitted, HandlerUnchanged DEF Handler, Tasks
<1>3. CASE QuitTimeout \/ Leave \/ PreUnmount \/ Others
  BY <1>0, <1>3, OthersUnchanged DEF QuitTimeout, Leave, PreUnmount, stateVars, workVars,
     historyVars, Tasks
<1>4. CASE BeginFile \/ RunFile \/ EmitAnswer
  BY <1>0, <1>4 DEF BeginFile, RunFile, EmitAnswer, Processing, stateVars, workVars, historyVars,
     Tasks
<1>5. CASE EmitFinished
  BY <1>0, <1>5 DEF EmitFinished, Processing, stateVars, NoTask, Tasks, TypeOK
<1>6. CASE BeginTask
  <2>1. /\ state' = "working" /\ at' = "out" /\ current = NoTask /\ queue # <<>>
        /\ queue' = Tail(queue) /\ current' = Head(queue)
        /\ UNCHANGED <<num, finished>>
    BY <1>0, <1>6 DEF BeginTask, Processing, stateVars, historyVars, Sources, Tasks
  <2>2. ASSUME NEW t \in 1..num, t \notin finished, t # Head(queue)
        PROVE  \E i \in 1..Len(Tail(queue)) : Tail(queue)[i] = t
    <3>1. PICK i \in 1..Len(queue) : queue[i] = t
      BY <1>0, <2>1, <2>2 DEF Tasks, NoTask, TypeOK
    <3>2. i # 1 /\ i - 1 \in 1..Len(Tail(queue)) /\ Tail(queue)[i - 1] = t
      BY <1>0, <2>1, <2>2, <3>1 DEF TypeOK
    <3> QED
      BY <3>2
  <2> QED
    BY <2>1, <2>2 DEF Tasks
<1>7. CASE AllDone
  BY <1>0, <1>7 DEF AllDone, NothingLeft, historyVars, Tasks
<1>8. CASE UNCHANGED vars
  BY <1>0, <1>8 DEF vars, stateVars, workVars, historyVars, Tasks
<1> QED
  BY <1>1, <1>2, <1>3, <1>4, <1>5, <1>6, <1>7, <1>8
     DEF Next, MainLoop, Receive, Handler, Process

\* A new task does not change what is known of the others.
LEMMA CreateKeeps ==
  ASSUME TypeOK, Create
  PROVE  /\ num' = num + 1
         /\ answered'[num'] = {}
         /\ \A t \in 1..num : answered'[t] = answered[t] /\ Uris(t)' = Uris(t)
         /\ UNCHANGED <<at, files, current, pipe, finished, unmounted>>
<1>1. /\ num' = num + 1 /\ lists' = Append(lists, Head(inbox).uris)
      /\ answered' = Append(answered, {})
      /\ UNCHANGED <<at, files, current, pipe, finished, unmounted>>
  BY DEF Create, Dispatch
<1>2. \A t \in 1..num : answered'[t] = answered[t] /\ lists'[t] = lists[t]
  BY <1>1 DEF TypeOK
<1>3. answered'[num'] = {}
  BY <1>1 DEF TypeOK
<1> QED
  BY <1>1, <1>2, <1>3, ZenonT(60) DEF Uris

\* What touches none of it keeps the account of the answers.
LEMMA AnswersKept ==
  ASSUME Answers, UNCHANGED <<at, files, current, pipe, num, lists, answered, finished>>
  PROVE  Answers'
<1>1. \A t : Uris(t)' = Uris(t)
  BY DEF Uris
<1> QED
  BY <1>1 DEF Answers

\* ... and Answers: what is popped from the queue of files is answered.
LEMMA NextAnswers == IInv /\ [Next]_vars => Answers'
<1> SUFFICES ASSUME IInv, [Next]_vars PROVE Answers'
  OBVIOUS
<1>0. TypeOK /\ Sources /\ Tasks /\ Answers
  BY DEF IInv
<1>1. CASE Create
  <2>1. /\ num' = num + 1 /\ answered'[num'] = {}
        /\ \A t \in 1..num : answered'[t] = answered[t] /\ Uris(t)' = Uris(t)
        /\ UNCHANGED <<at, files, current, pipe, finished>>
    BY <1>0, <1>1, CreateKeeps
  <2>2. \A t \in 1..num' : answered'[t] \subseteq Uris(t)'
    <3>1. \A t \in 1..num' : t \in 1..num \/ t = num'
      BY <1>0, <2>1 DEF TypeOK
    <3>2. \A t \in 1..num : answered'[t] \subseteq Uris(t)'
      BY <1>0, <2>1 DEF Answers
    <3>3. \A t : t = num' => answered'[t] \subseteq Uris(t)'
      BY <2>1
    <3> QED
      BY <3>1, <3>2, <3>3
  <2>3. \A t \in finished : answered'[t] = Uris(t)'
    BY <1>0, <2>1 DEF Answers, TypeOK
  <2>4. current # NoTask =>
          pipe /\ Uris(current)' = answered'[current] \cup {files[i] : i \in 1..Len(files)}
    <3>1. current # NoTask => current \in 1..num
      BY <1>0 DEF TypeOK, NoTask
    <3> QED
      BY <1>0, <2>1, <3>1 DEF Answers
  <2> QED
    BY <1>0, <2>1, <2>2, <2>3, <2>4, ZenonT(60) DEF Answers, Uris
<1>2. CASE Handler \/ QuitTimeout \/ Leave \/ PreUnmount \/ Others
  <2>1. UNCHANGED <<at, files, current, pipe, num, lists, answered, finished>>
    BY <1>0, <1>2, HandlerUnchanged, OthersUnchanged DEF QuitTimeout, Leave, PreUnmount, workVars,
       historyVars
  <2> QED
    BY <1>0, <2>1, AnswersKept
<1>3. CASE BeginFile
  <2>1. /\ files # <<>>
        /\ UNCHANGED <<files, current, pipe, num, answered, finished>> /\ \A t : Uris(t)' = Uris(t)
    BY <1>3 DEF BeginFile, workVars, historyVars, Uris
  <2> QED
    BY <1>0, <2>1 DEF Answers
<1>4. CASE RunFile
  BY <1>0, <1>4, AnswersKept DEF RunFile, workVars, historyVars
<1>5. CASE EmitAnswer
  <2>1. /\ at' = "out" /\ files' = Tail(files) /\ UNCHANGED <<current, pipe, num, finished>>
        /\ answered' = [answered EXCEPT ![current] = answered[current] \cup {Head(files)}]
        /\ \A t : Uris(t)' = Uris(t)
    BY <1>5 DEF EmitAnswer, Uris
  <2>2. files # <<>> /\ current # NoTask /\ current \in 1..num
    BY <1>0, <1>5 DEF EmitAnswer, Answers, TypeOK, NoTask
  <2>3. /\ answered'[current] = answered[current] \cup {Head(files)}
        /\ \A t \in 1..num : t # current => answered'[t] = answered[t]
    BY <1>0, <2>1, <2>2 DEF TypeOK
  <2>4. {files[i] : i \in 1..Len(files)}
          = {Head(files)} \cup {Tail(files)[i] : i \in 1..Len(Tail(files))}
    <3>1. files \in Seq(Uri) /\ files # <<>>
      BY <1>0, <2>2 DEF TypeOK
    <3>2. \A i \in 1..Len(Tail(files)) : i + 1 \in 1..Len(files) /\ Tail(files)[i] = files[i + 1]
      BY <3>1
    <3>3. \A i \in 1..Len(files) :
            i = 1 \/ (i - 1 \in 1..Len(Tail(files)) /\ files[i] = Tail(files)[i - 1])
      BY <3>1
    <3>4. 1 \in 1..Len(files) /\ Head(files) = files[1]
      BY <3>1
    <3> QED
      BY <3>2, <3>3, <3>4
  <2>5. Uris(current) = answered'[current] \cup {files'[i] : i \in 1..Len(files')}
    BY <1>0, <2>1, <2>2, <2>3, <2>4 DEF Answers
  <2>6. \A t \in 1..num : answered'[t] \subseteq Uris(t)
    BY <1>0, <2>3, <2>5 DEF Answers
  <2>7. \A t \in finished : answered'[t] = Uris(t)
    <3>1. finished \subseteq 1..num
      BY <1>0 DEF TypeOK
    <3>2. current \in finished => answered'[current] = Uris(current)
      BY <1>0, <2>2, <2>3, <2>5 DEF Answers
    <3> QED
      BY <1>0, <2>3, <3>1, <3>2 DEF Answers
  <2> QED
    BY <1>0, <2>1, <2>2, <2>5, <2>6, <2>7 DEF Answers
<1>6. CASE EmitFinished
  <2>1. /\ finished' = finished \cup ({current} \ {NoTask}) /\ current' = NoTask /\ at' = "next"
        /\ UNCHANGED <<files, pipe, num, answered>> /\ \A t : Uris(t)' = Uris(t)
    BY <1>6 DEF EmitFinished, Uris
  <2>2. files = <<>>
    BY <1>0, <1>6 DEF EmitFinished, Answers
  <2>3. current # NoTask => answered[current] = Uris(current)
    <3>1. {files[i] : i \in 1..Len(files)} = {}
      BY <2>2
    <3> QED
      BY <1>0, <3>1 DEF Answers
  <2> QED
    BY <1>0, <2>1, <2>2, <2>3 DEF Answers
<1>7. CASE BeginTask
  <2>1. /\ at = "next" /\ at' = "out" /\ queue # <<>> /\ current' = Head(queue) /\ pipe' = TRUE
        /\ files' = files \o Prepended(lists[Head(queue)])
        /\ UNCHANGED <<num, answered, finished>> /\ \A t : Uris(t)' = Uris(t)
    BY <1>7 DEF BeginTask, historyVars, Uris
  <2>2. Head(queue) \in 1..num /\ files = <<>>
    BY <1>0, <2>1 DEF TypeOK, Tasks, Answers
  <2>3. lists[Head(queue)] \in Seq(Uri)
    BY <1>0, <2>2, ListType DEF TypeOK
  <2>4. files' = Prepended(lists[Head(queue)])
    BY <2>1, <2>2, <2>3, PrependedType
  <2>5. {files'[i] : i \in 1..Len(files')} = Uris(Head(queue))
    BY <2>3, <2>4, PrependedType DEF Uris
  <2> QED
    BY <1>0, <2>1, <2>2, <2>5 DEF Answers, NoTask
<1>8. CASE AllDone
  <2>1. UNCHANGED <<files, current, num, lists, answered, finished>> /\ current = NoTask /\ at' = "out"
    BY <1>0, <1>8 DEF AllDone, historyVars, Tasks
  <2> QED
    BY <1>0, <2>1 DEF Answers, Uris
<1>9. CASE UNCHANGED vars
  BY <1>0, <1>9, AnswersKept DEF vars, workVars, historyVars
<1> QED
  BY <1>1, <1>2, <1>3, <1>4, <1>5, <1>6, <1>7, <1>8, <1>9
     DEF Next, MainLoop, Receive, Handler, Process

\* ... and QuitLosesNothing: the timer fires only when no task is left, and
\* nothing is worked on after it.
LEMMA NextQuits == IInv /\ [Next]_vars => QuitLosesNothing'
<1> SUFFICES ASSUME IInv, [Next]_vars PROVE QuitLosesNothing'
  OBVIOUS
<1>0. TypeOK /\ Sources /\ Tasks /\ Answers /\ QuitLosesNothing
  BY DEF IInv
<1>1. CASE Create
  <2>1. /\ num' = num + 1 /\ UNCHANGED <<finished, unmounted>>
        /\ \A t \in 1..num : answered'[t] = answered[t] /\ Uris(t)' = Uris(t)
    BY <1>0, <1>1, CreateKeeps
  <2>2. loop' # "running" => loop = "quitting" /\ late' = late \cup {num'}
    BY <1>1 DEF Create, Dispatch, NewId
  <2>3. SUFFICES ASSUME loop' # "running", ~unmounted', NEW t \in 1..num', t \notin late'
                 PROVE  t \in finished' /\ answered'[t] = Uris(t)'
    BY DEF QuitLosesNothing, Uris
  <2>4. t \in 1..num /\ t \notin late
    BY <1>0, <2>1, <2>2, <2>3 DEF TypeOK
  <2>5. t \in finished /\ answered[t] = Uris(t)
    BY <1>0, <2>1, <2>2, <2>3, <2>4 DEF QuitLosesNothing
  <2> QED
    BY <2>1, <2>4, <2>5
<1>2. CASE Handler
  <2>1. /\ loop' # "running" => loop # "running"
        /\ UNCHANGED <<num, lists, answered, finished, late, unmounted>>
    BY <1>0, <1>2, HandlerUnchanged
  <2> QED
    BY <1>0, <2>1 DEF QuitLosesNothing, Uris
<1>3. CASE QuitTimeout
  <2>1. \A t \in 1..num : t \in finished
    BY <1>0, <1>3 DEF QuitTimeout, Sources, Tasks, NoTask, TypeOK
  <2>2. \A t \in 1..num : answered[t] = Uris(t)
    BY <1>0, <2>1 DEF Answers
  <2> QED
    BY <1>3, <2>1, <2>2 DEF QuitTimeout, historyVars, QuitLosesNothing, Uris
<1>4. CASE Leave
  BY <1>0, <1>4 DEF Leave, historyVars, QuitLosesNothing, Uris
<1>5. CASE PreUnmount
  BY <1>5 DEF PreUnmount, QuitLosesNothing
<1>6. CASE Process
  <2>1. loop = "running"
    BY <1>0, <1>6 DEF Process, BeginFile, RunFile, EmitAnswer, EmitFinished, BeginTask, AllDone,
       Idle, Sources
  <2>2. UNCHANGED loop
    BY <1>6 DEF Process, BeginFile, RunFile, EmitAnswer, EmitFinished, BeginTask, AllDone,
       Processing
  <2> QED
    BY <2>1, <2>2 DEF QuitLosesNothing
<1>7. CASE Others
  BY <1>0, <1>7, OthersUnchanged DEF QuitLosesNothing, Uris
<1>8. CASE UNCHANGED vars
  BY <1>0, <1>8 DEF vars, historyVars, QuitLosesNothing, Uris
<1> QED
  BY <1>1, <1>2, <1>3, <1>4, <1>5, <1>6, <1>7, <1>8 DEF Next, MainLoop, Receive, Handler

\* Every step keeps the invariant.
LEMMA NextIInv == IInv /\ [Next]_vars => IInv'
BY NextType, NextPipeline, NextSources, NextTasks, NextAnswers, NextQuits DEF IInv

\* Work left has the idle source or waits for the permission: a task that is
\* unfinished is the current one or queued, so that the state is not stopped.
LEMMA DrivenByIInv == IInv => WorkIsDriven
<1> SUFFICES ASSUME IInv, NEW t \in Unfinished
             PROVE  (idle \/ state = "paused") /\ ~timer
  BY DEF WorkIsDriven
<1>1. current # NoTask \/ queue # <<>>
  BY DEF IInv, Tasks, TypeOK, Unfinished, NoTask
<1>2. state \notin {"pending_stop", "stopped"}
  BY <1>1 DEF IInv, Tasks
<1> QED
  BY <1>2 DEF IInv, TypeOK, Sources

-----------------------------------------------------------------------------
(* The theorems.                                                             *)

\* The invariant holds always.
THEOREM Inductive == Spec => []IInv
BY InitIInv, NextIInv, PTL DEF Spec

\* The variables keep their types, for any uris, lists, sizes and bounds
\* (gst-thumb-thumber.c, gst-thumb-pipe.c).
THEOREM ThumberTypeCorrect == Spec => []TypeOK
<1>1. IInv => TypeOK
  BY DEF IInv
<1> QED
  BY <1>1, Inductive, PTL

\* No task is left without a source that works it off, and none under the quit
\* timer, whatever order calls, requests, replies and hints come in
\* (thumber_set_state and the handlers of the playback library).
THEOREM WorkAlwaysDriven == Spec => []WorkIsDriven
BY Inductive, DrivenByIInv, PTL

\* A quit for idleness loses no task, nor a file of one (quit_timeout_cb,
\* thumber_process_func).
THEOREM QuitNeverLoses == Spec => []QuitLosesNothing
<1>1. IInv => QuitLosesNothing
  BY DEF IInv
<1> QED
  BY <1>1, Inductive, PTL

\* A run that succeeds has written every size, and every run gives back the
\* frames it took (create_thumbnails, wait_for_image_buffer, deinitialize).
THEOREM RunsEndClean == Spec => []RunEndsClean
<1>1. IInv => RunEndsClean
  BY DEF IInv, Pipeline, RunEndsClean
<1> QED
  BY <1>1, Inductive, PTL

-----------------------------------------------------------------------------
(* The refinement: what a client sees of the process is ThumbnailService.     *)

\* A task is queued once, and neither current nor finished then.
Waiting ==
  /\ current \notin finished
  /\ \A i \in 1..Len(queue) : queue[i] # current /\ queue[i] \notin finished
  /\ \A i, j \in 1..Len(queue) : queue[i] = queue[j] => i = j

\* Every call accepted was made: f counts the calls that are accepted when the
\* first i messages of inbox have been dispatched.
Counts(f) ==
  /\ f \in [0..Len(inbox) -> 0..calls]
  /\ f[0] = num
  /\ \A i \in 1..Len(inbox) :
       f[i] = f[i - 1] + (IF inbox[i].msg = "create" THEN 1 ELSE 0)
Counted == \E f : Counts(f)

Abstraction == IInv /\ Waiting /\ Counted

LEMMA NextWaiting == IInv /\ Waiting /\ [Next]_vars => Waiting'
<1> SUFFICES ASSUME IInv, Waiting, [Next]_vars PROVE Waiting'
  OBVIOUS
<1>0. TypeOK /\ Sources /\ Tasks /\ Answers
  BY DEF IInv
<1>1. CASE Create
  <2>1. /\ queue' = Append(queue, num + 1)
        /\ UNCHANGED <<current, finished>>
    BY <1>1 DEF Create, NewId, Dispatch
  <2>2. /\ num \in Nat /\ queue \in Seq(1..num) /\ current \in 0..num
        /\ finished \subseteq 1..num
    BY <1>0 DEF TypeOK
  <2>3. num + 1 # current /\ num + 1 \notin finished
    BY <2>2
  <2>4. /\ Len(queue') = Len(queue) + 1
        /\ queue'[Len(queue) + 1] = num + 1
        /\ \A i \in 1..Len(queue) : queue'[i] = queue[i] /\ queue'[i] # num + 1
    BY <2>1, <2>2
  <2> QED
    BY <2>1, <2>2, <2>3, <2>4 DEF Waiting
<1>2. CASE Handler
  BY <1>2, HandlerUnchanged, <1>0 DEF Handler, Waiting, workVars, historyVars,
     StateHint, StateRequest, StateReply
<1>3. CASE QuitTimeout \/ Leave \/ PreUnmount \/ Others
  BY <1>3, OthersUnchanged DEF QuitTimeout, Leave, PreUnmount, workVars, historyVars, Waiting
<1>4. CASE BeginFile \/ RunFile \/ EmitAnswer
  BY <1>4 DEF BeginFile, RunFile, EmitAnswer, workVars, historyVars, Waiting
<1>5. CASE EmitFinished
  <2>1. /\ finished' = finished \cup ({current} \ {NoTask})
        /\ current' = NoTask /\ queue' = queue
    BY <1>5 DEF EmitFinished
  <2>2. \A i \in 1..Len(queue) : queue[i] # NoTask
    BY <1>0 DEF TypeOK, NoTask
  <2>3. NoTask \notin finished'
    BY <1>0, <2>1 DEF TypeOK, NoTask
  <2> QED
    BY <2>1, <2>2, <2>3 DEF Waiting
<1>6. CASE BeginTask
  <2>1. /\ queue # <<>> /\ queue' = Tail(queue) /\ current' = Head(queue)
        /\ UNCHANGED <<num, finished>>
    BY <1>6 DEF BeginTask, historyVars
  <2>2. queue \in Seq(1..num)
    BY <1>0 DEF TypeOK
  <2>3. /\ Head(queue) = queue[1] /\ Len(queue) >= 1 /\ Len(Tail(queue)) = Len(queue) - 1
        /\ \A i \in 1..(Len(queue) - 1) : Tail(queue)[i] = queue[i + 1]
    BY <2>1, <2>2
  <2> QED
    BY <2>1, <2>2, <2>3 DEF Waiting
<1>7. CASE AllDone
  BY <1>7 DEF AllDone, historyVars, Waiting
<1>8. CASE UNCHANGED vars
  BY <1>8 DEF vars, workVars, historyVars, Waiting
<1> QED
  BY <1>1, <1>2, <1>3, <1>4, <1>5, <1>6, <1>7, <1>8
     DEF Next, MainLoop, Receive, Handler, Process

\* A message is dispatched: the count begins after it.
LEMMA CountedLess ==
  ASSUME TypeOK, Counted, inbox # <<>>, inbox' = Tail(inbox), calls' = calls,
         num' = num + (IF Head(inbox).msg = "create" THEN 1 ELSE 0)
  PROVE  Counted'
<1>1. PICK f : Counts(f)
  BY DEF Counted
<1>2. inbox \in Seq(Message) /\ calls \in Nat
  BY DEF TypeOK
<1>3. /\ Len(inbox) \in Nat /\ Len(inbox) >= 1 /\ Len(inbox') = Len(inbox) - 1
      /\ Head(inbox) = inbox[1]
      /\ \A i \in 1..(Len(inbox) - 1) : inbox'[i] = inbox[i + 1]
  BY <1>2
<1>0. PICK g : g = [i \in 0..(Len(inbox) - 1) |-> f[i + 1]]
  OBVIOUS
<1>4. /\ f \in [0..Len(inbox) -> 0..calls] /\ f[0] = num
      /\ \A i \in 1..Len(inbox) : f[i] = f[i - 1] + (IF inbox[i].msg = "create" THEN 1 ELSE 0)
  BY <1>1 DEF Counts
<1>5. g \in [0..Len(inbox') -> 0..calls']
  BY <1>0, <1>3, <1>4
<1>6. f[1] = num'
  BY <1>3, <1>4
<1>7. g[0] = num'
  BY <1>0, <1>3, <1>6
<1>8. ASSUME NEW i \in 1..Len(inbox')
      PROVE  g[i] = g[i - 1] + (IF inbox'[i].msg = "create" THEN 1 ELSE 0)
  <2>1. i + 1 \in 1..Len(inbox) /\ i \in 0..(Len(inbox) - 1) /\ i - 1 \in 0..(Len(inbox) - 1)
    BY <1>3
  <2>2. f[i + 1] = f[i] + (IF inbox[i + 1].msg = "create" THEN 1 ELSE 0)
    BY <1>4, <2>1
  <2>3. g[i] = f[i + 1] /\ g[i - 1] = f[i] /\ inbox'[i] = inbox[i + 1]
    BY <1>0, <1>3, <2>1
  <2> QED
    BY <2>2, <2>3
<1>9. Counts(g)'
  BY <1>5, <1>7, <1>8 DEF Counts
<1> QED
  BY <1>9 DEF Counted

\* A message arrives; a call was made for it if it is one.
LEMMA CountedMore ==
  ASSUME TypeOK, Counted, NEW m, inbox' = Append(inbox, m), num' = num,
         calls' = calls + (IF m.msg = "create" THEN 1 ELSE 0)
  PROVE  Counted'
<1>1. PICK f : Counts(f)
  BY DEF Counted
<1>2. /\ Len(inbox) \in Nat /\ calls \in Nat /\ Len(inbox') = Len(inbox) + 1
      /\ inbox'[Len(inbox) + 1] = m
      /\ \A i \in 1..Len(inbox) : inbox'[i] = inbox[i]
  <2>1. inbox \in Seq(Message) /\ calls \in 0..MaxCalls
    BY DEF TypeOK
  <2> QED
    BY <2>1, CallsAssumption
<1>3. /\ f \in [0..Len(inbox) -> 0..calls] /\ f[0] = num
      /\ \A i \in 1..Len(inbox) : f[i] = f[i - 1] + (IF inbox[i].msg = "create" THEN 1 ELSE 0)
  BY <1>1 DEF Counts
<1>4. PICK last : last = f[Len(inbox)] + (IF m.msg = "create" THEN 1 ELSE 0)
  OBVIOUS
<1>5. last \in 0..calls'
  <2>1. f[Len(inbox)] \in 0..calls
    BY <1>2, <1>3
  <2> QED
    BY <1>2, <1>4, <2>1
<1>6. PICK g : g = [i \in 0..(Len(inbox) + 1) |-> IF i <= Len(inbox) THEN f[i] ELSE last]
  OBVIOUS
<1>7. g \in [0..Len(inbox') -> 0..calls']
  <2>1. \A i \in 0..Len(inbox) : f[i] \in 0..calls'
    BY <1>2, <1>3
  <2>2. \A i \in 0..(Len(inbox) + 1) : (IF i <= Len(inbox) THEN f[i] ELSE last) \in 0..calls'
    BY <1>2, <1>5, <2>1
  <2> QED
    BY <1>2, <1>6, <2>2
<1>8. g[0] = num'
  BY <1>2, <1>3, <1>6
<1>9. ASSUME NEW i \in 1..Len(inbox')
      PROVE  g[i] = g[i - 1] + (IF inbox'[i].msg = "create" THEN 1 ELSE 0)
  <2>1. CASE i <= Len(inbox)
    <3>1. g[i] = f[i] /\ g[i - 1] = f[i - 1] /\ inbox'[i] = inbox[i]
      BY <1>2, <1>6, <2>1
    <3> QED
      BY <1>2, <1>3, <2>1, <3>1
  <2>2. CASE i = Len(inbox) + 1
    <3>1. g[i] = last /\ g[i - 1] = f[Len(inbox)] /\ inbox'[i] = m
      BY <1>2, <1>6, <2>2
    <3> QED
      BY <1>4, <3>1
  <2> QED
    BY <1>2, <2>1, <2>2
<1>10. Counts(g)'
  BY <1>7, <1>8, <1>9 DEF Counts
<1> QED
  BY <1>10 DEF Counted

LEMMA NextCounted == IInv /\ Counted /\ [Next]_vars => Counted'
<1> SUFFICES ASSUME IInv, Counted, [Next]_vars PROVE Counted'
  OBVIOUS
<1>0. TypeOK
  BY DEF IInv
<1>1. CASE Create
  <2>1. Head(inbox).msg = "create" /\ inbox # <<>> /\ inbox' = Tail(inbox)
        /\ calls' = calls /\ num' = num + 1
    BY <1>1 DEF Create, Dispatch
  <2> QED
    BY <1>0, <2>1, CountedLess
<1>2. ASSUME NEW kind \in {"hint", "request", "reply"}, Dispatch(kind), num' = num PROVE Counted'
  <2>1. Head(inbox).msg # "create" /\ inbox # <<>> /\ inbox' = Tail(inbox) /\ calls' = calls
    BY <1>2 DEF Dispatch
  <2>2. num' = num + (IF Head(inbox).msg = "create" THEN 1 ELSE 0)
    BY <1>0, <1>2, <2>1 DEF TypeOK
  <2> QED
    BY <1>0, <2>1, <2>2, CountedLess
<1>3. CASE Handler
  BY <1>2, <1>3 DEF Handler, StateHint, StateRequest, StateReply
<1>4. ASSUME NEW us \in Lists, Call(us) PROVE Counted'
  <2>1. inbox' = Append(inbox, [msg |-> "create", uris |-> us]) /\ calls' = calls + 1 /\ num' = num
    BY <1>4 DEF Call, Outside, historyVars
  <2> QED
    BY <1>0, <2>1, CountedMore
<1>5. ASSUME NEW m, m.msg # "create", inbox' = Append(inbox, m), calls' = calls, num' = num
      PROVE  Counted'
  <2>1. calls' = calls + (IF m.msg = "create" THEN 1 ELSE 0)
    BY <1>0, <1>5, CallsAssumption DEF TypeOK
  <2> QED
    BY <1>0, <1>5, <2>1, CountedMore
<1>6. ASSUME NEW s \in PlayState, Grant(s) PROVE Counted'
  <2>1. /\ inbox' = Append(inbox, [msg |-> "reply", granted |-> s])
        /\ calls' = calls /\ num' = num
    BY <1>6 DEF Grant, Outside, historyVars
  <2> QED
    BY <1>5, <2>1
<1>7. ASSUME NEW m \in Words, Says(m) PROVE Counted'
  <2>1. m.msg # "create"
    BY DEF Words
  <2>2. inbox' = Append(inbox, m) /\ calls' = calls /\ num' = num
    BY <1>7 DEF Says, Outside, historyVars
  <2> QED
    BY <1>5, <2>1, <2>2
<1>8. CASE UNCHANGED <<inbox, calls, num>>
  BY <1>8 DEF Counted, Counts
<1>9. CASE QuitTimeout \/ Leave \/ PreUnmount \/ Process \/ UNCHANGED vars
  BY <1>8, <1>9 DEF QuitTimeout, Leave, PreUnmount, Process, BeginFile, RunFile, EmitAnswer,
     EmitFinished, BeginTask, AllDone, Processing, busVars, historyVars, vars
<1> QED
  BY <1>1, <1>3, <1>4, <1>6, <1>7, <1>9 DEF Next, MainLoop, Receive, Handler, Others

\* The service's view of the tasks.
Wants(t) == IF t > num THEN {} ELSE Uris(t)
Answered(t) == IF t > num THEN {} ELSE answered[t]
LeftOver == IF loop = "down" THEN {t \in 1..num : t \notin finished /\ t # current} ELSE {}

\* No more tasks than calls.
LEMMA TasksBounded ==
  ASSUME Abstraction
  PROVE  num \in Nat /\ MaxCalls \in Nat /\ num <= MaxCalls
<1>1. PICK f : f \in [0..Len(inbox) -> 0..calls] /\ f[0] = num
  BY DEF Abstraction, Counted, Counts
<1>2. num \in Nat /\ inbox \in Seq(Message) /\ calls \in 0..MaxCalls
  BY DEF Abstraction, IInv, TypeOK
<1>3. num \in 0..calls
  BY <1>1, <1>2
<1> QED
  BY <1>2, <1>3, CallsAssumption

\* What the service shows is the same when the functions agree on each task.
LEMMA SameView ==
  /\ (\A t \in Task : Phase(t)' = Phase(t)) =>
       [t \in Task |-> Phase(t)]' = [t \in Task |-> Phase(t)]
  /\ (\A t \in Task : Wants(t)' = Wants(t)) =>
       [t \in Task |-> IF t > num THEN {} ELSE Uris(t)]'
         = [t \in Task |-> IF t > num THEN {} ELSE Uris(t)]
  /\ (\A t \in Task : Answered(t)' = Answered(t)) =>
       [t \in Task |-> IF t > num THEN {} ELSE answered[t]]'
         = [t \in Task |-> IF t > num THEN {} ELSE answered[t]]
<1>1. ASSUME \A t \in Task : Phase(t)' = Phase(t)
      PROVE  [t \in Task |-> Phase(t)]' = [t \in Task |-> Phase(t)]
  BY <1>1
<1>2. ASSUME \A t \in Task : Wants(t)' = Wants(t)
      PROVE  [t \in Task |-> IF t > num THEN {} ELSE Uris(t)]'
               = [t \in Task |-> IF t > num THEN {} ELSE Uris(t)]
  BY <1>2 DEF Wants
<1>3. ASSUME \A t \in Task : Answered(t)' = Answered(t)
      PROVE  [t \in Task |-> IF t > num THEN {} ELSE answered[t]]'
               = [t \in Task |-> IF t > num THEN {} ELSE answered[t]]
  BY <1>3 DEF Answered
<1> QED
  BY <1>1, <1>2, <1>3

\* A step that touches no task and does not end the process is not seen.
LEMMA Unseen ==
  ASSUME UNCHANGED <<num, lists, answered, finished, current>>, loop' = "down" <=> loop = "down"
  PROVE  UNCHANGED Service!vars
<1>1. \A t \in Task : Phase(t)' = Phase(t)
  BY DEF Phase
<1>2. \A t \in Task : Wants(t)' = Wants(t) /\ Answered(t)' = Answered(t)
  BY DEF Wants, Answered, Uris
<1>3. /\ [t \in Task |-> Phase(t)]' = [t \in Task |-> Phase(t)]
      /\ [t \in Task |-> IF t > num THEN {} ELSE Uris(t)]'
           = [t \in Task |-> IF t > num THEN {} ELSE Uris(t)]
      /\ [t \in Task |-> IF t > num THEN {} ELSE answered[t]]'
           = [t \in Task |-> IF t > num THEN {} ELSE answered[t]]
  BY <1>1, <1>2, SameView
<1> QED
  BY <1>3 DEF Service!vars

\* A function changed at one task.
LEMMA OneMoves ==
  ASSUME NEW f, NEW g, NEW t \in Task, NEW v,
         f = [k \in Task |-> f[k]], g = [k \in Task |-> g[k]],
         g[t] = v, \A k \in Task \ {t} : g[k] = f[k]
  PROVE  g = [f EXCEPT ![t] = v]
<1>1. \A k \in Task : g[k] = [f EXCEPT ![t] = v][k]
  OBVIOUS
<1> QED
  BY <1>1

LEMMA CreateAccepts ==
  ASSUME Abstraction, Create
  PROVE  Service!Next
<1> DEFINE phases == [t \in Task |-> Phase(t)]
           wants == [t \in Task |-> IF t > num THEN {} ELSE Uris(t)]
<1>1. TypeOK
  BY DEF Abstraction, IInv
<1>2. PICK n : n = num + 1
  OBVIOUS
<1>3. /\ num' = n /\ answered'[n] = {}
      /\ \A t \in 1..num : answered'[t] = answered[t] /\ Uris(t)' = Uris(t)
      /\ UNCHANGED <<current, finished>>
  BY <1>1, <1>2, CreateKeeps
<1>4. /\ Head(inbox).msg = "create" /\ Head(inbox) \in Message
      /\ loop \in {"running", "quitting"} /\ loop' \in {"running", "leaving"}
  BY <1>1, DispatchType DEF Create, Dispatch
<1>5. n \in Task /\ num < MaxCalls
  <2>1. PICK f : Counts(f)
    BY DEF Abstraction, Counted
  <2>2. inbox \in Seq(Message) /\ inbox # <<>> /\ num \in Nat /\ calls \in 0..MaxCalls
    BY <1>1 DEF TypeOK, Create, Dispatch
  <2>3. Len(inbox) \in Nat /\ 1 \in 1..Len(inbox) /\ inbox[1].msg = "create"
    BY <1>4, <2>2
  <2>4. f[1] = f[0] + 1 /\ f[0] = num /\ f[1] \in 0..calls
    BY <2>1, <2>3 DEF Counts
  <2> QED
    BY <1>2, <2>2, <2>4, CallsAssumption DEF Task
<1>6. PICK U : U = Uris(n)'
  OBVIOUS
<1>7. U \in SUBSET Uri
  <2>1. lists' = Append(lists, Head(inbox).uris) /\ lists \in Seq(Lists) /\ Len(lists) = num
    BY <1>1 DEF Create, TypeOK
  <2>2. Head(inbox).uris \in Lists
    BY <1>4, CallCarriesList
  <2>3. lists'[n] = Head(inbox).uris
    BY <1>2, <2>1
  <2>4. lists'[n] \in Seq(Uri)
    BY <2>2, <2>3, ListType
  <2> QED
    BY <1>6, <2>4 DEF Uris
<1>8. /\ num \in Nat /\ current \in 0..num /\ finished \subseteq 1..num
  BY <1>1 DEF TypeOK
<1>9. Phase(n)' = "queued"
  <2>1. ~(n > num') /\ n \notin finished' /\ n # current' /\ loop' # "down"
    BY <1>2, <1>3, <1>4, <1>8
  <2> QED
    BY <2>1 DEF Phase
<1>10. ASSUME NEW t \in Task \ {n} PROVE Phase(t)' = Phase(t)
  <2>1. t > num' <=> t > num
    BY <1>2, <1>3, <1>8, CallsAssumption DEF Task
  <2> QED
    BY <1>3, <1>4, <2>1 DEF Phase
<1>11. phases' = [phases EXCEPT ![n] = "queued"]
  <2>1. phases'[n] = "queued" /\ \A t \in Task \ {n} : phases'[t] = phases[t]
    BY <1>5, <1>9, <1>10
  <2>2. phases = [k \in Task |-> phases[k]] /\ phases' = [k \in Task |-> phases'[k]]
    OBVIOUS
  <2> HIDE DEF phases
  <2> QED
    BY <1>5, <2>1, <2>2, OneMoves
<1>12. wants' = [wants EXCEPT ![n] = U]
  <2>1. wants'[n] = U
    BY <1>2, <1>3, <1>5, <1>6, <1>8
  <2>2. ASSUME NEW t \in Task \ {n} PROVE wants'[t] = wants[t]
    <3>1. CASE t > num
      BY <1>2, <1>3, <1>8, <2>2, <3>1, CallsAssumption DEF Task
    <3>2. CASE ~(t > num)
      <4>1. t \in 1..num /\ ~(t > num')
        BY <1>2, <1>3, <1>8, <2>2, <3>2, CallsAssumption DEF Task
      <4> QED
        BY <1>3, <2>2, <3>2, <4>1
    <3> QED
      BY <3>1, <3>2
  <2>3. wants = [k \in Task |-> wants[k]] /\ wants' = [k \in Task |-> wants'[k]]
    OBVIOUS
  <2> HIDE DEF wants
  <2> QED
    BY <1>5, <2>1, <2>2, <2>3, OneMoves
<1>13. \A t \in Task : Answered(t)' = Answered(t)
  <2>1. ASSUME NEW t \in Task PROVE Answered(t)' = Answered(t)
    <3>1. CASE t = n
      BY <1>2, <1>3, <1>8, <3>1 DEF Answered
    <3>2. CASE t > n
      BY <1>2, <1>3, <1>8, <3>2, CallsAssumption DEF Answered, Task
    <3>3. CASE t < n
      <4>1. t \in 1..num /\ ~(t > num) /\ ~(t > num')
        BY <1>2, <1>3, <1>8, <3>3, CallsAssumption DEF Task
      <4> QED
        BY <1>3, <4>1 DEF Answered
    <3> QED
      BY <1>2, <1>8, <3>1, <3>2, <3>3, CallsAssumption DEF Task
  <2> QED
    BY <2>1
<1>14. [t \in Task |-> IF t > num THEN {} ELSE answered[t]]'
         = [t \in Task |-> IF t > num THEN {} ELSE answered[t]]
  BY <1>13, SameView
<1>15. Service!Accept(U, 0)
  <2>1. 0 \notin Task
    BY DEF Task
  <2>2. loop # "down" /\ loop' # "down"
    BY <1>4
  <2> QED
    BY <1>2, <1>3, <1>5, <1>11, <1>12, <1>14, <2>1, <2>2
       DEF Service!Accept, Service!Queued, Service!Handle, Task
<1>16. 0 \in 0..MaxCalls
  BY CallsAssumption
<1> QED
  BY <1>7, <1>15, <1>16 DEF Service!Next

\* What is taken from a queue that is not empty.
LEMMA HeadIsFirst ==
  ASSUME NEW S, NEW q \in Seq(S), q # <<>>
  PROVE  Head(q) \in S /\ Head(q) = q[1] /\ 1 \in 1..Len(q)
OBVIOUS

LEMMA TaskBegins ==
  ASSUME Abstraction, BeginTask
  PROVE  Service!Next
<1> DEFINE phases == [t \in Task |-> Phase(t)]
<1>1. TypeOK /\ Sources /\ Tasks /\ Waiting
  BY DEF Abstraction, IInv
<1>2. PICK h : h = Head(queue)
  OBVIOUS
<1>3. /\ at = "next" /\ current = NoTask /\ queue # <<>> /\ current' = h
      /\ loop = "running"
      /\ UNCHANGED <<num, lists, answered, finished, loop>>
  BY <1>1, <1>2 DEF BeginTask, Processing, historyVars, Sources, Tasks
<1>4. h \in 1..num /\ h = queue[1] /\ 1 \in 1..Len(queue)
  <2>1. queue \in Seq(1..num) /\ queue # <<>>
    BY <1>1, <1>3 DEF TypeOK
  <2> QED
    BY <1>2, <2>1, HeadIsFirst
<1>5. h \notin finished /\ h # current
  BY <1>1, <1>4 DEF Waiting
<1>6. h \in Task /\ ~(h > num)
  BY <1>4, TasksBounded DEF Task
<1>7. Phase(h) = "queued" /\ Phase(h)' = "running"
  BY <1>3, <1>5, <1>6 DEF Phase
<1>8. ASSUME NEW t \in Task \ {h} PROVE Phase(t)' = Phase(t)
  <2>1. t # current /\ t # current'
    BY <1>3, <1>8 DEF Task, NoTask
  <2> QED
    BY <1>3, <2>1 DEF Phase
<1>9. phases' = [phases EXCEPT ![h] = "running"]
  <2>1. phases'[h] = "running" /\ \A t \in Task \ {h} : phases'[t] = phases[t]
    BY <1>6, <1>7, <1>8
  <2>2. phases = [k \in Task |-> phases[k]] /\ phases' = [k \in Task |-> phases'[k]]
    OBVIOUS
  <2> HIDE DEF phases
  <2> QED
    BY <1>6, <2>1, <2>2, OneMoves
<1>10. /\ [t \in Task |-> IF t > num THEN {} ELSE Uris(t)]'
            = [t \in Task |-> IF t > num THEN {} ELSE Uris(t)]
       /\ [t \in Task |-> IF t > num THEN {} ELSE answered[t]]'
            = [t \in Task |-> IF t > num THEN {} ELSE answered[t]]
  BY <1>3, SameView DEF Wants, Answered, Uris
<1>11. Service!Begin(h)
  BY <1>3, <1>6, <1>7, <1>9, <1>10 DEF Service!Begin, Service!Queued, Service!Handle, Task
<1> QED
  BY <1>6, <1>11 DEF Service!Next, Service!Handle, Task

\* Ready or Error of a file: Answer, unless the file had one.
LEMMA FileAnswers ==
  ASSUME Abstraction, EmitAnswer
  PROVE  Service!Next
<1> DEFINE answers == [t \in Task |-> IF t > num THEN {} ELSE answered[t]]
<1>1. TypeOK /\ Sources /\ Pipeline /\ Answers /\ Waiting
  BY DEF Abstraction, IInv
<1>2. PICK h : h = current
  OBVIOUS
<1>3. PICK U : U = {Head(files)} \ answered[h]
  OBVIOUS
<1>4. /\ at = "file" /\ answered' = [answered EXCEPT ![h] = @ \cup {Head(files)}]
      /\ UNCHANGED <<num, lists, finished, current, loop>>
  BY <1>2 DEF EmitAnswer, Processing
<1>5. loop = "running" /\ files # <<>> /\ files \in Seq(Uri)
  BY <1>1, <1>4 DEF Sources, Answers, TypeOK
<1>6. h # NoTask
  BY <1>1, <1>2, <1>5 DEF Answers
<1>7. h \in 1..num /\ h \in Task /\ ~(h > num)
  BY <1>1, <1>2, <1>6, TasksBounded DEF TypeOK, Task, NoTask
<1>8. Phase(h) = "running"
  BY <1>1, <1>2, <1>7 DEF Phase, Waiting
<1>9. Head(files) \in {files[i] : i \in 1..Len(files)} /\ Head(files) \in Uri
  <2>1. Len(files) \in Nat /\ 1 \in 1..Len(files) /\ Head(files) = files[1]
    BY <1>5
  <2> QED
    BY <1>5, <2>1
<1>10. Head(files) \in Uris(h)
  BY <1>1, <1>2, <1>6, <1>9 DEF Answers
<1>11. U \subseteq Uris(h) \ answered[h] /\ U \in SUBSET Uri
  BY <1>3, <1>9, <1>10
<1>12. /\ answered \in [1..num -> SUBSET Uri]
       /\ answered'[h] = answered[h] \cup U
       /\ \A t \in 1..num : t # h => answered'[t] = answered[t]
  <2>1. answered \in Seq(SUBSET Uri) /\ Len(answered) = num
    BY <1>1 DEF TypeOK
  <2>2. answered \in [1..num -> SUBSET Uri]
    BY <2>1
  <2>3. answered'[h] = answered[h] \cup {Head(files)}
    BY <1>4, <1>7, <2>2
  <2>4. \A t \in 1..num : t # h => answered'[t] = answered[t]
    BY <1>4, <2>2
  <2> QED
    BY <1>3, <2>2, <2>3, <2>4
<1>13. answers' = [answers EXCEPT ![h] = @ \cup U]
  <2>1. answers[h] = answered[h] /\ answers'[h] = answered[h] \cup U
    BY <1>4, <1>7, <1>12
  <2>2. ASSUME NEW t \in Task \ {h} PROVE answers'[t] = answers[t]
    <3>1. CASE t > num
      BY <1>4, <2>2, <3>1
    <3>2. CASE ~(t > num)
      <4>1. t \in 1..num
        BY <3>2, TasksBounded DEF Task
      <4> QED
        BY <1>4, <1>12, <2>2, <3>2, <4>1
    <3> QED
      BY <3>1, <3>2
  <2>3. answers = [k \in Task |-> answers[k]] /\ answers' = [k \in Task |-> answers'[k]]
    OBVIOUS
  <2>4. answers'[h] = answers[h] \cup U
    BY <2>1
  <2> HIDE DEF answers
  <2>5. answers' = [answers EXCEPT ![h] = answers[h] \cup U]
    BY <1>7, <2>2, <2>3, <2>4, OneMoves
  <2> QED
    BY <2>5
<1>14. /\ [t \in Task |-> IF t > num THEN {} ELSE Uris(t)]'
            = [t \in Task |-> IF t > num THEN {} ELSE Uris(t)]
       /\ [t \in Task |-> Phase(t)]' = [t \in Task |-> Phase(t)]
  BY <1>4, SameView DEF Wants, Uris, Phase
<1>15. U \subseteq [t \in Task |-> IF t > num THEN {} ELSE Uris(t)][h] \ answers[h]
  BY <1>7, <1>11
<1>16. Service!Answer(h, U)
  BY <1>4, <1>5, <1>7, <1>8, <1>13, <1>14, <1>15 DEF Service!Answer
<1> QED
  BY <1>7, <1>11, <1>16 DEF Service!Next, Service!Handle, Task

LEMMA TaskCloses ==
  ASSUME Abstraction, EmitFinished
  PROVE  Service!Next \/ UNCHANGED Service!vars
<1> DEFINE phases == [t \in Task |-> Phase(t)]
<1>1. TypeOK /\ Answers /\ Waiting
  BY DEF Abstraction, IInv
<1>2. /\ finished' = finished \cup ({current} \ {NoTask}) /\ current' = NoTask
      /\ loop = "running" /\ (~pipe \/ files = <<>>)
      /\ UNCHANGED <<num, lists, answered, loop>>
  BY DEF EmitFinished, Idle, Processing
<1>3. CASE current = NoTask
  BY <1>2, <1>3, Unseen
<1>4. CASE current # NoTask
  <2>1. PICK h : h = current
    OBVIOUS
  <2>2. h \in Task /\ ~(h > num) /\ h # NoTask /\ h \notin finished
    BY <1>1, <1>4, <2>1, TasksBounded DEF TypeOK, Task, NoTask, Waiting
  <2>3. finished' = finished \cup {h}
    BY <1>2, <1>4, <2>1
  <2>4. Phase(h) = "running" /\ Phase(h)' = "done"
    BY <1>2, <2>1, <2>2, <2>3 DEF Phase
  <2>5. ASSUME NEW t \in Task \ {h} PROVE Phase(t)' = Phase(t)
    <3>1. t # current /\ t # current' /\ (t \in finished' <=> t \in finished)
      BY <1>2, <2>1, <2>3, <2>5 DEF Task, NoTask
    <3> QED
      BY <1>2, <3>1 DEF Phase
  <2>6. phases' = [phases EXCEPT ![h] = "done"]
    <3>1. phases'[h] = "done" /\ \A t \in Task \ {h} : phases'[t] = phases[t]
      BY <2>2, <2>4, <2>5
    <3>2. phases = [k \in Task |-> phases[k]] /\ phases' = [k \in Task |-> phases'[k]]
      OBVIOUS
    <3> HIDE DEF phases
    <3> QED
      BY <2>2, <3>1, <3>2, OneMoves
  <2>7. answered[h] = Uris(h)
    <3>1. Uris(h) = answered[h] \cup {files[i] : i \in 1..Len(files)} /\ files = <<>>
      BY <1>1, <1>2, <1>4, <2>1 DEF Answers
    <3>2. {files[i] : i \in 1..Len(files)} = {}
      BY <3>1
    <3> QED
      BY <3>1, <3>2
  <2>8. /\ [t \in Task |-> IF t > num THEN {} ELSE Uris(t)]'
             = [t \in Task |-> IF t > num THEN {} ELSE Uris(t)]
        /\ [t \in Task |-> IF t > num THEN {} ELSE answered[t]]'
             = [t \in Task |-> IF t > num THEN {} ELSE answered[t]]
    BY <1>2, SameView DEF Wants, Answered, Uris
  <2>9. Service!Close(h)
    BY <1>2, <2>2, <2>4, <2>6, <2>7, <2>8 DEF Service!Close
  <2> QED
    BY <2>2, <2>9 DEF Service!Next, Service!Handle, Task
<1> QED
  BY <1>3, <1>4

\* The end of the process gives up what is queued.
LEMMA EndGivesUp ==
  ASSUME Abstraction, Leave \/ PreUnmount
  PROVE  Service!Next
<1> DEFINE phases == [t \in Task |-> Phase(t)]
<1>1. TypeOK
  BY DEF Abstraction, IInv
<1>2. loop # "down" /\ loop' = "down" /\ UNCHANGED <<num, lists, answered, finished, current>>
  BY DEF Leave, PreUnmount, historyVars, workVars
<1>3. PICK H : H = {t \in 1..num : t \notin finished /\ t # current}
  OBVIOUS
<1>4. H \subseteq Task
  BY <1>3, TasksBounded DEF Task
<1>5. {t \in Task : phases[t] = "queued"} = H
  <2>1. ASSUME NEW t \in Task PROVE phases[t] = "queued" <=> t \in H
    <3>1. phases[t] = "queued" <=> ~(t > num) /\ t \notin finished /\ t # current
      BY <1>2, <2>1 DEF Phase
    <3>2. t \in 1..num <=> ~(t > num)
      BY <2>1, TasksBounded DEF Task
    <3> QED
      BY <1>3, <3>1, <3>2
  <2> QED
    BY <1>4, <2>1
<1>6. phases' = [t \in Task |-> IF t \in H THEN "done" ELSE phases[t]]
  <2>1. ASSUME NEW t \in Task PROVE Phase(t)' = IF t \in H THEN "done" ELSE Phase(t)
    <3>1. CASE t \in H
      <4>1. ~(t > num) /\ t \notin finished /\ t # current
        BY <1>3, <2>1, <3>1, TasksBounded
      <4> QED
        BY <1>2, <3>1, <4>1 DEF Phase
    <3>2. CASE t \notin H
      <4>1. t > num \/ t \in finished \/ t = current
        BY <1>3, <2>1, <3>2, TasksBounded DEF Task
      <4> QED
        BY <1>2, <3>2, <4>1 DEF Phase
    <3> QED
      BY <3>1, <3>2
  <2> QED
    BY <2>1
<1>7. /\ [t \in Task |-> IF t > num THEN {} ELSE Uris(t)]'
           = [t \in Task |-> IF t > num THEN {} ELSE Uris(t)]
      /\ [t \in Task |-> IF t > num THEN {} ELSE answered[t]]'
           = [t \in Task |-> IF t > num THEN {} ELSE answered[t]]
  BY <1>2, SameView DEF Wants, Answered, Uris
<1>8. LeftOver = {} /\ LeftOver' = H
  BY <1>2, <1>3 DEF LeftOver
<1>9. Service!GiveUp(H)
  <2> HIDE DEF phases
  <2>1. H \subseteq {t \in Task : phases[t] = "queued"} /\ {t \in Task : phases[t] = "queued"} \ H \subseteq {}
    BY <1>5
  <2> QED
    BY <1>2, <1>6, <1>7, <1>8, <2>1
       DEF Service!GiveUp, Service!Queued, Service!Handle, Task, LeftOver, phases
<1> QED
  BY <1>4, <1>9 DEF Service!Next, Service!Handle, Task

LEMMA ServiceStep == Abstraction /\ [Next]_vars => [Service!Next]_(Service!vars)
<1> SUFFICES ASSUME Abstraction, [Next]_vars
             PROVE  Service!Next \/ UNCHANGED Service!vars
  OBVIOUS
<1>1. TypeOK /\ Sources
  BY DEF Abstraction, IInv
<1>2. CASE Create
  BY <1>2, CreateAccepts
<1>3. CASE Handler
  <2>1. UNCHANGED <<num, lists, answered, finished, current>> /\ loop # "down" /\ loop' # "down"
    BY <1>1, <1>3, HandlerUnchanged DEF Handler, StateHint, StateRequest, StateReply, workVars
  <2> QED
    BY <2>1, Unseen
<1>4. CASE QuitTimeout
  <2>1. UNCHANGED <<num, lists, answered, finished, current>> /\ loop # "down" /\ loop' # "down"
    BY <1>4 DEF QuitTimeout, workVars, historyVars
  <2> QED
    BY <2>1, Unseen
<1>5. CASE Leave \/ PreUnmount
  BY <1>5, EndGivesUp
<1>6. CASE Others
  BY <1>6, OthersUnchanged, Unseen DEF workVars
<1>7. CASE BeginFile \/ RunFile \/ AllDone
  BY <1>7, Unseen DEF BeginFile, RunFile, AllDone, Processing, workVars, historyVars
<1>8. CASE EmitAnswer
  BY <1>8, FileAnswers
<1>9. CASE EmitFinished
  BY <1>9, TaskCloses
<1>10. CASE BeginTask
  BY <1>10, TaskBegins
<1>11. CASE UNCHANGED vars
  BY <1>11, Unseen DEF vars, workVars, historyVars
<1> QED
  BY <1>2, <1>3, <1>4, <1>5, <1>6, <1>7, <1>8, <1>9, <1>10, <1>11
     DEF Next, MainLoop, Receive, Handler, Process

\* The video thumbnailer keeps the promises of the service's interface in both
\* builds: whatever calls, permissions, time outs and unmounts come, a call is
\* accepted, begun once, has each uri answered before its Finished, or is given
\* up by the end of the process.
THEOREM Implements == Spec => ImplementsService
<1>1. Init => Abstraction /\ Service!Init
  <2> SUFFICES ASSUME Init PROVE Abstraction /\ Service!Init
    OBVIOUS
  <2>1. /\ num = 0 /\ queue = <<>> /\ inbox = <<>> /\ calls = 0 /\ finished = {}
        /\ current = NoTask /\ loop = "running"
    BY DEF Init
  <2>2. Waiting
    BY <2>1 DEF Waiting
  <2>3. Counted
    <3>1. PICK f : f = [i \in 0..0 |-> 0]
      OBVIOUS
    <3>2. Len(inbox) = 0
      BY <2>1
    <3>3. f \in [0..0 -> 0..0] /\ f[0] = 0 /\ 1..0 = {}
      BY <3>1
    <3>4. Counts(f)
      BY <2>1, <3>2, <3>3 DEF Counts
    <3> QED
      BY <3>4 DEF Counted
  <2>4. \A t \in Task : t > num
    BY <2>1 DEF Task
  <2>5. /\ [t \in Task |-> Phase(t)] = [t \in Task |-> "new"]
        /\ [t \in Task |-> IF t > num THEN {} ELSE Uris(t)] = [t \in Task |-> {}]
        /\ [t \in Task |-> IF t > num THEN {} ELSE answered[t]] = [t \in Task |-> {}]
    <3>1. \A t \in Task : t \notin finished /\ t # current
      BY <2>1 DEF Task, NoTask
    <3>2. \A t \in Task : Phase(t) = "new"
      BY <2>4, <3>1 DEF Phase
    <3> QED
      BY <2>4, <3>2
  <2>6. Service!Init
    BY <2>1, <2>5 DEF Service!Init, Service!Handle, Task
  <2> QED
    BY <2>2, <2>3, <2>6, InitIInv DEF Abstraction
<1>2. Abstraction /\ [Next]_vars => Abstraction'
  BY NextIInv, NextWaiting, NextCounted DEF Abstraction
<1> QED
  BY <1>1, <1>2, ServiceStep, PTL DEF Spec, ImplementsService, Service!Spec
=============================================================================
