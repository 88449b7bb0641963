-------------------------- MODULE ThumbFactoryProofs --------------------------
(***************************************************************************)
(* Proofs about the requests of the client library (ThumbFactory), in each *)
(* of the worlds, for any requests, tasks, lives of the daemon and garbage *)
(* handles.                                                                *)
(*                                                                         *)
(* RefsBalance is not inductive: when a reply puts a request into the      *)
(* table, the sum counts it once only if it was under no other handle, and *)
(* when an entry goes, the count is right only if its request was called   *)
(* back by nobody else.  OneHand says so: a request waits for its reply,   *)
(* or for its idle source, or is in the table under one handle, or is done *)
(* with; and an Unqueue call under way is the only one it will have.       *)
(***************************************************************************)
EXTENDS ThumbFactory, BusInvariants, FiniteSetTheorems, TLAPS

-----------------------------------------------------------------------------
(* Of the daemon on the bus: its steps keep its part of the state well typed *)
(* and steady, and so do the library's on its end of the connection.  Used   *)
(* for the requests here and for the other clients in ClientsProofs.         *)

\* A handle is not NoKey, whether the daemon gave it or it is garbage.
LEMMA KeysAreKnown == NoKey \notin Key /\ Garbage \subseteq Key /\ Handle \subseteq Key
BY GarbageAssumption, TasksAssumption DEF NoKey, Key, Handle

\* What is put on the wire or taken from it is a message.
LEMMA SequencesTyped ==
  ASSUME NEW S, NEW s \in Seq(S)
  PROVE  /\ \A x \in S : Append(s, x) \in Seq(S)
         /\ \A t \in Seq(S) : s \o t \in Seq(S)
         /\ s # <<>> => Head(s) \in S /\ Tail(s) \in Seq(S)
<1>1. \A x \in S : Append(s, x) \in Seq(S)
  OBVIOUS
<1>2. \A t \in Seq(S) : s \o t \in Seq(S)
  OBVIOUS
<1>3. s # <<>> => Head(s) \in S /\ Tail(s) \in Seq(S)
  OBVIOUS
<1> QED
  BY <1>1, <1>2, <1>3

LEMMA MessagesTyped ==
  /\ \A c \in Call, h \in Handle : [msg |-> "reply", call |-> c, handle |-> h] \in Message
  /\ \A c \in Call : [msg |-> "noreply", call |-> c] \in Message
  /\ \A t \in Task : t[1] = "thumbnail" => [msg |-> "Error", task |-> t] \in Message
  /\ \A t \in Task : Finished(t) \in Message
BY DEF Message, Finished

LEMMA AcceptTyped ==
  ASSUME DaemonTypeOK, Owes, NEW s \in Service, NEW c \in Caller \cup {None}, Accept(s, c)
  PROVE  /\ num' \in [Service -> 0..MaxTasks] /\ num'[s] >= 1
         /\ open' \subseteq Task
         /\ owner' \in [Task -> Caller \cup {None}]
<1>1. num[s] \in Nat /\ num[s] < MaxTasks
  BY TasksAssumption DEF Accept, TaskLimit, DaemonTypeOK
<1>2. num' \in [Service -> 0..MaxTasks] /\ num'[s] >= 1
  BY <1>1, TasksAssumption DEF Accept, DaemonTypeOK
<1>3. NewHandle(s) \in Handle
  BY <1>1, TasksAssumption DEF NewHandle, Handle
<1>4. <<s, NewHandle(s)>> \in Task
  BY <1>3 DEF Task
<1>5. open' \subseteq Task
  BY <1>4 DEF Accept, DaemonTypeOK
<1>6. owner' \in [Task -> Caller \cup {None}]
  BY <1>4 DEF Accept, DaemonTypeOK
<1> QED
  BY <1>2, <1>5, <1>6

\* What Exit says before the process ends.
LEMMA ExitTyped ==
  ASSUME DaemonTypeOK, NEW n \in 0..MaxTasks, NEW q \in [1..n -> Handle], Exit(q)
  PROVE  wire' \in Seq(Message)
<1> DEFINE fins == [i \in DOMAIN q |-> Finished(<<"thumbnail", q[i]>>)]
           noes == [i \in DOMAIN calls |-> [msg |-> "noreply", call |-> calls[i]]]
<1>1. n \in Nat /\ DOMAIN q = 1..n
  BY TasksAssumption
<1>2. \A i \in 1..n : <<"thumbnail", q[i]>> \in Task
  BY <1>1 DEF Exit, DaemonTypeOK
<1>3. fins \in Seq(Message)
  <2>1. \A i \in 1..n : Finished(<<"thumbnail", q[i]>>) \in Message
    BY <1>2, MessagesTyped
  <2> QED
    BY <1>1, <2>1
<1>4. noes \in Seq(Message)
  <2>1. Len(calls) \in Nat /\ DOMAIN calls = 1..Len(calls)
    BY DEF DaemonTypeOK
  <2>2. \A i \in 1..Len(calls) : calls[i] \in Call
    BY <2>1 DEF DaemonTypeOK
  <2>3. \A i \in 1..Len(calls) : [msg |-> "noreply", call |-> calls[i]] \in Message
    BY <2>2, MessagesTyped
  <2> QED
    BY <2>1, <2>3
<1>5. wire \in Seq(Message)
  BY DEF DaemonTypeOK
<1>6. wire \o fins \in Seq(Message)
  BY <1>3, <1>5, SequencesTyped
<1>7. (wire \o fins) \o noes \in Seq(Message)
  BY <1>4, <1>6, SequencesTyped
<1>8. wire' = (wire \o fins) \o noes
  BY DEF Exit
<1> QED
  BY <1>7, <1>8

\* The daemon's own steps, whatever services are looked at.
LEMMA DaemonSteps ==
  ASSUME DaemonTypeOK, Owes, NEW S \in SUBSET Service, Daemon(S)
  PROVE  DaemonTypeOK' /\ Owes'
<1>1. CASE ServeQueue
  <2>1. Head(calls) \in Call /\ Tail(calls) \in Seq(Call)
    <3>1. calls \in Seq(Call) /\ calls # <<>>
      BY <1>1 DEF ServeQueue, DaemonTypeOK
    <3> QED
      BY <3>1, SequencesTyped
  <2> DEFINE s == Head(calls)[1]
             c == Head(calls)[2]
  <2>2. s \in Service /\ c \in Caller
    BY <2>1 DEF Call
  <2>3. Accept(s, c) /\ calls' = Tail(calls) /\ owed' = Head(calls)
    BY <1>1 DEF ServeQueue
  <2>4. /\ num' \in [Service -> 0..MaxTasks] /\ num'[s] >= 1
        /\ open' \subseteq Task
        /\ owner' \in [Task -> Caller \cup {None}]
    BY <2>2, <2>3, AcceptTyped
  <2>5. UNCHANGED <<world, running, wire, lives, served, failed>> /\ running
    BY <2>3 DEF Accept
  <2>6. DaemonTypeOK'
    BY <2>1, <2>3, <2>4, <2>5 DEF DaemonTypeOK
  <2>7. Owes'
    BY <2>3, <2>4, <2>5 DEF Owes
  <2> QED
    BY <2>6, <2>7
<1>2. CASE Reply
  <2>1. owed # None /\ owed \in Call
    BY <1>2 DEF Reply, DaemonTypeOK
  <2>2. owed[1] \in Service
    BY <2>1 DEF Call
  <2>3. num[owed[1]] \in Handle
    BY <2>1, <2>2, TasksAssumption DEF Owes, DaemonTypeOK, Handle
  <2>4. [msg |-> "reply", call |-> owed, handle |-> num[owed[1]]] \in Message
    BY <2>1, <2>3, MessagesTyped
  <2>5. wire \in Seq(Message)
    BY DEF DaemonTypeOK
  <2>6. wire' \in Seq(Message)
    BY <1>2, <2>4, <2>5, SequencesTyped DEF Reply
  <2>7. UNCHANGED <<world, num, open, running, calls, owner, lives, served, failed>> /\ owed' = None
    BY <1>2 DEF Reply
  <2>8. DaemonTypeOK'
    BY <2>6, <2>7 DEF DaemonTypeOK
  <2> QED
    BY <2>7, <2>8 DEF Owes
<1>3. ASSUME NEW t \in Task, SendFinished(t)
      PROVE  DaemonTypeOK' /\ Owes'
  <2>1. wire \in Seq(Message) /\ Finished(t) \in Message
    BY MessagesTyped DEF DaemonTypeOK
  <2>2. wire' \in Seq(Message)
    BY <1>3, <2>1, SequencesTyped DEF SendFinished
  <2>3. Own(t) => CallOf(t) \in Call
    BY DEF Own, CallOf, Call, Task, DaemonTypeOK
  <2>4. served' \subseteq Call /\ open' \subseteq Task
    BY <1>3, <2>3 DEF SendFinished, DaemonTypeOK
  <2>5. UNCHANGED <<world, num, running, calls, owed, owner, lives, failed>>
    BY <1>3 DEF SendFinished
  <2>6. DaemonTypeOK'
    BY <2>2, <2>4, <2>5 DEF DaemonTypeOK
  <2> QED
    BY <2>5, <2>6 DEF Owes
<1>4. ASSUME NEW s \in S, ServeOther(s)
      PROVE  DaemonTypeOK' /\ Owes'
  <2>1. Accept(s, None) /\ UNCHANGED <<calls, owed>> /\ s \in Service
    BY <1>4 DEF ServeOther
  <2>2. /\ num' \in [Service -> 0..MaxTasks]
        /\ open' \subseteq Task
        /\ owner' \in [Task -> Caller \cup {None}]
    BY <2>1, AcceptTyped
  <2>3. UNCHANGED <<world, running, wire, lives, served, failed>> /\ owed = None
    BY <2>1 DEF Accept
  <2>4. DaemonTypeOK'
    BY <2>1, <2>2, <2>3 DEF DaemonTypeOK
  <2> QED
    BY <2>1, <2>3, <2>4 DEF Owes
<1>5. ASSUME NEW t \in Task, SendError(t)
      PROVE  DaemonTypeOK' /\ Owes'
  <2>1. wire \in Seq(Message) /\ [msg |-> "Error", task |-> t] \in Message
    BY <1>5, MessagesTyped DEF DaemonTypeOK, SendError
  <2>2. wire' \in Seq(Message)
    BY <1>5, <2>1, SequencesTyped DEF SendError
  <2>3. CallOf(t) \in Call
    BY <1>5 DEF SendError, Own, CallOf, Call, Task, DaemonTypeOK
  <2>4. failed' \subseteq Call
    BY <1>5, <2>3 DEF SendError, DaemonTypeOK
  <2>5. UNCHANGED <<world, num, open, running, calls, owed, owner, lives, served>>
    BY <1>5 DEF SendError
  <2>6. DaemonTypeOK'
    BY <2>2, <2>4, <2>5 DEF DaemonTypeOK
  <2> QED
    BY <2>5, <2>6 DEF Owes
<1>6. ASSUME NEW n \in 0..MaxTasks, NEW q \in [1..n -> Handle], Exit(q)
      PROVE  DaemonTypeOK' /\ Owes'
  <2>1. wire' \in Seq(Message)
    BY <1>6, ExitTyped
  <2>2. running' = FALSE /\ open' = {} /\ owner' = [t \in Task |-> None] /\ owed = None
    BY <1>6 DEF Exit
  <2>3. calls' \in Seq(Call)
    <3>1. calls' = <<>>
      BY <1>6 DEF Exit
    <3> QED
      BY <3>1
  <2>4. \A t \in Task : Own(t) => CallOf(t) \in Call
    BY DEF Own, CallOf, Call, Task, DaemonTypeOK
  <2>5. served' \subseteq Call
    BY <1>6, <2>4 DEF Exit, DaemonTypeOK
  <2>6. UNCHANGED <<world, num, owed, lives, failed>>
    BY <1>6 DEF Exit
  <2>7. DaemonTypeOK'
    BY <2>1, <2>2, <2>3, <2>5, <2>6 DEF DaemonTypeOK
  <2> QED
    BY <2>2, <2>6, <2>7 DEF Owes
<1>7. CASE Restart
  <2>1. num' \in [Service -> 0..MaxTasks] /\ running' = TRUE /\ lives' \in 1..MaxLives
    BY <1>7, TasksAssumption, LivesAssumption DEF Restart, DaemonTypeOK
  <2>2. UNCHANGED <<world, open, calls, owed, wire, owner, served, failed>> /\ owed = None
    BY <1>7 DEF Restart, Owes
  <2>3. DaemonTypeOK'
    BY <2>1, <2>2 DEF DaemonTypeOK
  <2> QED
    BY <2>2, <2>3 DEF Owes
<1> QED
  BY <1>1, <1>2, <1>3, <1>4, <1>5, <1>6, <1>7 DEF Daemon, Serve

LEMMA EndTyped ==
  ASSUME DaemonTypeOK, Owes, UNCHANGED world, UNCHANGED daemonVars, CallLeaves, MessageTaken
  PROVE  DaemonTypeOK' /\ Owes'
<1>1. calls' \in Seq(Call)
  <2>1. calls \in Seq(Call)
    BY DEF DaemonTypeOK
  <2> QED
    BY <2>1, SequencesTyped DEF CallLeaves
<1>2. wire' \in Seq(Message)
  <2>1. wire \in Seq(Message)
    BY DEF DaemonTypeOK
  <2> QED
    BY <2>1, SequencesTyped DEF MessageTaken
<1>3. UNCHANGED <<world, num, open, running, owed, owner, lives, served, failed>>
  BY DEF daemonVars
<1>4. DaemonTypeOK'
  BY <1>1, <1>2, <1>3 DEF DaemonTypeOK
<1>5. Owes'
  BY <1>3 DEF Owes
<1> QED
  BY <1>4, <1>5

LEMMA DaemonInitTyped == DaemonInit => DaemonTypeOK /\ Owes
<1> SUFFICES ASSUME DaemonInit PROVE DaemonTypeOK /\ Owes
  OBVIOUS
<1> USE DEF DaemonInit
<1>1. calls \in Seq(Call) /\ wire \in Seq(Message)
  <2>1. calls = <<>> /\ wire = <<>>
    OBVIOUS
  <2> QED
    BY <2>1
<1>2. num \in [Service -> 0..MaxTasks] /\ lives \in 1..MaxLives
  BY TasksAssumption, LivesAssumption
<1>3. world \in Worlds /\ running \in BOOLEAN /\ open \subseteq Task /\ owed \in Call \cup {None}
      /\ owner \in [Task -> Caller \cup {None}] /\ served \subseteq Call /\ failed \subseteq Call
  OBVIOUS
<1> QED
  BY <1>1, <1>2, <1>3 DEF DaemonTypeOK, Owes

LEMMA SequencesGrow ==
  ASSUME NEW A, NEW B, A \subseteq B
  PROVE  Seq(A) \subseteq Seq(B)
<1> SUFFICES ASSUME NEW s \in Seq(A) PROVE s \in Seq(B)
  OBVIOUS
<1>1. Len(s) \in Nat /\ s \in [1..Len(s) -> A]
  OBVIOUS
<1>2. s \in [1..Len(s) -> B]
  BY <1>1
<1> QED
  BY <1>1, <1>2

\* What was true of a message stays true.
LEMMA SoundGrows ==
  ASSUME DaemonTypeOK, NEW S \in SUBSET Service, TasksStay,
         \A t \in Task : Own(t) => t[2] <= num[t[1]],
         \A s \in Service : num'[s] >= num[s], num' \in [Service -> 0..MaxTasks]
  PROVE  Sound(S) \subseteq Sound(S)'
<1> SUFFICES ASSUME NEW m \in Sound(S) PROVE m \in Sound(S)'
  OBVIOUS
<1>0. ASSUME NEW t \in Task, t[2] <= num[t[1]]
      PROVE  t[2] <= num'[t[1]]
  <2>1. t[1] \in Service /\ t[2] \in Handle
    BY DEF Task
  <2>2. t[2] \in Int /\ num[t[1]] \in Int /\ num'[t[1]] \in Int
    BY <2>1, TasksAssumption DEF DaemonTypeOK, Handle
  <2>3. num'[t[1]] >= num[t[1]]
    BY <2>1
  <2> QED
    BY <1>0, <2>2, <2>3
<1>1. m \in Message /\ From(m) \in S /\ m.msg # "noreply"
  BY DEF Sound
<1>2. CASE m.msg = "reply"
  <2>1. /\ m.call \in Call /\ m.handle \in Handle
        /\ m.handle <= num[m.call[1]] /\ owner[<<m.call[1], m.handle>>] = m.call[2]
    BY <1>1, <1>2 DEF Sound, Message
  <2> DEFINE t == <<m.call[1], m.handle>>
  <2>2. t \in Task /\ t[2] <= num[t[1]] /\ t[1] = m.call[1] /\ t[2] = m.handle
    BY <2>1 DEF Task, Call
  <2>3. owner'[t] = m.call[2] /\ t[2] <= num'[t[1]]
    BY <1>0, <2>1, <2>2 DEF TasksStay
  <2> QED
    BY <1>1, <1>2, <2>2, <2>3 DEF Sound
<1>3. CASE m.msg = "Error"
  <2>1. m.task \in Task /\ Own(m.task) /\ CallOf(m.task) \in failed
    BY <1>1, <1>3 DEF Sound, Message
  <2>2. owner'[m.task] = owner[m.task]
    BY <2>1 DEF TasksStay
  <2>3. Own(m.task)' /\ CallOf(m.task)' \in failed'
    BY <2>1, <2>2 DEF TasksStay, Own, CallOf
  <2> QED
    BY <1>1, <1>3, <2>3 DEF Sound
<1>4. CASE m.msg = "Finished"
  <2>1. /\ m.task \in Task /\ m.task[2] <= num[m.task[1]]
        /\ Own(m.task) => CallOf(m.task) \in served
    BY <1>1, <1>4 DEF Sound, Message
  <2>2. owner'[m.task] = owner[m.task] /\ m.task[2] <= num'[m.task[1]]
    BY <1>0, <2>1 DEF TasksStay
  <2>3. Own(m.task)' => CallOf(m.task)' \in served'
    BY <2>1, <2>2 DEF TasksStay, Own, CallOf
  <2> QED
    BY <1>1, <1>4, <2>2, <2>3 DEF Sound
<1> QED
  BY <1>1, <1>2, <1>3, <1>4 DEF Message

\* What is on the wire stays true, and a true message is added.
LEMMA WireStaysSound ==
  ASSUME DaemonTypeOK, NEW S \in SUBSET Service, Steady(S), TasksStay,
         \A s \in Service : num'[s] >= num[s], num' \in [Service -> 0..MaxTasks]
  PROVE  /\ wire \in Seq(Sound(S)')
         /\ \A m \in Sound(S)' : Append(wire, m) \in Seq(Sound(S)')
<1>1. Sound(S) \subseteq Sound(S)'
  BY SoundGrows DEF Steady
<1>2. wire \in Seq(Sound(S)')
  BY <1>1, SequencesGrow DEF Steady
<1> QED
  BY <1>2, SequencesTyped

\* A call that is accepted gets a task nobody had.
LEMMA AcceptSteady ==
  ASSUME DaemonTypeOK, Owes, NEW S \in SUBSET Service, Steady(S),
         NEW s \in S, NEW c \in Caller \cup {None}, Accept(s, c)
  PROVE  /\ TasksStay
         /\ num' \in [Service -> 0..MaxTasks] /\ \A x \in Service : num'[x] >= num[x]
         /\ \A t \in open' : t[1] \in S /\ t[2] <= num'[t[1]]
         /\ \A t \in Task : Own(t)' => t[2] <= num'[t[1]]
         /\ owner'[<<s, num'[s]>>] = c
         /\ wire \in Seq(Sound(S)')
<1>1. num[s] \in Nat /\ num[s] < MaxTasks /\ s \in Service
  BY TasksAssumption DEF Accept, TaskLimit, DaemonTypeOK
<1>2. num' \in [Service -> 0..MaxTasks]
  BY AcceptTyped
<1>3. num' = [num EXCEPT ![s] = num[s] + 1] /\ num'[s] = NewHandle(s) /\ NewHandle(s) = num[s] + 1
  BY <1>1 DEF Accept, DaemonTypeOK, NewHandle
<1>4. \A x \in Service : num[x] \in Int /\ num'[x] \in Int /\ num'[x] >= num[x]
  <2> TAKE x \in Service
  <2>1. num[x] \in 0..MaxTasks /\ num'[x] \in 0..MaxTasks
    BY <1>2 DEF DaemonTypeOK
  <2>2. num'[x] = IF x = s THEN num[s] + 1 ELSE num[x]
    BY <1>3 DEF DaemonTypeOK
  <2> QED
    BY <2>1, <2>2, <1>1, TasksAssumption
<1>5. <<s, NewHandle(s)>> \in Task
  BY <1>1, <1>3, TasksAssumption DEF Task, Handle
<1>6. ASSUME NEW t \in Task
      PROVE  /\ t[1] \in Service /\ t[2] \in Int
             /\ t[2] <= num[t[1]] => t # <<s, NewHandle(s)>> /\ t[2] <= num'[t[1]]
  <2>1. t[1] \in Service /\ t[2] \in Handle
    BY DEF Task
  <2>2. t[2] \in Int
    BY <2>1, TasksAssumption DEF Handle
  <2> QED
    BY <2>1, <2>2, <1>1, <1>3, <1>4
<1>7. owner' = [owner EXCEPT ![<<s, NewHandle(s)>>] = c] /\ owner \in [Task -> Caller \cup {None}]
  BY DEF Accept, DaemonTypeOK
<1>8. TasksStay
  <2>1. \A t \in Task : t[2] <= num[t[1]] => owner'[t] = owner[t]
    BY <1>6, <1>7
  <2> QED
    BY <2>1 DEF TasksStay, Accept
<1>9. \A t \in open' : t[1] \in S /\ t[2] <= num'[t[1]]
  <2> TAKE t \in open'
  <2>1. CASE t \in open
    BY <2>1, <1>6 DEF DaemonTypeOK, Steady
  <2>2. CASE t = <<s, NewHandle(s)>>
    BY <2>2, <1>1, <1>3
  <2> QED
    BY <2>1, <2>2 DEF Accept
<1>10. \A t \in Task : Own(t)' => t[2] <= num'[t[1]]
  <2> TAKE t \in Task
  <2>1. CASE t = <<s, NewHandle(s)>>
    BY <2>1, <1>1, <1>3
  <2>2. CASE t # <<s, NewHandle(s)>>
    BY <2>2, <1>6, <1>7 DEF Own, Steady
  <2> QED
    BY <2>1, <2>2
<1>11. owner'[<<s, num'[s]>>] = c
  BY <1>3, <1>5, <1>7
<1>12. wire \in Seq(Sound(S)')
  BY <1>2, <1>4, <1>8, WireStaysSound
<1> QED
  BY <1>2, <1>4, <1>8, <1>9, <1>10, <1>11, <1>12

\* The daemon's steps in such a world; A: the services whose Error signals and
\* other clients are looked at.
LEMMA DaemonSteady ==
  ASSUME DaemonTypeOK, Owes, world # "rough", NEW S \in SUBSET Service, Steady(S),
         NEW A \in SUBSET S, Daemon(A)
  PROVE  Steady(S)' /\ TasksStay
<1>0. \A x \in Service : num[x] >= num[x]
  BY TasksAssumption DEF DaemonTypeOK
<1>1. CASE ServeQueue
  <2>1. calls # <<>> /\ calls \in Seq(S \X Caller)
    BY <1>1 DEF ServeQueue, Steady
  <2>2. Head(calls) \in S \X Caller /\ Tail(calls) \in Seq(S \X Caller)
    BY <2>1, SequencesTyped
  <2> DEFINE s == Head(calls)[1]
             c == Head(calls)[2]
  <2>3. s \in S /\ c \in Caller /\ Accept(s, c) /\ calls' = Tail(calls) /\ owed' = Head(calls)
    BY <1>1, <2>2 DEF ServeQueue
  <2>4. /\ TasksStay
        /\ \A t \in open' : t[1] \in S /\ t[2] <= num'[t[1]]
        /\ \A t \in Task : Own(t)' => t[2] <= num'[t[1]]
        /\ owner'[<<s, num'[s]>>] = c
        /\ wire \in Seq(Sound(S)')
    BY <2>3, AcceptSteady
  <2>5. running' /\ wire' = wire
    BY <2>3 DEF Accept
  <2> QED
    BY <2>2, <2>3, <2>4, <2>5 DEF Steady
<1>2. CASE Reply
  <2>1. /\ UNCHANGED <<world, num, open, running, calls, owner, lives, served, failed>>
        /\ owed' = None /\ owed # None
    BY <1>2 DEF Reply
  <2>2. TasksStay
    BY <2>1 DEF TasksStay
  <2> DEFINE m == [msg |-> "reply", call |-> owed, handle |-> num[owed[1]]]
  <2>3. owed \in Call /\ owed[1] \in S /\ owed[1] \in Service /\ num[owed[1]] \in Handle
    BY <2>1, TasksAssumption DEF Steady, Owes, DaemonTypeOK, Handle, Call
  <2>4. m \in Message
    BY <2>3, MessagesTyped
  <2>5. m \in Sound(S)'
    BY <2>1, <2>3, <2>4, <1>0 DEF Sound, From, Steady
  <2>6. wire' \in Seq(Sound(S)')
    BY <1>0, <1>2, <2>1, <2>2, <2>5, WireStaysSound DEF Reply, DaemonTypeOK
  <2> QED
    BY <2>1, <2>2, <2>6 DEF Steady, Own
<1>3. ASSUME NEW t \in Task, SendFinished(t)
      PROVE  Steady(S)' /\ TasksStay
  <2>1. /\ UNCHANGED <<world, num, running, calls, owed, owner, lives, failed>>
        /\ t \in open /\ open' = open \ {t} /\ served' = served \cup (IF Own(t) THEN {CallOf(t)} ELSE {})
    BY <1>3 DEF SendFinished
  <2>2. TasksStay
    BY <2>1 DEF TasksStay
  <2>3. Finished(t) \in Sound(S)'
    BY <2>1, MessagesTyped DEF Sound, From, Finished, Steady, Own, CallOf
  <2>4. wire' \in Seq(Sound(S)')
    BY <1>0, <1>3, <2>1, <2>2, <2>3, WireStaysSound DEF SendFinished, DaemonTypeOK
  <2> QED
    BY <2>1, <2>2, <2>4 DEF Steady, Own
<1>4. ASSUME NEW s \in A, ServeOther(s)
      PROVE  Steady(S)' /\ TasksStay
  <2>1. s \in S /\ Accept(s, None) /\ UNCHANGED <<calls, owed>> /\ owed = None
    BY <1>4 DEF ServeOther, Accept
  <2>2. /\ TasksStay
        /\ \A t \in open' : t[1] \in S /\ t[2] <= num'[t[1]]
        /\ \A t \in Task : Own(t)' => t[2] <= num'[t[1]]
        /\ wire \in Seq(Sound(S)')
    BY <2>1, AcceptSteady
  <2>3. running' /\ wire' = wire
    BY <2>1 DEF Accept
  <2> QED
    BY <2>1, <2>2, <2>3 DEF Steady
<1>5. ASSUME NEW t \in Task, t[1] \in A, SendError(t)
      PROVE  Steady(S)' /\ TasksStay
  <2>1. /\ UNCHANGED <<world, num, open, running, calls, owed, owner, lives, served>>
        /\ t[1] = "thumbnail" /\ Own(t) /\ failed' = failed \cup {CallOf(t)}
    BY <1>5 DEF SendError
  <2>2. TasksStay
    BY <2>1 DEF TasksStay
  <2>3. [msg |-> "Error", task |-> t] \in Sound(S)'
    BY <1>5, <2>1, MessagesTyped DEF Sound, From, Own, CallOf
  <2>4. wire' \in Seq(Sound(S)')
    BY <1>0, <1>5, <2>1, <2>2, <2>3, WireStaysSound DEF SendError, DaemonTypeOK
  <2> QED
    BY <2>1, <2>2, <2>4 DEF Steady, Own
<1>6. \A n \in 0..MaxTasks : \A q \in [1..n -> Handle] : ~Exit(q)
  BY DEF Exit, MayFail
<1>7. ~Restart
  BY DEF Restart, Steady
<1> QED
  BY <1>1, <1>2, <1>3, <1>4, <1>5, <1>6, <1>7 DEF Daemon, Serve

\* The library's steps: a call of one of the services leaves, a message is taken.
LEMMA EndSteady ==
  ASSUME DaemonTypeOK, NEW S \in SUBSET Service, Steady(S), UNCHANGED world,
         UNCHANGED daemonVars, MessageTaken,
         calls' = calls \/ \E c \in S \X Caller : calls' = Append(calls, c)
  PROVE  Steady(S)' /\ TasksStay
<1>1. UNCHANGED <<world, num, open, running, owed, owner, lives, served, failed>>
  BY DEF daemonVars
<1>2. Sound(S)' = Sound(S)
  BY <1>1 DEF Sound, Own, CallOf
<1>3. calls' \in Seq(S \X Caller)
  BY SequencesTyped DEF Steady
<1>4. wire' \in Seq(Sound(S))
  BY SequencesTyped DEF Steady, MessageTaken
<1> QED
  BY <1>1, <1>2, <1>3, <1>4 DEF Steady, TasksStay, Own

LEMMA InitSteady ==
  ASSUME DaemonInit, NEW S \in SUBSET Service
  PROVE  Steady(S)
<1>1. calls = <<>> /\ wire = <<>>
  BY DEF DaemonInit
<1>2. calls \in Seq(S \X Caller) /\ wire \in Seq(Sound(S))
  BY <1>1
<1> QED
  BY <1>2 DEF DaemonInit, Steady, Own

-----------------------------------------------------------------------------
(* Of the requests.                                                          *)

\* Is the request in the table?
Entry(r) == \E k \in Key : tasks[k] = r

OneHand ==
  \A r \in Request :
    /\ r \in awaiting \cup idle => called[r] = 0 /\ ~Entry(r)
    /\ ~(r \in awaiting /\ r \in idle)
    /\ Entry(r) => called[r] = 0
    /\ \A k, l \in Key : tasks[k] = r /\ tasks[l] = r => k = l
    /\ called[r] <= 1
    /\ r \notin asked => called[r] = 0 /\ ~Entry(r)
    /\ r \in unqueueing => key[r] # NoKey /\ r \in unqueued

\* The sum of RefsBalance, without the cardinality.
Held(r) ==
  One(r \in held) + One(r \in awaiting) + One(r \in idle) + One(r \in unqueueing)
    + One(Entry(r))

Balance == \A r \in asked : refs[r] = Held(r)

\* The types of the library's own variables.
FactoryTypeOK ==
  /\ key \in [Request -> Key \cup {NoKey}]
  /\ tasks \in [Key -> Request \cup {None}]
  /\ waiting \in BOOLEAN
  /\ refs \in [Request -> Nat]
  /\ called \in [Request -> Nat]
  /\ unqueued \subseteq asked /\ errors \subseteq asked /\ idle \subseteq asked
  /\ awaiting \subseteq asked /\ unqueueing \subseteq asked /\ held \subseteq asked
  /\ had \subseteq asked /\ blamed \subseteq asked
  /\ asked \subseteq Request
  /\ join \in {"no", "flag", "table"}
  /\ joined \in Request \cup {None}

LInv == FactoryTypeOK /\ OneHand /\ Balance

IInv == DaemonTypeOK /\ Owes /\ LInv

-----------------------------------------------------------------------------
(* Lemmas.                                                                   *)

LEMMA TypeSplit == TypeOK <=> DaemonTypeOK /\ FactoryTypeOK
<1>1. TypeOK => FactoryTypeOK
  BY DEF TypeOK, FactoryTypeOK
<1>2. FactoryTypeOK => \A S \in {unqueued, errors, idle, awaiting, unqueueing, held, had, blamed} : S \subseteq asked
  BY DEF FactoryTypeOK
<1> QED
  BY <1>1, <1>2 DEF TypeOK, FactoryTypeOK

LEMMA OneTyped == \A b \in BOOLEAN : One(b) \in 0..1
BY DEF One

LEMMA HeldTyped == \A r \in Request : Held(r) \in Nat
BY DEF Held, One

\* A request is under one handle or none.
LEMMA KeysCounted ==
  ASSUME OneHand, NEW r \in Request
  PROVE  Cardinality(Keys(r)) = One(Entry(r))
<1>1. CASE ~Entry(r)
  <2>1. Keys(r) = {}
    BY <1>1 DEF Keys, Entry
  <2> QED
    BY <1>1, <2>1, FS_EmptySet DEF One
<1>2. CASE Entry(r)
  <2>1. PICK k \in Key : tasks[k] = r
    BY <1>2 DEF Entry
  <2>2. Keys(r) = {k}
    BY <2>1 DEF Keys, OneHand
  <2> QED
    BY <1>2, <2>2, FS_Singleton DEF One
<1> QED
  BY <1>1, <1>2

\* One unref, and two.
LEMMA UnrefOnce ==
  ASSUME NEW a, NEW r \in Request, refs[r] \in Nat
  PROVE  Unref(<<a>>)[r] = refs[r] - One(r = a)
<1> DEFINE S == {i \in DOMAIN <<a>> : <<a>>[i] = r}
<1>1. Cardinality(S) = One(r = a)
  <2>1. CASE r = a
    <3>1. S = {1}
      BY <2>1
    <3> QED
      BY <2>1, <3>1, FS_Singleton DEF One
  <2>2. CASE r # a
    <3>1. S = {}
      BY <2>2
    <3> QED
      BY <2>2, <3>1, FS_EmptySet DEF One
  <2> QED
    BY <2>1, <2>2
<1> QED
  BY <1>1 DEF Unref

LEMMA UnrefTwice ==
  ASSUME NEW a, NEW b, NEW r \in Request, refs[r] \in Nat
  PROVE  Unref(<<a, b>>)[r] = refs[r] - One(r = a) - One(r = b)
<1> DEFINE S == {i \in DOMAIN <<a, b>> : <<a, b>>[i] = r}
<1>0. DOMAIN <<a, b>> = {1, 2} /\ <<a, b>>[1] = a /\ <<a, b>>[2] = b
  OBVIOUS
<1>1. Cardinality(S) = One(r = a) + One(r = b)
  <2>1. CASE r = a /\ r = b
    <3>1. S = {1} \cup {2}
      BY <1>0, <2>1
    <3>2. Cardinality({1} \cup {2}) = Cardinality({1}) + 1
      <4>1. IsFiniteSet({1}) /\ 2 \notin {1}
        BY FS_Singleton
      <4> QED
        BY <4>1, FS_AddElement
    <3>3. Cardinality({1}) = 1
      BY FS_Singleton
    <3> HIDE DEF S
    <3> QED
      BY <2>1, <3>1, <3>2, <3>3 DEF One
  <2>2. CASE r = a /\ r # b
    <3>1. S = {1}
      BY <1>0, <2>2
    <3>2. Cardinality({1}) = 1
      BY FS_Singleton
    <3> HIDE DEF S
    <3> QED
      BY <2>2, <3>1, <3>2 DEF One
  <2>3. CASE r # a /\ r = b
    <3>1. S = {2}
      BY <1>0, <2>3
    <3>2. Cardinality({2}) = 1
      BY FS_Singleton
    <3> HIDE DEF S
    <3> QED
      BY <2>3, <3>1, <3>2 DEF One
  <2>4. CASE r # a /\ r # b
    <3>1. S = {}
      BY <1>0, <2>4
    <3> HIDE DEF S
    <3> QED
      BY <2>4, <3>1, FS_EmptySet DEF One
  <2> QED
    BY <2>1, <2>2, <2>3, <2>4
<1>2. Unref(<<a, b>>)[r] = refs[r] - Cardinality(S)
  BY DEF Unref
<1>3. One(r = a) \in 0..1 /\ One(r = b) \in 0..1
  BY DEF One
<1> HIDE DEF S
<1> QED
  BY <1>1, <1>2, <1>3

\* Reference counts stay natural numbers because they stay balanced.
LEMMA RefsTyped ==
  ASSUME FactoryTypeOK, NEW rs, refs' = Unref(rs), Balance', UNCHANGED asked,
         \A r \in Request \ asked : Unref(rs)[r] = refs[r]
  PROVE  refs' \in [Request -> Nat]
<1>1. refs' = [r \in Request |-> refs'[r]]
  BY DEF Unref
<1>2. ASSUME NEW r \in Request PROVE refs'[r] \in Nat
  <2>1. CASE r \in asked
    <3>1. refs'[r] = Held(r)'
      BY <2>1 DEF Balance
    <3>2. Held(r)' \in Nat
      BY DEF Held, One
    <3> QED
      BY <3>1, <3>2
  <2>2. CASE r \notin asked
    BY <2>2 DEF FactoryTypeOK
  <2> QED
    BY <2>1, <2>2
<1> QED
  BY <1>1, <1>2

\* A request begins with two references: the application's and that of whoever
\* will call it back.
LEMMA MakeKeeps ==
  ASSUME LInv, NEW r \in Request, MakeRequest(r)
  PROVE  LInv'
<1> USE DEF LInv
<1>1. /\ r \notin asked /\ asked' = asked \cup {r} /\ held' = held \cup {r}
      /\ refs' = [refs EXCEPT ![r] = 2] /\ waiting' = TRUE
      /\ \/ awaiting' = awaiting \cup {r} /\ idle' = idle /\ had' = had
         \/ idle' = idle \cup {r} /\ awaiting' = awaiting /\ had' = had \cup {r}
      /\ UNCHANGED <<key, unqueued, errors, tasks, unqueueing, join, joined, called, blamed>>
  BY DEF MakeRequest, MissThumbnail, UseCache, callVars
<1>2. \A q \in Request : Entry(q)' = Entry(q)
  BY <1>1 DEF Entry
<1>3. r \notin awaiting \cup idle \cup held \cup unqueueing /\ ~Entry(r) /\ called[r] = 0
  BY <1>1 DEF FactoryTypeOK, OneHand
<1>4. FactoryTypeOK'
  BY <1>1 DEF FactoryTypeOK
<1>5. OneHand'
  BY <1>1, <1>2, <1>3 DEF OneHand
<1>6. ASSUME NEW q \in asked' PROVE refs'[q] = Held(q)'
  <2>1. q \in Request
    BY <1>4 DEF FactoryTypeOK
  <2>2. CASE q = r
    <3>1. Held(r)' = 2
      BY <1>1, <1>2, <1>3 DEF Held, One
    <3>2. refs'[r] = 2
      BY <1>1 DEF FactoryTypeOK
    <3> QED
      BY <2>2, <3>1, <3>2
  <2>3. CASE q # r
    <3>1. Held(q)' = Held(q)
      BY <1>1, <1>2, <2>1, <2>3 DEF Held
    <3>2. refs'[q] = refs[q] /\ q \in asked
      BY <1>1, <2>1, <2>3 DEF FactoryTypeOK
    <3> QED
      BY <3>1, <3>2 DEF Balance
  <2> QED
    BY <2>2, <2>3
<1>7. Balance'
  BY <1>6 DEF Balance
<1> QED
  BY <1>4, <1>5, <1>7

\* The Unqueue call holds a reference until it times out.
LEMMA UnqueueKeeps ==
  ASSUME LInv, NEW r \in Request, Unqueue(r)
  PROVE  LInv'
<1> USE DEF LInv
<1>1. /\ r \in held /\ r \notin unqueued /\ unqueued' = unqueued \cup {r}
      /\ \/ key[r] # NoKey /\ unqueueing' = unqueueing \cup {r} /\ refs' = [refs EXCEPT ![r] = @ + 1]
         \/ UNCHANGED <<unqueueing, refs>>
      /\ UNCHANGED <<key, errors, tasks, waiting, idle, awaiting, asked, held, join, joined,
                     had, called, blamed>>
  BY DEF Unqueue, appVars, NotCalled, callVars
<1>2. \A q \in Request : Entry(q)' = Entry(q)
  BY <1>1 DEF Entry
<1>3. FactoryTypeOK'
  BY <1>1 DEF FactoryTypeOK
<1>4. OneHand'
  BY <1>1, <1>2 DEF OneHand
<1>6. ASSUME NEW q \in asked PROVE refs'[q] = Held(q)'
  <2>1. q \in Request /\ refs[q] = Held(q) /\ refs[q] \in Nat
    BY DEF FactoryTypeOK, Balance
  <2>2. CASE UNCHANGED <<unqueueing, refs>>
    BY <1>1, <1>2, <2>1, <2>2 DEF Held
  <2>3. CASE unqueueing' = unqueueing \cup {r} /\ refs' = [refs EXCEPT ![r] = @ + 1]
    <3>0. r \notin unqueueing
      BY <1>1 DEF OneHand
    <3>1. refs'[q] = refs[q] + One(q = r)
      BY <2>1, <2>3 DEF FactoryTypeOK, One
    <3>2. Held(q)' = Held(q) + One(q = r)
      BY <1>1, <1>2, <2>1, <2>3, <3>0 DEF Held, One
    <3> QED
      BY <2>1, <3>1, <3>2
  <2> QED
    BY <1>1, <2>2, <2>3
<1> QED
  BY <1>1, <1>3, <1>4, <1>6 DEF Balance

LEMMA ReleaseKeeps ==
  ASSUME LInv, NEW r \in Request, Release(r)
  PROVE  LInv'
<1> USE DEF LInv
<1>1. /\ r \in held /\ held' = held \ {r} /\ refs' = Unref(<<r>>)
      /\ UNCHANGED <<key, unqueued, errors, tasks, waiting, idle, awaiting, unqueueing,
                     asked, join, joined, had, called, blamed>>
  BY DEF Release, NotCalled, callVars
<1>2. \A q \in Request : Entry(q)' = Entry(q)
  BY <1>1 DEF Entry
<1>3. \A q \in Request : Unref(<<r>>)[q] = refs[q] - One(q = r)
  BY UnrefOnce DEF FactoryTypeOK
<1>4. ASSUME NEW q \in asked PROVE refs'[q] = Held(q)'
  <2>1. q \in Request /\ refs[q] = Held(q) /\ refs[q] \in Nat
    BY DEF FactoryTypeOK, Balance
  <2>2. Held(q)' = Held(q) - One(q = r)
    BY <1>1, <1>2, <2>1 DEF Held, One
  <2> QED
    BY <1>1, <1>3, <2>1, <2>2
<1>5. Balance'
  BY <1>1, <1>4 DEF Balance
<1>6. \A q \in Request \ asked : Unref(<<r>>)[q] = refs[q]
  BY <1>1, <1>3 DEF FactoryTypeOK, One
<1>7. refs' \in [Request -> Nat]
  BY <1>1, <1>5, <1>6, RefsTyped
<1>8. FactoryTypeOK'
  BY <1>1, <1>7 DEF FactoryTypeOK
<1>9. OneHand'
  BY <1>1, <1>2 DEF OneHand
<1> QED
  BY <1>5, <1>8, <1>9

\* The idle source calls back and drops its reference.
LEMMA HaveAllKeeps ==
  ASSUME LInv, NEW r \in Request, HaveAll(r)
  PROVE  LInv'
<1> USE DEF LInv
<1>1. /\ r \in idle /\ idle' = idle \ {r} /\ waiting' = FALSE /\ refs' = Unref(<<r>>)
      /\ called' = [called EXCEPT ![r] = @ + 1]
      /\ blamed' \in {blamed, blamed \cup {r}}
      /\ UNCHANGED <<key, unqueued, errors, tasks, awaiting, unqueueing, asked, held, join,
                     joined, had>>
  BY DEF HaveAll, CallBack, appVars
<1>2. \A q \in Request : Entry(q)' = Entry(q)
  BY <1>1 DEF Entry
<1>3. \A q \in Request : Unref(<<r>>)[q] = refs[q] - One(q = r)
  BY UnrefOnce DEF FactoryTypeOK
<1>4. ASSUME NEW q \in asked PROVE refs'[q] = Held(q)'
  <2>1. q \in Request /\ refs[q] = Held(q) /\ refs[q] \in Nat
    BY DEF FactoryTypeOK, Balance
  <2>2. Held(q)' = Held(q) - One(q = r)
    BY <1>1, <1>2, <2>1 DEF Held, One
  <2> QED
    BY <1>1, <1>3, <2>1, <2>2
<1>5. Balance'
  BY <1>1, <1>4 DEF Balance
<1>6. \A q \in Request \ asked : Unref(<<r>>)[q] = refs[q]
  BY <1>1, <1>3 DEF FactoryTypeOK, One
<1>7. refs' \in [Request -> Nat]
  BY <1>1, <1>5, <1>6, RefsTyped
<1>9. called[r] = 0 /\ ~Entry(r) /\ r \notin awaiting /\ r \in asked
  BY <1>1 DEF OneHand, FactoryTypeOK
<1>8. FactoryTypeOK'
  <2>1. called' \in [Request -> Nat]
    BY <1>1 DEF FactoryTypeOK
  <2>2. blamed' \subseteq asked /\ idle' \subseteq asked
    BY <1>1, <1>9 DEF FactoryTypeOK
  <2> QED
    BY <1>1, <1>7, <2>1, <2>2 DEF FactoryTypeOK
<1>10. called'[r] = 1 /\ \A q \in Request \ {r} : called'[q] = called[q]
  BY <1>1, <1>9 DEF FactoryTypeOK
<1>11. OneHand'
  BY <1>1, <1>2, <1>9, <1>10 DEF OneHand
<1> QED
  BY <1>5, <1>8, <1>11

\* The reply, or its failure: the reference of the call goes to the table, and
\* that of the entry it replaces is dropped; or an unqueued request drops it.
LEMMA GotHandleKeeps ==
  ASSUME LInv, NEW r \in Request, NEW k \in Key, r \in awaiting, GotHandle(r, k),
         UNCHANGED <<asked, held, join, joined, had>>
  PROVE  LInv'
<1> USE DEF LInv
<1>1. /\ awaiting' = awaiting \ {r} /\ waiting' = FALSE
      /\ refs' = Unref(Dropped(r, k))
      /\ UNCHANGED <<unqueued, errors, idle, unqueueing, called, blamed>>
  BY DEF GotHandle, callVars
<1>2. r \in asked /\ called[r] = 0 /\ ~Entry(r) /\ r \notin idle /\ r # None
  BY NoneAssumption DEF OneHand, FactoryTypeOK, Request
<1>3. CASE r \in unqueued
  <2>1. UNCHANGED <<key, tasks>> /\ refs' = Unref(<<r>>)
    BY <1>1, <1>3 DEF GotHandle, Dropped
  <2>2. \A q \in Request : Entry(q)' = Entry(q)
    BY <2>1 DEF Entry
  <2>3. \A q \in Request : Unref(<<r>>)[q] = refs[q] - One(q = r)
    BY UnrefOnce DEF FactoryTypeOK
  <2>4. ASSUME NEW q \in asked PROVE refs'[q] = Held(q)'
    <3>1. q \in Request /\ refs[q] = Held(q) /\ refs[q] \in Nat
      BY DEF FactoryTypeOK, Balance
    <3>2. Held(q)' = Held(q) - One(q = r)
      BY <1>1, <2>2, <3>1 DEF Held, One
    <3> QED
      BY <2>1, <2>3, <3>1, <3>2
  <2>5. Balance'
    BY <2>4 DEF Balance
  <2>6. \A q \in Request \ asked : Unref(<<r>>)[q] = refs[q]
    BY <1>2, <2>3 DEF FactoryTypeOK, One
  <2>7. refs' \in [Request -> Nat]
    BY <2>1, <2>5, <2>6, RefsTyped
  <2>8. FactoryTypeOK'
    BY <1>1, <2>1, <2>7 DEF FactoryTypeOK
  <2>9. OneHand'
    BY <1>1, <2>1, <2>2 DEF OneHand
  <2> QED
    BY <2>5, <2>8, <2>9
<1>4. CASE r \notin unqueued
  <2>0. PICK p \in Request \cup {None} : p = tasks[k]
    BY DEF FactoryTypeOK
  <2>1. /\ key' = [key EXCEPT ![r] = k] /\ tasks' = [tasks EXCEPT ![k] = r]
        /\ refs' = Unref(<<p>>)
    BY <1>1, <1>4, <2>0 DEF GotHandle, Dropped
  <2>2. p # r
    BY <1>2, <2>0 DEF Entry, FactoryTypeOK
  <2>3. tasks'[k] = r /\ \A l \in Key \ {k} : tasks'[l] = tasks[l]
    BY <2>1 DEF FactoryTypeOK
  <2>4. Entry(r)'
    BY <2>3 DEF Entry
  <2>5. p \in Request => Entry(p) /\ ~Entry(p)' /\ p \in asked
    BY <2>0, <2>2, <2>3 DEF Entry, OneHand
  <2>6. \A q \in Request \ {p, r} : Entry(q)' = Entry(q)
    BY <2>0, <2>3 DEF Entry
  <2>7. \A q \in Request : Unref(<<p>>)[q] = refs[q] - One(q = p)
    BY UnrefOnce DEF FactoryTypeOK
  <2>8. ASSUME NEW q \in asked PROVE refs'[q] = Held(q)'
    <3>1. q \in Request /\ refs[q] = Held(q) /\ refs[q] \in Nat
      BY DEF FactoryTypeOK, Balance
    <3>2. Held(q)' = Held(q) - One(q = p)
      <4>1. CASE q = r
        BY <1>1, <1>2, <2>2, <2>4, <3>1, <4>1 DEF Held, One
      <4>2. CASE q = p
        BY <1>1, <2>2, <2>5, <3>1, <4>2 DEF Held, One
      <4>3. CASE q \notin {p, r}
        BY <1>1, <2>6, <3>1, <4>3 DEF Held, One
      <4> QED
        BY <4>1, <4>2, <4>3
    <3> QED
      BY <2>1, <2>7, <3>1, <3>2
  <2>9. Balance'
    BY <2>8 DEF Balance
  <2>10. \A q \in Request \ asked : Unref(<<p>>)[q] = refs[q]
    BY <2>5, <2>7 DEF FactoryTypeOK, One
  <2>11. refs' \in [Request -> Nat]
    BY <2>1, <2>9, <2>10, RefsTyped
  <2>12. FactoryTypeOK'
    BY <1>1, <2>1, <2>11 DEF FactoryTypeOK
  <2>13. \A q \in Request : Entry(q)' => q = r \/ Entry(q)
    BY <2>3 DEF Entry
  <2>14. k # NoKey
    BY KeysAreKnown
  <2>15. \A q \in Request : \A l, m \in Key : tasks'[l] = q /\ tasks'[m] = q => l = m
    <3>1. \A l \in Key : tasks[l] # r
      BY <1>2 DEF Entry
    <3> QED
      BY <2>3, <3>1 DEF OneHand
  <2>16. \A q \in Request : q \in unqueueing' => key'[q] # NoKey /\ q \in unqueued'
    BY <1>1, <1>4, <2>1 DEF OneHand, FactoryTypeOK
  <2>17. OneHand'
    BY <1>1, <1>2, <2>13, <2>15, <2>16 DEF OneHand
  <2> QED
    BY <2>9, <2>12, <2>17
<1> QED
  BY <1>3, <1>4

\* When entry k goes, its request is in the table no more and others stay.
LEMMA EntryGoes ==
  ASSUME LInv, NEW k \in Key, NEW p \in Request \cup {None}, p = tasks[k], tasks' = Removed(k)
  PROVE  /\ tasks' \in [Key -> Request \cup {None}]
         /\ p \in Request => Entry(p) /\ ~Entry(p)' /\ p \in asked
         /\ \A q \in Request \ {p} : Entry(q)' = Entry(q)
         /\ \A q \in Request : \A l, m \in Key : tasks'[l] = q /\ tasks'[m] = q => l = m
<1> USE DEF LInv
<1>1. tasks'[k] = None /\ \A l \in Key \ {k} : tasks'[l] = tasks[l]
  BY DEF Removed, FactoryTypeOK
<1>2. None \notin Request
  BY NoneAssumption DEF Request
<1>3. tasks' \in [Key -> Request \cup {None}]
  BY DEF Removed, FactoryTypeOK
<1>4. p \in Request => Entry(p) /\ ~Entry(p)' /\ p \in asked
  BY <1>1, <1>2 DEF Entry, OneHand
<1>5. \A q \in Request \ {p} : Entry(q)' = Entry(q)
  BY <1>1, <1>2 DEF Entry
<1>6. \A q \in Request : \A l, m \in Key : tasks'[l] = q /\ tasks'[m] = q => l = m
  BY <1>1, <1>2 DEF OneHand
<1> QED
  BY <1>3, <1>4, <1>5, <1>6

\* Finished: the entry under the handle goes, whoever it belongs to.
LEMMA TaskFinishedKeeps ==
  ASSUME LInv, NEW h \in Key, TaskFinished(h),
         UNCHANGED <<asked, held, join, joined, had>>
  PROVE  LInv'
<1> USE DEF LInv
<1>0. PICK p \in Request \cup {None} : p = tasks[h]
  BY DEF FactoryTypeOK
<1>1. CASE p = None
  <2>1. UNCHANGED <<key, unqueued, errors, tasks, waiting, idle, awaiting, unqueueing, refs,
                    called, blamed>>
    BY <1>0, <1>1 DEF TaskFinished, libVars, callVars
  <2>2. \A q \in Request : Entry(q)' = Entry(q)
    BY <2>1 DEF Entry
  <2>3. FactoryTypeOK'
    BY <2>1 DEF FactoryTypeOK
  <2>4. OneHand'
    BY <2>1, <2>2 DEF OneHand
  <2>5. Balance'
    BY <2>1, <2>2 DEF Balance, Held, FactoryTypeOK
  <2> QED
    BY <2>3, <2>4, <2>5
<1>2. CASE p # None
  <2>1. /\ tasks' = Removed(h) /\ refs' = Unref(<<p>>)
        /\ called' \in {called, [called EXCEPT ![p] = @ + 1]}
        /\ blamed' \in {blamed, blamed \cup {p}}
        /\ UNCHANGED <<key, unqueued, errors, waiting, idle, awaiting, unqueueing>>
    BY <1>0, <1>2 DEF TaskFinished, CallBack, callVars
  <2>2. /\ tasks' \in [Key -> Request \cup {None}]
        /\ p \in Request => Entry(p) /\ ~Entry(p)' /\ p \in asked
        /\ \A q \in Request \ {p} : Entry(q)' = Entry(q)
        /\ \A q \in Request : \A l, m \in Key : tasks'[l] = q /\ tasks'[m] = q => l = m
    BY <1>0, <2>1, EntryGoes
  <2>3. p \in asked /\ p \in Request /\ called[p] = 0 /\ p \notin awaiting \cup idle
    BY <1>2, <2>2 DEF OneHand
  <2>4. \A q \in Request : Unref(<<p>>)[q] = refs[q] - One(q = p)
    BY UnrefOnce DEF FactoryTypeOK
  <2>5. ASSUME NEW q \in asked PROVE refs'[q] = Held(q)'
    <3>1. q \in Request /\ refs[q] = Held(q) /\ refs[q] \in Nat
      BY DEF FactoryTypeOK, Balance
    <3>2. Held(q)' = Held(q) - One(q = p)
      <4>1. CASE q = p
        BY <2>1, <2>2, <2>3, <3>1, <4>1 DEF Held, One
      <4>2. CASE q # p
        BY <2>1, <2>2, <3>1, <4>2 DEF Held, One
      <4> QED
        BY <4>1, <4>2
    <3> QED
      BY <2>1, <2>4, <3>1, <3>2
  <2>6. Balance'
    BY <2>5 DEF Balance
  <2>7. \A q \in Request \ asked : Unref(<<p>>)[q] = refs[q]
    BY <2>3, <2>4 DEF FactoryTypeOK, One
  <2>8. refs' \in [Request -> Nat]
    BY <2>1, <2>6, <2>7, RefsTyped
  <2>9. called' \in [Request -> Nat] /\ called'[p] <= 1 /\ \A q \in Request \ {p} : called'[q] = called[q]
    BY <2>1, <2>3 DEF FactoryTypeOK
  <2>10. FactoryTypeOK'
    <3>1. blamed' \subseteq asked
      BY <2>1, <2>3 DEF FactoryTypeOK
    <3> QED
      BY <2>1, <2>2, <2>8, <2>9, <3>1 DEF FactoryTypeOK
  <2>11. OneHand'
    BY <2>1, <2>2, <2>3, <2>9 DEF OneHand
  <2> QED
    BY <2>6, <2>10, <2>11
<1> QED
  BY <1>1, <1>2

\* The Unqueue call times out: its reference is dropped, and the entry under the
\* request's handle goes with its own, whoever it belongs to.
LEMMA UnqueueTimesOutKeeps ==
  ASSUME LInv, NEW r \in Request, UnqueueTimesOut(r)
  PROVE  LInv'
<1> USE DEF LInv
<1>0. PICK k \in Key : k = key[r]
  BY DEF UnqueueTimesOut, OneHand, FactoryTypeOK
<1>1. PICK p \in Request \cup {None} : p = tasks[k]
  BY DEF FactoryTypeOK
<1>2. /\ r \in unqueueing /\ unqueueing' = unqueueing \ {r} /\ refs' = Unref(<<r, p>>)
      /\ tasks' = Removed(k)
      /\ UNCHANGED <<key, unqueued, errors, waiting, idle, awaiting, asked, held, join, joined,
                     had, called, blamed>>
  BY <1>0, <1>1 DEF UnqueueTimesOut, appVars, NotCalled, callVars
<1>3. /\ tasks' \in [Key -> Request \cup {None}]
      /\ p \in Request => Entry(p) /\ ~Entry(p)' /\ p \in asked
      /\ \A q \in Request \ {p} : Entry(q)' = Entry(q)
      /\ \A q \in Request : \A l, m \in Key : tasks'[l] = q /\ tasks'[m] = q => l = m
  BY <1>1, <1>2, EntryGoes
<1>4. \A q \in Request : Unref(<<r, p>>)[q] = refs[q] - One(q = r) - One(q = p)
  BY UnrefTwice DEF FactoryTypeOK
<1>5. ASSUME NEW q \in asked PROVE refs'[q] = Held(q)'
  <2>1. q \in Request /\ refs[q] = Held(q) /\ refs[q] \in Nat
    BY DEF FactoryTypeOK, Balance
  <2>2. One(q \in unqueueing') = One(q \in unqueueing) - One(q = r)
    BY <1>2 DEF One
  <2>3. One(Entry(q)') = One(Entry(q)) - One(q = p)
    BY <1>3, <2>1 DEF One
  <2>4. Held(q)' = Held(q) - One(q = r) - One(q = p)
    BY <1>2, <2>1, <2>2, <2>3 DEF Held, One
  <2> QED
    BY <1>2, <1>4, <2>1, <2>4
<1>6. Balance'
  BY <1>2, <1>5 DEF Balance
<1>7. \A q \in Request \ asked : Unref(<<r, p>>)[q] = refs[q]
  BY <1>2, <1>3, <1>4 DEF FactoryTypeOK, One
<1>8. refs' \in [Request -> Nat]
  BY <1>2, <1>6, <1>7, RefsTyped
<1>9. FactoryTypeOK'
  BY <1>2, <1>3, <1>8 DEF FactoryTypeOK
<1>10. \A q \in Request : Entry(q)' => Entry(q)
  BY <1>3
<1>11. OneHand'
  BY <1>2, <1>3, <1>10 DEF OneHand
<1> QED
  BY <1>6, <1>9, <1>11

\* What leaves the counts and the table alone.
LEMMA SameKeeps ==
  ASSUME LInv, UNCHANGED <<key, unqueued, tasks, idle, awaiting, unqueueing, refs, asked, held,
                           had, called, blamed>>,
         waiting' \in BOOLEAN, errors' \subseteq asked,
         join' \in {"no", "flag", "table"}, joined' \in Request \cup {None}
  PROVE  LInv'
<1> USE DEF LInv
<1>1. \A q \in Request : Entry(q)' = Entry(q)
  BY DEF Entry
<1>2. FactoryTypeOK'
  BY DEF FactoryTypeOK
<1>3. OneHand'
  BY <1>1 DEF OneHand
<1>4. Balance'
  BY <1>1 DEF Balance, Held, FactoryTypeOK
<1> QED
  BY <1>2, <1>3, <1>4

LEMMA LibVarsKeep ==
  ASSUME LInv, UNCHANGED <<libVars, appVars, had, callVars>>
  PROVE  LInv'
<1>1. UNCHANGED <<key, unqueued, tasks, idle, awaiting, unqueueing, refs, asked, held,
                  had, called, blamed>>
  BY DEF libVars, appVars, callVars
<1>2. waiting' \in BOOLEAN /\ errors' \subseteq asked
      /\ join' \in {"no", "flag", "table"} /\ joined' \in Request \cup {None}
  BY DEF libVars, appVars, LInv, FactoryTypeOK
<1> QED
  BY <1>1, <1>2, SameKeeps

\* What a message of the daemon does to the library, whatever handle it carries.
Receives(m) ==
  CASE m.msg = "reply" -> IF m.call[2] \in awaiting
                          THEN GotHandle(m.call[2], m.handle) ELSE TooLate
    [] m.msg = "noreply" -> IF m.call[2] \in awaiting
                            THEN \E k \in Garbage : GotHandle(m.call[2], k)
                            ELSE TooLate
    [] m.msg = "Error" -> TaskError(m.task[2])
    [] m.msg = "Finished" -> TaskFinished(m.task[2])

LEMMA ReceivesKeep ==
  ASSUME LInv, NEW m \in Message, Receives(m), UNCHANGED <<appVars, had>>
  PROVE  LInv'
<1>1. m.msg \in {"reply", "noreply", "Error", "Finished"}
  BY DEF Message
<1>2. UNCHANGED <<asked, held, join, joined, had>>
  BY DEF appVars
<1>3. m.call[2] \in awaiting => m.call[2] \in Request
  BY DEF LInv, FactoryTypeOK
<1>4. TooLate => LInv'
  BY LibVarsKeep DEF TooLate
<1>5. CASE m.msg = "reply"
  <2>1. m.handle \in Key
    BY <1>5, KeysAreKnown DEF Message
  <2>2. IF m.call[2] \in awaiting THEN GotHandle(m.call[2], m.handle) ELSE TooLate
    BY <1>5 DEF Receives
  <2> QED
    BY <1>2, <1>3, <1>4, <2>1, <2>2, GotHandleKeeps
<1>6. CASE m.msg = "noreply"
  <2>1. IF m.call[2] \in awaiting THEN \E k \in Garbage : GotHandle(m.call[2], k) ELSE TooLate
    BY <1>6 DEF Receives
  <2>2. Garbage \subseteq Key
    BY KeysAreKnown
  <2> QED
    BY <1>2, <1>3, <1>4, <2>1, <2>2, GotHandleKeeps
<1>7. CASE m.msg = "Error"
  <2>1. m.task[2] \in Key
    BY <1>7, KeysAreKnown DEF Message, Task
  <2>2. TaskError(m.task[2])
    BY <1>7 DEF Receives
  <2>3. errors' \subseteq asked
    BY <2>1, <2>2 DEF TaskError, LInv, FactoryTypeOK, OneHand, Entry
  <2>4. UNCHANGED <<key, unqueued, tasks, waiting, idle, awaiting, unqueueing, refs, called, blamed>>
    BY <2>2 DEF TaskError, callVars
  <2>5. waiting' \in BOOLEAN /\ join' \in {"no", "flag", "table"} /\ joined' \in Request \cup {None}
    BY <1>2, <2>4 DEF LInv, FactoryTypeOK
  <2> QED
    BY <1>2, <2>3, <2>4, <2>5, SameKeeps
<1>8. CASE m.msg = "Finished"
  <2>1. m.task[2] \in Key
    BY <1>8, KeysAreKnown DEF Message, Task
  <2>2. TaskFinished(m.task[2])
    BY <1>8 DEF Receives
  <2> QED
    BY <1>2, <2>1, <2>2, TaskFinishedKeeps
<1> QED
  BY <1>1, <1>5, <1>6, <1>7, <1>8

-----------------------------------------------------------------------------
(* The invariant.                                                            *)

LEMMA InitIInv == Init => IInv
<1> SUFFICES ASSUME Init PROVE IInv
  OBVIOUS
<1>1. DaemonTypeOK /\ Owes
  BY DaemonInitTyped DEF Init
<1>2. FactoryTypeOK
  BY DEF Init, FactoryTypeOK
<1>3. OneHand
  BY NoneAssumption DEF Init, OneHand, Entry, Request
<1>4. Balance
  BY DEF Init, Balance
<1> QED
  BY <1>1, <1>2, <1>3, <1>4 DEF IInv, LInv

LEMMA NextIInv ==
  ASSUME "thumbnail" \in Service, IInv, [Next]_vars
  PROVE  IInv'
<1>1. DaemonTypeOK /\ Owes /\ LInv
  BY DEF IInv
<1>2. SUFFICES DaemonTypeOK' /\ Owes' /\ LInv'
  BY <1>2 DEF IInv
<1>3. CASE Elsewhere
  <2>1. DaemonTypeOK' /\ Owes'
    BY <1>1, <1>3, DaemonSteps DEF Elsewhere
  <2> QED
    BY <1>1, <1>3, <2>1, LibVarsKeep DEF Elsewhere
<1>4. ASSUME UNCHANGED busVars PROVE DaemonTypeOK' /\ Owes'
  <2>1. UNCHANGED world /\ UNCHANGED daemonVars /\ CallLeaves /\ MessageTaken
    BY <1>4 DEF busVars, CallLeaves, MessageTaken
  <2> QED
    BY <1>1, <2>1, EndTyped
<1>5. ASSUME NEW r \in Request, MakeRequest(r)
      PROVE  DaemonTypeOK' /\ Owes' /\ LInv'
  <2>1. <<"thumbnail", r>> \in Call
    BY DEF Call, Request
  <2>2. CallLeaves /\ UNCHANGED world /\ UNCHANGED daemonVars /\ MessageTaken
    BY <1>5, <2>1 DEF MakeRequest, MissThumbnail, UseCache, AskDaemon, busVars,
             CallLeaves, MessageTaken
  <2>3. DaemonTypeOK' /\ Owes'
    BY <1>1, <2>2, EndTyped
  <2> QED
    BY <1>1, <1>5, <2>3, MakeKeeps
<1>6. ASSUME NEW r \in Request, Unqueue(r) \/ Release(r) \/ HaveAll(r) \/ UnqueueTimesOut(r)
      PROVE  DaemonTypeOK' /\ Owes' /\ LInv'
  <2>1. UNCHANGED busVars
    BY <1>6 DEF Unqueue, Release, HaveAll, UnqueueTimesOut
  <2> QED
    BY <1>1, <1>4, <1>6, <2>1, UnqueueKeeps, ReleaseKeeps, HaveAllKeeps, UnqueueTimesOutKeeps
<1>7. ASSUME NEW r \in Request \cup {None}, Join(r) \/ JoinFlag \/ JoinReturns
      PROVE  DaemonTypeOK' /\ Owes' /\ LInv'
  <2>1. /\ UNCHANGED busVars /\ UNCHANGED libVars /\ UNCHANGED <<asked, held, had, called, blamed>>
        /\ join' \in {"no", "flag", "table"} /\ joined' \in {r, None, joined}
    BY <1>7 DEF Join, JoinFlag, JoinReturns, NotCalled, callVars
  <2>2. UNCHANGED <<key, unqueued, tasks, idle, awaiting, unqueueing, refs>>
        /\ waiting' \in BOOLEAN /\ errors' \subseteq asked /\ joined' \in Request \cup {None}
    BY <1>1, <2>1 DEF libVars, LInv, FactoryTypeOK
  <2> QED
    BY <1>1, <1>4, <2>1, <2>2, SameKeeps
<1>8. ASSUME NEW r \in Request, QueueTimesOut(r)
      PROVE  DaemonTypeOK' /\ Owes' /\ LInv'
  <2>1. PICK k \in Garbage : GotHandle(r, k)
    BY <1>8 DEF QueueTimesOut
  <2>2. k \in Key /\ r \in awaiting /\ UNCHANGED busVars
        /\ UNCHANGED <<asked, held, join, joined, had>>
    BY <1>8, KeysAreKnown DEF QueueTimesOut, appVars
  <2> QED
    BY <1>1, <1>4, <2>1, <2>2, GotHandleKeeps
<1>9. CASE Dispatch
  <2>1. wire # <<>> /\ wire' = Tail(wire) /\ calls' = calls
        /\ UNCHANGED world /\ UNCHANGED daemonVars
        /\ Receives(Head(wire)) /\ UNCHANGED <<appVars, had>>
    BY <1>9 DEF Dispatch, TakeMessage, Receives
  <2>2. DaemonTypeOK' /\ Owes'
    BY <1>1, <2>1, EndTyped DEF CallLeaves, MessageTaken
  <2>3. Head(wire) \in Message
    <3>1. wire \in Seq(Message)
      BY <1>1 DEF DaemonTypeOK
    <3> QED
      BY <2>1, <3>1, SequencesTyped
  <2> QED
    BY <1>1, <2>1, <2>2, <2>3, ReceivesKeep
<1>10. CASE UNCHANGED vars
  <2>1. UNCHANGED busVars /\ UNCHANGED <<libVars, appVars, had, callVars>>
    BY <1>10 DEF vars
  <2> QED
    BY <1>1, <1>4, <2>1, LibVarsKeep
<1> QED
  BY <1>3, <1>5, <1>6, <1>7, <1>8, <1>9, <1>10 DEF Next, Application, Loop

-----------------------------------------------------------------------------
(* Where no call fails (Steady): what became of each request, and why.       *)

\* A handle names the request's own task, and an entry is found under it.
Tracked ==
  /\ \A r \in Request : key[r] # NoKey =>
       key[r] \in Handle /\ owner[<<"thumbnail", key[r]>>] = r
  /\ \A k \in Key : tasks[k] # None => key[tasks[k]] = k

\* Of a request that was called back or given an error, and of one that was made.
Explained ==
  /\ idle \subseteq had
  /\ \A r \in Request : called[r] > 0 => r \in had \/ <<"thumbnail", r>> \in served
  /\ \A r \in errors \cup blamed : <<"thumbnail", r>> \in failed
  /\ \A r \in asked : r \in awaiting \cup idle \/ Entry(r) \/ called[r] > 0 \/ r \in unqueued

FTrue == Tracked /\ Explained

DaemonRests == UNCHANGED <<owner, served, failed>>

LEMMA EntryIsOwners ==
  ASSUME LInv, FTrue, NEW k \in Key, tasks[k] # None
  PROVE  k \in Handle /\ tasks[k] \in Request /\ owner[<<"thumbnail", k>>] = tasks[k]
<1>1. tasks[k] \in Request /\ key[tasks[k]] = k /\ k # NoKey
  BY KeysAreKnown DEF LInv, FactoryTypeOK, FTrue, Tracked
<1> QED
  BY <1>1 DEF FTrue, Tracked

LEMMA MakeTrue ==
  ASSUME LInv, FTrue, DaemonRests, NEW r \in Request, MakeRequest(r)
  PROVE  FTrue'
<1>1. /\ asked' = asked \cup {r}
      /\ \/ awaiting' = awaiting \cup {r} /\ idle' = idle /\ had' = had
         \/ awaiting' = awaiting /\ idle' = idle \cup {r} /\ had' = had \cup {r}
      /\ UNCHANGED <<key, tasks, unqueued, errors, called, blamed>>
  BY DEF MakeRequest, MissThumbnail, UseCache, callVars
<1>2. \A x \in Request : Entry(x)' = Entry(x)
  BY <1>1 DEF Entry
<1> QED
  BY <1>1, <1>2 DEF FTrue, Tracked, Explained, DaemonRests, LInv, FactoryTypeOK

LEMMA SameTrue ==
  ASSUME LInv, FTrue, DaemonRests,
         UNCHANGED <<key, tasks, idle, awaiting, asked, had, called, blamed>>,
         unqueued \subseteq unqueued', \A r \in errors' : <<"thumbnail", r>> \in failed
  PROVE  FTrue'
<1>1. \A x \in asked : Entry(x)' = Entry(x)
  BY DEF Entry
<1> QED
  BY <1>1 DEF FTrue, Tracked, Explained, DaemonRests

LEMMA HaveAllTrue ==
  ASSUME LInv, FTrue, DaemonRests, NEW r \in Request, HaveAll(r)
  PROVE  FTrue'
<1>1. /\ r \in idle /\ idle' = idle \ {r} /\ called' = [called EXCEPT ![r] = @ + 1]
      /\ blamed' = IF r \in errors THEN blamed \cup {r} ELSE blamed
      /\ UNCHANGED <<key, tasks, unqueued, errors, awaiting, asked, had>>
  BY DEF HaveAll, CallBack, appVars
<1>2. called \in [Request -> Nat] /\ r \in had /\ asked \subseteq Request
  BY <1>1 DEF LInv, FactoryTypeOK, FTrue, Explained
<1>3. \A x \in Request : called'[x] = IF x = r THEN called[x] + 1 ELSE called[x]
  BY <1>1, <1>2
<1>4. \A x \in Request : Entry(x)' = Entry(x)
  BY <1>1 DEF Entry
<1>5. Tracked'
  BY <1>1 DEF FTrue, Tracked, DaemonRests
<1>6. called'[r] > 0 /\ \A x \in Request : called[x] > 0 => called'[x] > 0
  BY <1>2, <1>3
<1>7. \A x \in asked' : x \in awaiting' \cup idle' \/ Entry(x)' \/ called'[x] > 0 \/ x \in unqueued'
  BY <1>1, <1>2, <1>4, <1>6 DEF FTrue, Explained
<1>8. \A x \in Request : called'[x] > 0 => x \in had' \/ <<"thumbnail", x>> \in served'
  BY <1>1, <1>2, <1>3 DEF FTrue, Explained, DaemonRests
<1>9. Explained'
  BY <1>1, <1>7, <1>8 DEF FTrue, Explained, DaemonRests
<1> QED
  BY <1>5, <1>9 DEF FTrue

\* The reply with the handle of the request's task, which no other has.
LEMMA GotHandleTrue ==
  ASSUME LInv, FTrue, DaemonRests, NEW r \in Request, NEW k \in Handle, r \in awaiting,
         owner[<<"thumbnail", k>>] = r, GotHandle(r, k), UNCHANGED <<asked, had>>
  PROVE  FTrue'
<1>1. awaiting' = awaiting \ {r} /\ UNCHANGED <<unqueued, errors, idle, called, blamed>>
  BY DEF GotHandle, callVars
<1>2. CASE r \in unqueued
  <2>1. UNCHANGED <<key, tasks>>
    BY <1>2 DEF GotHandle
  <2>2. \A x \in asked : Entry(x)' = Entry(x)
    BY <2>1 DEF Entry
  <2> QED
    BY <1>1, <1>2, <2>1, <2>2 DEF FTrue, Tracked, Explained, DaemonRests
<1>3. CASE r \notin unqueued
  <2>1. key' = [key EXCEPT ![r] = k] /\ tasks' = [tasks EXCEPT ![k] = r] /\ k \in Key
    BY <1>3, KeysAreKnown DEF GotHandle
  <2>2. tasks[k] = None
    <3>1. ~Entry(r)
      BY DEF LInv, OneHand
    <3>2. tasks[k] # r
      BY <2>1, <3>1 DEF Entry
    <3> QED
      BY <2>1, <3>2, EntryIsOwners
  <2>3. \A x \in Request : key'[x] = IF x = r THEN k ELSE key[x]
    BY <2>1 DEF LInv, FactoryTypeOK
  <2>4. \A l \in Key : tasks'[l] = IF l = k THEN r ELSE tasks[l]
    BY <2>1 DEF LInv, FactoryTypeOK
  <2>5. \A l \in Key : tasks[l] # None => tasks[l] \in Request /\ tasks[l] # r
    <3>1. ~Entry(r)
      BY DEF LInv, OneHand
    <3> QED
      BY <3>1 DEF Entry, LInv, FactoryTypeOK
  <2>6. Tracked'
    BY <2>3, <2>4, <2>5 DEF FTrue, Tracked, DaemonRests
  <2>7. \A x \in asked : x # None
    BY NoneAssumption DEF LInv, FactoryTypeOK, Request
  <2>8. \A x \in asked : Entry(x)' <=> x = r \/ Entry(x)
    BY <2>1, <2>2, <2>4, <2>7 DEF Entry
  <2>9. Explained'
    BY <1>1, <2>8 DEF FTrue, Explained, DaemonRests
  <2> QED
    BY <2>6, <2>9 DEF FTrue
<1> QED
  BY <1>2, <1>3

LEMMA TaskErrorTrue ==
  ASSUME LInv, FTrue, DaemonRests, NEW h \in Handle, TaskError(h), UNCHANGED <<asked, had>>,
         <<"thumbnail", owner[<<"thumbnail", h>>]>> \in failed
  PROVE  FTrue'
<1>1. /\ errors' = errors \cup ({tasks[h]} \ {None})
      /\ UNCHANGED <<key, tasks, unqueued, idle, awaiting, called, blamed>>
  BY DEF TaskError, callVars
<1>2. \A x \in errors' : <<"thumbnail", x>> \in failed
  <2>1. h \in Key
    BY KeysAreKnown
  <2> QED
    BY <1>1, <2>1, EntryIsOwners DEF FTrue, Explained
<1> QED
  BY <1>1, <1>2, SameTrue

\* Entry k goes, and its request is called back or was unqueued.
LEMMA EntryGone ==
  ASSUME LInv, FTrue, DaemonRests, NEW k \in Key, tasks' = [tasks EXCEPT ![k] = None],
         UNCHANGED <<key, unqueued, errors, idle, awaiting, asked, had>>,
         called' \in [Request -> Nat], \A x \in Request : called[x] > 0 => called'[x] > 0,
         \A x \in Request : called'[x] > 0 => called[x] > 0 \/ <<"thumbnail", x>> \in served,
         \A x \in blamed' : x \in blamed \cup errors,
         tasks[k] = None \/ called'[tasks[k]] > 0 \/ tasks[k] \in unqueued
  PROVE  FTrue'
<1>1. \A l \in Key : tasks'[l] = IF l = k THEN None ELSE tasks[l]
  BY DEF LInv, FactoryTypeOK
<1>2. Tracked'
  BY <1>1 DEF FTrue, Tracked, DaemonRests
<1>3. \A x \in asked : x # None /\ x \in Request
  BY NoneAssumption DEF LInv, FactoryTypeOK, Request
<1>4. \A x \in asked : Entry(x) => Entry(x)' \/ x = tasks[k]
  BY <1>1 DEF Entry
<1>5. \A x \in asked : x \in awaiting \cup idle \/ Entry(x)' \/ called'[x] > 0 \/ x \in unqueued
  BY <1>3, <1>4 DEF FTrue, Explained
<1>6. Explained'
  BY <1>5 DEF FTrue, Explained, DaemonRests
<1> QED
  BY <1>2, <1>6 DEF FTrue

LEMMA TaskFinishedTrue ==
  ASSUME LInv, FTrue, DaemonRests, NEW h \in Handle, TaskFinished(h), UNCHANGED <<asked, had>>,
         owner[<<"thumbnail", h>>] # None => <<"thumbnail", owner[<<"thumbnail", h>>]>> \in served
  PROVE  FTrue'
<1>0. h \in Key
  BY KeysAreKnown
<1>1. CASE tasks[h] = None
  <2>1. UNCHANGED <<key, tasks, idle, awaiting, called, blamed, unqueued, errors>>
    BY <1>1 DEF TaskFinished, libVars, callVars
  <2> QED
    BY <2>1, SameTrue DEF FTrue, Explained
<1>2. CASE tasks[h] # None
  <2> DEFINE r == tasks[h]
  <2>1. r \in Request /\ <<"thumbnail", r>> \in served
    BY <1>0, <1>2, NoneAssumption, EntryIsOwners DEF Request
  <2>2. /\ tasks' = [tasks EXCEPT ![h] = None]
        /\ UNCHANGED <<key, unqueued, errors, idle, awaiting>>
        /\ IF r \notin unqueued THEN CallBack(r) ELSE UNCHANGED <<called, blamed>>
    BY <1>2 DEF TaskFinished, RunsCallback, Removed, callVars
  <2>3. called \in [Request -> Nat]
    BY DEF LInv, FactoryTypeOK
  <2> HIDE DEF r
  <2>4. /\ called' \in [Request -> Nat] /\ \A x \in Request : called[x] > 0 => called'[x] > 0
        /\ \A x \in Request : called'[x] > 0 => called[x] > 0 \/ <<"thumbnail", x>> \in served
        /\ \A x \in blamed' : x \in blamed \cup errors
        /\ called'[r] > 0 \/ r \in unqueued
    <3>1. CASE r \in unqueued
      BY <2>2, <2>3, <3>1
    <3>2. CASE r \notin unqueued
      <4>1. called' = [called EXCEPT ![r] = @ + 1]
            /\ blamed' = IF r \in errors THEN blamed \cup {r} ELSE blamed
        BY <2>2, <3>2 DEF CallBack
      <4> QED
        BY <2>1, <2>3, <4>1
    <3> QED
      BY <3>1, <3>2
  <2> QED
    BY <1>0, <2>2, <2>4, EntryGone DEF r
<1> QED
  BY <1>1, <1>2

LEMMA UnqueueTimesOutTrue ==
  ASSUME LInv, FTrue, DaemonRests, NEW r \in Request, UnqueueTimesOut(r)
  PROVE  FTrue'
<1>1. /\ r \in unqueueing /\ tasks' = [tasks EXCEPT ![key[r]] = None]
      /\ UNCHANGED <<key, unqueued, errors, idle, awaiting, asked, had, called, blamed>>
  BY DEF UnqueueTimesOut, Removed, appVars, NotCalled, callVars
<1>2. key[r] # NoKey /\ key[r] \in Key /\ r \in unqueued /\ called \in [Request -> Nat]
  BY <1>1 DEF LInv, OneHand, FactoryTypeOK
<1>3. tasks[key[r]] \in {r, None}
  BY <1>2, EntryIsOwners DEF FTrue, Tracked
<1> QED
  BY <1>1, <1>2, <1>3, EntryGone

\* A message that was sent in such a world.
LEMMA ReceivesTrue ==
  ASSUME LInv, FTrue, DaemonRests, NEW m \in Sound({"thumbnail"}), Receives(m),
         UNCHANGED <<appVars, had>>
  PROVE  FTrue'
<1>1. m \in Message /\ m.msg # "noreply" /\ From(m) = "thumbnail"
  BY DEF Sound
<1>2. UNCHANGED <<asked, had>>
  BY DEF appVars
<1>3. CASE m.msg = "reply"
  <2>1. m.handle \in Handle /\ owner[<<"thumbnail", m.handle>>] = m.call[2]
    BY <1>1, <1>3 DEF Sound, Message, From
  <2>2. IF m.call[2] \in awaiting THEN GotHandle(m.call[2], m.handle) ELSE TooLate
    BY <1>3 DEF Receives
  <2>3. CASE m.call[2] \in awaiting
    <3>1. m.call[2] \in Request
      BY <2>3 DEF LInv, FactoryTypeOK
    <3> QED
      BY <1>2, <2>1, <2>2, <2>3, <3>1, GotHandleTrue
  <2>4. CASE TooLate
    BY <1>2, <2>4, SameTrue DEF TooLate, libVars, callVars, FTrue, Explained
  <2> QED
    BY <2>2, <2>3, <2>4
<1>4. CASE m.msg = "Error"
  <2>1. m.task \in Task /\ m.task[1] = "thumbnail" /\ CallOf(m.task) \in failed
        /\ TaskError(m.task[2])
    BY <1>1, <1>4 DEF Sound, Message, From, Receives
  <2>2. m.task[2] \in Handle /\ m.task = <<"thumbnail", m.task[2]>>
    BY <2>1 DEF Task
  <2>3. <<"thumbnail", owner[<<"thumbnail", m.task[2]>>]>> \in failed
    BY <2>1, <2>2 DEF CallOf
  <2> QED
    BY <1>2, <2>1, <2>2, <2>3, TaskErrorTrue
<1>5. CASE m.msg = "Finished"
  <2>1. m.task \in Task /\ m.task[1] = "thumbnail" /\ (Own(m.task) => CallOf(m.task) \in served)
        /\ TaskFinished(m.task[2])
    BY <1>1, <1>5 DEF Sound, Message, From, Receives
  <2>2. m.task[2] \in Handle /\ m.task = <<"thumbnail", m.task[2]>>
    BY <2>1 DEF Task
  <2>3. owner[<<"thumbnail", m.task[2]>>] # None
          => <<"thumbnail", owner[<<"thumbnail", m.task[2]>>]>> \in served
    BY <2>1, <2>2 DEF CallOf, Own
  <2> QED
    BY <1>2, <2>1, <2>2, <2>3, TaskFinishedTrue
<1> QED
  BY <1>1, <1>3, <1>4, <1>5 DEF Message

LEMMA ElsewhereTrue ==
  ASSUME FTrue, "thumbnail" \in Service, Steady({"thumbnail"}), TasksStay,
         UNCHANGED <<libVars, appVars, had, callVars>>
  PROVE  FTrue'
<1>1. UNCHANGED <<key, tasks, idle, awaiting, asked, had, called, blamed, unqueued, errors>>
  BY DEF libVars, appVars, callVars
<1>2. \A r \in Request, k \in Handle :
        owner[<<"thumbnail", k>>] = r => owner'[<<"thumbnail", k>>] = r
  <2> TAKE r \in Request, k \in Handle
  <2>1. <<"thumbnail", k>> \in Task /\ r # None
    BY NoneAssumption DEF Task, Request
  <2> QED
    BY <2>1 DEF TasksStay, Steady, Own
<1>3. served \subseteq served' /\ failed \subseteq failed'
  BY DEF TasksStay
<1>4. \A r \in asked : Entry(r)' = Entry(r)
  BY <1>1 DEF Entry
<1> QED
  BY <1>1, <1>2, <1>3, <1>4 DEF FTrue, Tracked, Explained

\* Every step of the requests and of the daemon, in such a world.
LEMMA NextTrue ==
  ASSUME "thumbnail" \in Service, IInv, world # "rough", Steady({"thumbnail"}), FTrue,
         [Next]_vars
  PROVE  Steady({"thumbnail"})' /\ FTrue'
<1>1. DaemonTypeOK /\ Owes /\ LInv /\ {"thumbnail"} \in SUBSET Service
  BY DEF IInv
<1>2. CASE Elsewhere
  <2>1. Daemon({"thumbnail"}) /\ UNCHANGED <<libVars, appVars, had, callVars>>
    BY <1>2 DEF Elsewhere
  <2>2. Steady({"thumbnail"})' /\ TasksStay
    BY <1>1, <2>1, DaemonSteady
  <2> QED
    BY <2>1, <2>2, ElsewhereTrue
<1>3. ASSUME UNCHANGED world, UNCHANGED daemonVars, MessageTaken,
             calls' = calls \/ \E r \in Request : calls' = Append(calls, <<"thumbnail", r>>)
      PROVE  Steady({"thumbnail"})' /\ DaemonRests
  <2>1. \A r \in Request : <<"thumbnail", r>> \in {"thumbnail"} \X Caller
    BY DEF Request
  <2>2. Steady({"thumbnail"})'
    BY <1>1, <1>3, <2>1, EndSteady
  <2>3. DaemonRests
    BY <1>3 DEF DaemonRests, daemonVars
  <2> QED
    BY <2>2, <2>3
<1>4. ASSUME UNCHANGED busVars PROVE Steady({"thumbnail"})' /\ DaemonRests
  <2>1. UNCHANGED world /\ UNCHANGED daemonVars /\ calls' = calls /\ MessageTaken
    BY <1>4 DEF busVars, MessageTaken
  <2> QED
    BY <1>3, <2>1
<1>5. ASSUME NEW r \in Request, MakeRequest(r)
      PROVE  Steady({"thumbnail"})' /\ FTrue'
  <2>1. /\ UNCHANGED world /\ UNCHANGED daemonVars /\ MessageTaken
        /\ calls' = calls \/ calls' = Append(calls, <<"thumbnail", r>>)
    BY <1>5 DEF MakeRequest, MissThumbnail, UseCache, AskDaemon, busVars, MessageTaken
  <2>2. Steady({"thumbnail"})' /\ DaemonRests
    BY <1>3, <2>1
  <2> QED
    BY <1>1, <1>5, <2>2, MakeTrue
<1>6. ASSUME NEW r \in Request, HaveAll(r) \/ UnqueueTimesOut(r)
      PROVE  Steady({"thumbnail"})' /\ FTrue'
  <2>1. UNCHANGED busVars
    BY <1>6 DEF HaveAll, UnqueueTimesOut
  <2> QED
    BY <1>1, <1>4, <1>6, <2>1, HaveAllTrue, UnqueueTimesOutTrue
<1>7. ASSUME UNCHANGED busVars,
             UNCHANGED <<key, tasks, idle, awaiting, asked, had, called, blamed, errors>>,
             unqueued \subseteq unqueued'
      PROVE  Steady({"thumbnail"})' /\ FTrue'
  BY <1>1, <1>4, <1>7, SameTrue DEF FTrue, Explained
<1>8. ASSUME NEW r \in Request, Unqueue(r) \/ Release(r)
      PROVE  Steady({"thumbnail"})' /\ FTrue'
  BY <1>7, <1>8 DEF Unqueue, Release, appVars, NotCalled, callVars
<1>9. ASSUME NEW r \in Request \cup {None}, Join(r) \/ JoinFlag \/ JoinReturns
      PROVE  Steady({"thumbnail"})' /\ FTrue'
  BY <1>7, <1>9 DEF Join, JoinFlag, JoinReturns, libVars, NotCalled, callVars
<1>10. ASSUME NEW r \in Request, QueueTimesOut(r) PROVE FALSE
  BY <1>10 DEF QueueTimesOut, MayFail
<1>11. CASE Dispatch
  <2>1. wire # <<>> /\ wire' = Tail(wire) /\ calls' = calls
        /\ UNCHANGED world /\ UNCHANGED daemonVars
        /\ Receives(Head(wire)) /\ UNCHANGED <<appVars, had>>
    BY <1>11 DEF Dispatch, TakeMessage, Receives
  <2>2. Head(wire) \in Sound({"thumbnail"})
    BY <2>1, SequencesTyped DEF Steady
  <2>3. Steady({"thumbnail"})' /\ DaemonRests
    BY <1>3, <2>1 DEF MessageTaken
  <2> QED
    BY <1>1, <2>1, <2>2, <2>3, ReceivesTrue
<1>12. CASE UNCHANGED vars
  BY <1>7, <1>12 DEF vars, libVars, appVars, callVars
<1> QED
  BY <1>2, <1>5, <1>6, <1>8, <1>9, <1>10, <1>11, <1>12 DEF Next, Application, Loop

LEMMA WorldStays == [Next]_vars => world' = world
<1>1. Daemon({"thumbnail"}) => world' = world
  BY DEF Daemon, Serve, ServeQueue, Accept, Reply, ServeOther, SendError, SendFinished,
           Exit, Restart
<1>2. UNCHANGED busVars => world' = world
  BY DEF busVars
<1>3. Application => world' = world
  BY <1>2 DEF Application, MakeRequest, MissThumbnail, UseCache, AskDaemon, Unqueue,
           Release, Join
<1>4. Loop => world' = world
  BY <1>2 DEF Loop, JoinFlag, JoinReturns, HaveAll, QueueTimesOut, UnqueueTimesOut,
           Dispatch, TakeMessage
<1> QED
  BY <1>1, <1>2, <1>3, <1>4 DEF Next, Elsewhere, vars

\* An application that waits for each reply has one call or idle source under
\* way, and none when a join looks at the table.
Orderly ==
  world = "orderly" =>
    /\ ~waiting => awaiting \cup idle = {}
    /\ \A r, x \in awaiting \cup idle : r = x
    /\ join = "table" => awaiting \cup idle = {}

LEMMA NextOrderly ==
  ASSUME "thumbnail" \in Service, IInv, Orderly, [Next]_vars
  PROVE  Orderly'
<1>1. world' = world /\ LInv
  BY WorldStays DEF IInv
<1>2. CASE UNCHANGED <<waiting, awaiting, idle, join>>
  BY <1>1, <1>2 DEF Orderly
<1>3. ASSUME NEW r \in Request, MakeRequest(r)
      PROVE  Orderly'
  <2>1. /\ waiting' = TRUE /\ awaiting' \cup idle' = awaiting \cup idle \cup {r}
        /\ join' = join /\ join = "no" /\ (world = "orderly" => ~waiting)
    BY <1>3 DEF MakeRequest, MissThumbnail, UseCache, Serial
  <2> QED
    BY <1>1, <2>1 DEF Orderly
<1>4. ASSUME NEW r \in Request, HaveAll(r)
      PROVE  Orderly'
  <2>1. r \in idle /\ idle' = idle \ {r} /\ awaiting' = awaiting /\ join' = join
    BY <1>4 DEF HaveAll, appVars
  <2>2. r \notin awaiting
    BY <2>1 DEF IInv, LInv, OneHand
  <2>3. world = "orderly" => awaiting' \cup idle' = {}
    BY <2>1, <2>2 DEF Orderly
  <2> QED
    BY <1>1, <2>3 DEF Orderly
<1>5. ASSUME NEW r, NEW k, r \in awaiting, GotHandle(r, k), join' = join
      PROVE  Orderly'
  <2>1. awaiting' = awaiting \ {r} /\ idle' = idle
    BY <1>5 DEF GotHandle
  <2>2. r \notin idle
    BY <1>1, <1>5 DEF LInv, OneHand, FactoryTypeOK
  <2>3. world = "orderly" => awaiting' \cup idle' = {}
    BY <1>5, <2>1, <2>2 DEF Orderly
  <2> QED
    BY <1>1, <2>3 DEF Orderly
<1>6. ASSUME NEW r \in Request, Unqueue(r) \/ Release(r) \/ UnqueueTimesOut(r)
      PROVE  Orderly'
  BY <1>2, <1>6 DEF Unqueue, Release, UnqueueTimesOut, appVars
<1>7. CASE (\E r \in Request \cup {None} : Join(r)) \/ JoinFlag \/ JoinReturns
  <2>1. UNCHANGED <<waiting, awaiting, idle>>
    BY <1>7 DEF Join, JoinFlag, JoinReturns, libVars
  <2>2. join' = "table" => ~waiting
    BY <1>7 DEF Join, JoinFlag, JoinReturns, FlagDown
  <2> QED
    BY <1>1, <2>1, <2>2 DEF Orderly
<1>8. ASSUME NEW r \in Request, QueueTimesOut(r)
      PROVE  Orderly'
  BY <1>5, <1>8 DEF QueueTimesOut, appVars
<1>9. CASE Dispatch
  <2> DEFINE m == Head(wire)
  <2>1. wire # <<>> /\ wire \in Seq(Message) /\ Receives(m) /\ join' = join
    BY <1>9 DEF Dispatch, TakeMessage, Receives, appVars, IInv, DaemonTypeOK
  <2>2. m \in Message
    BY <2>1, SequencesTyped
  <2> HIDE DEF m
  <2>3. m.msg \in {"reply", "noreply", "Error", "Finished"}
    BY <2>2 DEF Message
  <2>4. \/ TooLate \/ TaskError(m.task[2]) \/ TaskFinished(m.task[2])
        \/ \E r, k : r \in awaiting /\ GotHandle(r, k)
    BY <2>1, <2>3 DEF Receives
  <2>5. CASE TooLate \/ TaskError(m.task[2]) \/ TaskFinished(m.task[2])
    BY <1>2, <2>1, <2>5 DEF TooLate, TaskError, TaskFinished, libVars
  <2> QED
    BY <1>5, <2>1, <2>4, <2>5
<1>10. CASE Elsewhere \/ UNCHANGED vars
  BY <1>2, <1>10 DEF Elsewhere, vars, libVars, appVars
<1> QED
  BY <1>3, <1>4, <1>6, <1>7, <1>8, <1>9, <1>10 DEF Next, Application, Loop

\* All of it: FInv is inductive.
FInv == IInv /\ Orderly /\ (world # "rough" => Steady({"thumbnail"}) /\ FTrue)

LEMMA InitFInv ==
  ASSUME "thumbnail" \in Service, Init
  PROVE  FInv
<1>1. IInv
  BY InitIInv
<1>2. Steady({"thumbnail"})
  BY InitSteady DEF Init
<1>3. Orderly /\ FTrue
  BY DEF Init, Orderly, FTrue, Tracked, Explained
<1> QED
  BY <1>1, <1>2, <1>3 DEF FInv

LEMMA NextFInv ==
  ASSUME "thumbnail" \in Service, FInv, [Next]_vars
  PROVE  FInv'
<1>1. IInv' /\ Orderly'
  BY NextIInv, NextOrderly DEF FInv
<1>2. world' # "rough" => Steady({"thumbnail"})' /\ FTrue'
  BY WorldStays, NextTrue DEF FInv
<1> QED
  BY <1>1, <1>2 DEF FInv

LEMMA FInvMeans ==
  ASSUME FInv
  PROVE  RefsBalance /\ CalledBackAtMostOnce /\ CalledBackForItsOwnTask /\ JoinIsComplete
<1>1. IInv /\ LInv
  BY DEF FInv, IInv
<1>2. RefsBalance
  <2>1. TypeOK
    BY <1>1, TypeSplit DEF IInv, LInv
  <2>2. ASSUME NEW r \in asked
        PROVE  refs[r] = One(r \in held) + One(r \in awaiting) + One(r \in idle)
                         + One(r \in unqueueing) + Cardinality(Keys(r))
    <3>1. r \in Request /\ refs[r] = Held(r)
      BY <1>1 DEF LInv, FactoryTypeOK, Balance
    <3>2. Cardinality(Keys(r)) = One(Entry(r))
      BY <1>1, <3>1, KeysCounted DEF LInv
    <3> QED
      BY <3>1, <3>2 DEF Held
  <2> QED
    BY <2>1, <2>2 DEF RefsBalance
<1>3. CalledBackAtMostOnce
  <2> SUFFICES ASSUME NEW r \in Request
               PROVE  /\ called[r] <= 1
                      /\ Cardinality(Keys(r)) <= 1
                      /\ called[r] = 1 => r \notin awaiting \cup idle /\ Keys(r) = {}
    BY DEF CalledBackAtMostOnce
  <2>1. Cardinality(Keys(r)) = One(Entry(r))
    BY <1>1, KeysCounted DEF LInv
  <2>2. Cardinality(Keys(r)) <= 1
    BY <2>1 DEF One
  <2>3. called[r] <= 1 /\ (called[r] = 1 => r \notin awaiting \cup idle /\ ~Entry(r))
    BY <1>1 DEF LInv, OneHand
  <2>4. ~Entry(r) => Keys(r) = {}
    BY DEF Entry, Keys
  <2> QED
    BY <2>2, <2>3, <2>4
<1>4. CalledBackForItsOwnTask
  BY DEF FInv, FTrue, Explained, CalledBackForItsOwnTask
<1>5. ASSUME world = "orderly", JoinReturns, joined = None, NEW r \in asked
      PROVE  called[r] > 0 \/ r \in unqueued
  <2>1. awaiting \cup idle = {} /\ \A k \in Key : tasks[k] = None
    BY <1>5 DEF FInv, Orderly, JoinReturns, NothingToJoin
  <2>2. r # None
    BY <1>1, NoneAssumption DEF LInv, FactoryTypeOK, Request
  <2> QED
    BY <1>5, <2>1, <2>2 DEF FInv, FTrue, Explained, Entry
<1> QED
  BY <1>2, <1>3, <1>4, <1>5 DEF JoinIsComplete

-----------------------------------------------------------------------------
(* Theorems.                                                                 *)

\* The invariant holds in every state the requests and the daemon reach.
THEOREM FactoryInductive ==
  ASSUME "thumbnail" \in Service
  PROVE  Spec => []FInv
<1>1. Init => FInv
  BY InitFInv
<1>2. FInv /\ [Next]_vars => FInv'
  BY NextFInv
<1> QED
  BY <1>1, <1>2, PTL DEF Spec

\* A HildonThumbnailRequest's reference count is the number of those who hold
\* one, for any number of requests: no late reply, no Finished for a handle of
\* before and no timeout of an Unqueue call unrefs it once too often or too few.
THEOREM RefsBalanced ==
  ASSUME "thumbnail" \in Service
  PROVE  Spec => []RefsBalance
<1>1. FInv => RefsBalance
  BY FInvMeans
<1> QED
  BY <1>1, FactoryInductive, PTL

\* A request's callback never runs twice, and the table of tasks never holds it
\* under two handles, garbage or not (on_got_handle, on_task_finished).
THEOREM RequestCalledBackOnce ==
  ASSUME "thumbnail" \in Service
  PROVE  Spec => []CalledBackAtMostOnce
<1>1. FInv => CalledBackAtMostOnce
  BY FInvMeans
<1> QED
  BY <1>1, FactoryInductive, PTL

\* While the daemon stays up, no signal of another client's task reaches a
\* request's callback (on_task_finished, on_task_error), and no error of one.
THEOREM RequestForItsOwnTask ==
  ASSUME "thumbnail" \in Service
  PROVE  Spec => []CalledBackForItsOwnTask
<1>1. FInv => CalledBackForItsOwnTask
  BY FInvMeans
<1> QED
  BY <1>1, FactoryInductive, PTL

\* hildon_thumbnail_factory_join returns to an application that waited for its
\* replies only when each request was called back or unqueued.
THEOREM RequestsJoined ==
  ASSUME "thumbnail" \in Service
  PROVE  Spec => JoinMeansCompleted
<1>1. FInv => JoinIsComplete
  BY FInvMeans
<1> QED
  BY <1>1, FactoryInductive, PTL DEF JoinMeansCompleted
=============================================================================
