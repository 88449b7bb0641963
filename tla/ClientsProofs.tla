----------------------------- MODULE ClientsProofs -----------------------------
(***************************************************************************)
(* Proofs about the applications of the client libraries (Clients): the    *)
(* older calls of both libraries (Loads), album art requests (ArtRequests) *)
(* and thumbnail requests (ThumbFactory), in each of the worlds, for any   *)
(* items, requests, tasks, lives of the daemon and garbage handles.        *)
(*                                                                         *)
(* CInv is the inductive invariant, with a part for each client:           *)
(*                                                                         *)
(*   - of the older calls, IInv says who owns an item in every world, LTrue*)
(*     why each item is where it is when no call fails, and Orderly what   *)
(*     an application knows that waits for each reply;                     *)
(*   - of album art, AInv says who refers to the two objects of a request, *)
(*     ATrue and ArtOrderly as above, on top of IInv and LTrue for the     *)
(*     loads of its thumbnails;                                            *)
(*   - of thumbnail requests, ThumbFactoryProofs' FInv, used through an    *)
(*     INSTANCE of that module.                                            *)
(*                                                                         *)
(* The first part is about Loads alone.  OwnedOnce is not inductive: it    *)
(* does not say that an entry of the table is found under its item's       *)
(* handle, so that the entry a cancel removes is the only one, nor that an *)
(* item with a call under way has no handle yet, so that no cancel finds   *)
(* it.  IInv is.                                                           *)
(***************************************************************************)
EXTENDS Clients, BusInvariants, FiniteSetTheorems, TLAPS

-----------------------------------------------------------------------------
(* The daemon on the bus.  What ThumbFactoryProofs has proved of its steps   *)
(* holds of the same daemon here, under this module's names.                 *)

Factory == INSTANCE ThumbFactoryProofs WITH
  key <- handleId,
  awaiting <- pending,
  refs <- realRefs

LEMMA SameTypes ==
  /\ Factory!DaemonTypeOK <=> DaemonTypeOK
  /\ Factory!DaemonTypeOK' <=> DaemonTypeOK'
  /\ Factory!Owes <=> Owes
  /\ Factory!Owes' <=> Owes'
<1>1. Factory!DaemonTypeOK <=> DaemonTypeOK
  BY Zenon DEF DaemonTypeOK, Factory!DaemonTypeOK, Message, Factory!Message, Call,
           Factory!Call, Task, Factory!Task, Handle, Factory!Handle
<1>2. Factory!DaemonTypeOK' <=> DaemonTypeOK'
  BY Zenon DEF DaemonTypeOK, Factory!DaemonTypeOK, Message, Factory!Message, Call,
           Factory!Call, Task, Factory!Task, Handle, Factory!Handle
<1>3. (Factory!Owes <=> Owes) /\ (Factory!Owes' <=> Owes')
  BY Zenon DEF Owes, Factory!Owes
<1> QED
  BY <1>1, <1>2, <1>3

LEMMA SameDaemonSteps ==
  ASSUME NEW S
  PROVE  Factory!Daemon(S) <=> Daemon(S)
BY Zenon DEF Daemon, Factory!Daemon, Serve, Factory!Serve, ServeQueue,
         Factory!ServeQueue, Accept, Factory!Accept, NewHandle, Factory!NewHandle,
         TaskLimit, Factory!TaskLimit, MayFail, Factory!MayFail, Reply, Factory!Reply,
         ServeOther, Factory!ServeOther, CallOf, Factory!CallOf, Own, Factory!Own,
         SendError, Factory!SendError, Finished, Factory!Finished, SendFinished,
         Factory!SendFinished, Exit, Factory!Exit, Restart, Factory!Restart, Task,
         Factory!Task, Handle, Factory!Handle

LEMMA SameSteady ==
  ASSUME NEW S
  PROVE  /\ Factory!Steady(S) <=> Steady(S)
         /\ Factory!Steady(S)' <=> Steady(S)'
<1>1. Factory!Steady(S) <=> Steady(S)
  BY Zenon DEF Steady, Factory!Steady, Sound, Factory!Sound, From, Factory!From,
           Message, Factory!Message, Call, Factory!Call, Task, Factory!Task, Handle,
           Factory!Handle, Own, Factory!Own, CallOf, Factory!CallOf
<1>2. Factory!Steady(S)' <=> Steady(S)'
  BY Zenon DEF Steady, Factory!Steady, Sound, Factory!Sound, From, Factory!From,
           Message, Factory!Message, Call, Factory!Call, Task, Factory!Task, Handle,
           Factory!Handle, Own, Factory!Own, CallOf, Factory!CallOf
<1> QED
  BY <1>1, <1>2

LEMMA SameTasksStay == Factory!TasksStay <=> TasksStay
BY Zenon DEF TasksStay, Factory!TasksStay, Task, Factory!Task, Handle, Factory!Handle

LEMMA SameInit == Factory!DaemonInit <=> DaemonInit
BY Zenon DEF DaemonInit, Factory!DaemonInit, Task, Factory!Task, Handle, Factory!Handle

\* A handle is not NoKey, whether the daemon gave it or it is garbage.
LEMMA KeysAreKnown == NoKey \notin Key /\ Garbage \subseteq Key /\ Handle \subseteq Key
BY GarbageAssumption, TasksAssumption DEF NoKey, Key, Handle

LEMMA SequencesTyped ==
  ASSUME NEW S, NEW s \in Seq(S)
  PROVE  /\ \A x \in S : Append(s, x) \in Seq(S)
         /\ \A t \in Seq(S) : s \o t \in Seq(S)
         /\ s # <<>> => Head(s) \in S /\ Tail(s) \in Seq(S)
BY Factory!SequencesTyped

LEMMA DaemonInitTyped == DaemonInit => DaemonTypeOK /\ Owes
BY SameInit, SameTypes, Factory!DaemonInitTyped, ServiceAssumption, NoneAssumption, TasksAssumption, LivesAssumption,
     GarbageAssumption, WorldAssumption DEF World, Factory!World

\* The daemon's own steps, whatever services are looked at.
LEMMA DaemonSteps ==
  ASSUME DaemonTypeOK, Owes, NEW S \in SUBSET Service, Daemon(S)
  PROVE  DaemonTypeOK' /\ Owes'
<1>1. Factory!DaemonTypeOK /\ Factory!Owes /\ Factory!Daemon(S)
  BY SameTypes, SameDaemonSteps
<1>2. Factory!DaemonTypeOK' /\ Factory!Owes'
  BY <1>1, Factory!DaemonSteps, ServiceAssumption, NoneAssumption, TasksAssumption, LivesAssumption,
     GarbageAssumption, WorldAssumption DEF World, Factory!World
<1> QED
  BY <1>2, SameTypes

\* The library's.
LEMMA EndTyped ==
  ASSUME DaemonTypeOK, Owes, UNCHANGED world, UNCHANGED daemonVars, CallLeaves, MessageTaken
  PROVE  DaemonTypeOK' /\ Owes'
<1>1. Factory!DaemonTypeOK /\ Factory!Owes
  BY SameTypes
<1>2. UNCHANGED Factory!daemonVars /\ Factory!CallLeaves /\ Factory!MessageTaken
  BY Zenon DEF daemonVars, Factory!daemonVars, CallLeaves, Factory!CallLeaves, Call,
           Factory!Call, MessageTaken, Factory!MessageTaken
<1>3. Factory!DaemonTypeOK' /\ Factory!Owes'
  BY <1>1, <1>2, Factory!EndTyped, ServiceAssumption, NoneAssumption, TasksAssumption, LivesAssumption,
     GarbageAssumption, WorldAssumption DEF World, Factory!World
<1> QED
  BY <1>3, SameTypes

\* The same where no call fails.
LEMMA InitSteady ==
  ASSUME DaemonInit, NEW S \in SUBSET Service
  PROVE  Steady(S)
<1>1. Factory!Steady(S)
  BY SameInit, Factory!InitSteady, ServiceAssumption, NoneAssumption, TasksAssumption, LivesAssumption,
     GarbageAssumption, WorldAssumption DEF World, Factory!World
<1> QED
  BY <1>1, SameSteady

LEMMA DaemonSteady ==
  ASSUME DaemonTypeOK, Owes, world # "rough", NEW S \in SUBSET Service, Steady(S),
         NEW A \in SUBSET S, Daemon(A)
  PROVE  Steady(S)' /\ TasksStay
<1>1. Factory!DaemonTypeOK /\ Factory!Owes /\ Factory!Steady(S) /\ Factory!Daemon(A)
  BY SameTypes, SameSteady, SameDaemonSteps
<1>2. Factory!Steady(S)' /\ Factory!TasksStay
  BY <1>1, Factory!DaemonSteady, ServiceAssumption, NoneAssumption, TasksAssumption, LivesAssumption,
     GarbageAssumption, WorldAssumption DEF World, Factory!World
<1> QED
  BY <1>2, SameSteady, SameTasksStay

LEMMA EndSteady ==
  ASSUME DaemonTypeOK, NEW S \in SUBSET Service, Steady(S), UNCHANGED world,
         UNCHANGED daemonVars, MessageTaken,
         calls' = calls \/ \E c \in S \X Caller : calls' = Append(calls, c)
  PROVE  Steady(S)' /\ TasksStay
<1>1. Factory!DaemonTypeOK /\ Factory!Steady(S)
  BY SameTypes, SameSteady
<1>2. UNCHANGED Factory!daemonVars /\ Factory!MessageTaken
  BY Zenon DEF daemonVars, Factory!daemonVars, MessageTaken, Factory!MessageTaken
<1>3. Factory!Steady(S)' /\ Factory!TasksStay
  BY <1>1, <1>2, Factory!EndSteady, ServiceAssumption, NoneAssumption, TasksAssumption, LivesAssumption,
     GarbageAssumption, WorldAssumption DEF World, Factory!World
<1> QED
  BY <1>3, SameSteady, SameTasksStay

-----------------------------------------------------------------------------
(* The older calls.                                                          *)

\* Of the table: an item is entered under its handle, and is nowhere else.
Entered ==
  \A k \in Key : tasks[k] # None =>
    /\ handleId[tasks[k]] = k
    /\ tasks[k] \in asked \ (freed \cup pending \cup idle)
    /\ called[tasks[k]] = 0
    /\ lib = "thumbnail" => tasks[k] \notin cancelled

\* Of those who wait for a reply or an idle source: nothing has happened to them.
Awaited ==
  /\ pending \cap idle = {}
  /\ \A i \in pending \cup idle :
       /\ handleId[i] = NoKey
       /\ called[i] = 0
       /\ i \notin freed \cup cancelled \cup cancelling

\* Of every item, from before it is made until after it is freed.
Fates ==
  \A i \in Item :
    /\ called[i] <= 1
    /\ i \notin asked => handleId[i] = NoKey /\ called[i] = 0
    /\ lib = "thumbnail" /\ i \in cancelled => called[i] = 0
    /\ i \in cancelling => handleId[i] # NoKey
    /\ i \in freed /\ called[i] = 0 => handleId[i] # NoKey

IInv == TypeOK /\ Owes /\ Entered /\ Awaited /\ Fates

-----------------------------------------------------------------------------
(* Lemmas.                                                                   *)

\* The types of the library's own variables, and the rest of IInv.
LoadsTypeOK ==
  /\ lib \in Libraries
  /\ handleId \in [Item -> Key \cup {NoKey}]
  /\ tasks \in [Key -> Item \cup {None}]
  /\ waiting \in BOOLEAN
  /\ wait \in {"no", "flag", "table"}
  /\ pending \subseteq asked /\ idle \subseteq asked /\ cancelling \subseteq asked
  /\ freed \subseteq asked /\ errors \subseteq asked /\ had \subseteq asked
  /\ cancelled \subseteq asked /\ blamed \subseteq asked
  /\ asked \subseteq Item
  /\ called \in [Item -> Nat]
  /\ misread \in BOOLEAN

LEMMA TypeSplit == TypeOK <=> DaemonTypeOK /\ LoadsTypeOK
<1>1. TypeOK => DaemonTypeOK /\ LoadsTypeOK
  BY DEF TypeOK, LoadsTypeOK
<1>2. DaemonTypeOK /\ LoadsTypeOK => TypeOK
  BY DEF TypeOK, LoadsTypeOK
<1> QED
  BY <1>1, <1>2

LInv == LoadsTypeOK /\ Entered /\ Awaited /\ Fates

\* A load is an item nobody knows yet.
LEMMA LoadKeeps ==
  ASSUME LInv, NEW i \in Item, Load(i)
  PROVE  LInv'
<1> USE DEF LInv
<1>1. /\ i \notin asked /\ asked' = asked \cup {i}
      /\ pending' \cup idle' = pending \cup idle \cup {i}
      /\ \/ pending' = pending /\ idle' = idle \cup {i}
         \/ pending' = pending \cup {i} /\ idle' = idle
      /\ UNCHANGED <<lib, handleId, freed, errors, tasks, cancelling, wait, cancelled,
                     misread, called, blamed>>
      /\ had' \in {had, had \cup {i}} /\ waiting' \in {TRUE, waiting}
  BY DEF Load, FindAll, Miss, itemVars, callVars
<1>2. LoadsTypeOK'
  BY <1>1 DEF LoadsTypeOK
<1>3. Entered'
  BY <1>1 DEF Entered, LoadsTypeOK
<1>4. Awaited'
  BY <1>1 DEF Awaited, Fates, LoadsTypeOK
<1>5. Fates'
  BY <1>1 DEF Fates, LoadsTypeOK
<1> QED
  BY <1>2, <1>3, <1>4, <1>5

\* What a cancel or its timeout reads from an item is a key.
LEMMA HandleRead ==
  ASSUME LInv, NEW i \in Item, NEW k \in ReadHandle(i)
  PROVE  /\ k \in Key \cup {NoKey}
         /\ i \notin freed => k = handleId[i]
BY KeysAreKnown DEF ReadHandle, LInv, LoadsTypeOK

\* An item that may be cancelled, and whose handle reads as one, has no call
\* under way and no idle source.
LEMMA HandleMeansEntered ==
  ASSUME LInv, NEW i \in Item, NEW k \in ReadHandle(i), k # NoKey, called[i] = 0
  PROVE  i \notin pending \cup idle /\ handleId[i] # NoKey
BY HandleRead DEF LInv, Awaited, Fates

\* Entry k goes and its item is freed.
LEMMA RemovalKeeps ==
  ASSUME LInv, NEW k \in Key, tasks' = EntryRemoved(k), freed' = FreedWith(k),
         UNCHANGED <<lib, handleId, asked, pending, idle>>
  PROVE  /\ freed' \subseteq asked
         /\ tasks' \in [Key -> Item \cup {None}]
         /\ \A l \in Key : tasks'[l] # None =>
              /\ l # k /\ tasks'[l] = tasks[l]
              /\ handleId[tasks[l]] = l
              /\ tasks[l] \in asked \ (freed' \cup pending \cup idle)
              /\ called[tasks[l]] = 0
              /\ lib = "thumbnail" => tasks[l] \notin cancelled
         /\ \A i \in pending \cup idle : i \notin freed'
         /\ \A i \in freed' \ freed : i = tasks[k] /\ handleId[i] # NoKey
<1> USE DEF LInv, EntryRemoved, FreedWith
<1>1. tasks' \in [Key -> Item \cup {None}] /\ freed' \subseteq asked
  BY DEF LoadsTypeOK, Entered
<1>2. ASSUME NEW l \in Key, tasks'[l] # None
      PROVE  /\ l # k /\ tasks'[l] = tasks[l]
             /\ handleId[tasks[l]] = l
             /\ tasks[l] \in asked \ (freed' \cup pending \cup idle)
             /\ called[tasks[l]] = 0
             /\ lib = "thumbnail" => tasks[l] \notin cancelled
  <2>1. l # k /\ tasks'[l] = tasks[l]
    BY <1>2 DEF LoadsTypeOK
  <2>2. tasks[l] # tasks[k]
    BY <1>2, <2>1 DEF Entered
  <2> QED
    BY <1>2, <2>1, <2>2 DEF Entered
<1>3. \A i \in pending \cup idle : i \notin freed'
  BY DEF Entered, Awaited
<1>4. \A i \in freed' \ freed : i = tasks[k] /\ handleId[i] # NoKey
  BY KeysAreKnown DEF Entered
<1> QED
  BY <1>1, <1>2, <1>3, <1>4

LEMMA CancelThumbnailKeeps ==
  ASSUME LInv, NEW i \in Item, Cancel(i), CancelThumbnail(i)
  PROVE  LInv'
<1> USE DEF LInv
<1>1. lib = "thumbnail" /\ called[i] = 0 /\ i \in asked /\ cancelled' = cancelled \cup {i}
      /\ UNCHANGED <<lib, handleId, errors, cancelling, misread, waiting, pending, idle,
                     wait, asked, had, called, blamed>>
  BY DEF Cancel, CancelThumbnail, MayCancel, callVars
<1>2. PICK k \in ReadHandle(i) \ {NoKey} : tasks' = EntryRemoved(k) /\ freed' = FreedWith(k)
  BY DEF CancelThumbnail
<1>3. k \in Key /\ (i \notin freed => k = handleId[i])
  BY <1>2, HandleRead
<1>4. i \notin pending \cup idle /\ handleId[i] # NoKey
  BY <1>1, <1>2, HandleMeansEntered
<1>5. /\ freed' \subseteq asked
      /\ tasks' \in [Key -> Item \cup {None}]
      /\ \A l \in Key : tasks'[l] # None =>
           /\ l # k /\ tasks'[l] = tasks[l]
           /\ handleId[tasks[l]] = l
           /\ tasks[l] \in asked \ (freed' \cup pending \cup idle)
           /\ called[tasks[l]] = 0
           /\ lib = "thumbnail" => tasks[l] \notin cancelled
      /\ \A j \in pending \cup idle : j \notin freed'
      /\ \A j \in freed' \ freed : j = tasks[k] /\ handleId[j] # NoKey
  BY <1>1, <1>2, <1>3, RemovalKeeps
<1>6. freed \subseteq freed'
  BY <1>2 DEF FreedWith
<1>7. LoadsTypeOK'
  BY <1>1, <1>5 DEF LoadsTypeOK
<1>8. \A l \in Key : tasks'[l] # i
  BY <1>3, <1>5, <1>6, NoneAssumption DEF Item
<1>9. Entered'
  BY <1>1, <1>5, <1>8 DEF Entered
<1>10. Awaited'
  BY <1>1, <1>4, <1>5 DEF Awaited
<1>11. Fates'
  BY <1>1, <1>5 DEF Fates
<1> QED
  BY <1>7, <1>9, <1>10, <1>11

LEMMA CancelArtKeeps ==
  ASSUME LInv, NEW i \in Item, Cancel(i), CancelArt(i)
  PROVE  LInv'
<1> USE DEF LInv
<1>1. /\ lib = "albumart" /\ called[i] = 0 /\ i \in asked
      /\ cancelled' = cancelled \cup {i} /\ cancelling' = cancelling \cup {i}
      /\ UNCHANGED <<lib, handleId, freed, errors, tasks, misread, waiting, pending, idle,
                     wait, asked, had, called, blamed>>
  BY DEF Cancel, CancelArt, MayCancel, callVars, itemVars
<1>2. PICK k \in ReadHandle(i) : k # NoKey
  BY DEF CancelArt
<1>3. i \notin pending \cup idle /\ handleId[i] # NoKey
  BY <1>1, <1>2, HandleMeansEntered
<1>4. LoadsTypeOK'
  BY <1>1 DEF LoadsTypeOK
<1>5. Entered'
  BY <1>1 DEF Entered
<1>6. Awaited'
  BY <1>1, <1>3 DEF Awaited
<1>7. Fates'
  BY <1>1, <1>3 DEF Fates
<1> QED
  BY <1>4, <1>5, <1>6, <1>7

\* The album art library's Unqueue call times out; the item may be freed by now.
LEMMA UnqueueTimesOutKeeps ==
  ASSUME LInv, NEW i \in Item, UnqueueTimesOut(i)
  PROVE  LInv'
<1> USE DEF LInv
<1>1. /\ i \in cancelling /\ cancelling' = cancelling \ {i}
      /\ misread' \in BOOLEAN
      /\ UNCHANGED <<lib, handleId, errors, waiting, pending, idle, wait, asked, had,
                     cancelled, called, blamed>>
  BY DEF UnqueueTimesOut, callVars, LoadsTypeOK
<1>2. PICK k \in ReadHandle(i) : tasks' = EntryRemoved(k) /\ freed' = FreedWith(k)
  BY DEF UnqueueTimesOut
<1>3. k \in Key
  <2>1. handleId[i] # NoKey
    BY <1>1 DEF Fates
  <2> QED
    BY <1>2, <2>1, KeysAreKnown DEF ReadHandle, LoadsTypeOK
<1>4. /\ freed' \subseteq asked
      /\ tasks' \in [Key -> Item \cup {None}]
      /\ \A l \in Key : tasks'[l] # None =>
           /\ l # k /\ tasks'[l] = tasks[l]
           /\ handleId[tasks[l]] = l
           /\ tasks[l] \in asked \ (freed' \cup pending \cup idle)
           /\ called[tasks[l]] = 0
           /\ lib = "thumbnail" => tasks[l] \notin cancelled
      /\ \A j \in pending \cup idle : j \notin freed'
      /\ \A j \in freed' \ freed : j = tasks[k] /\ handleId[j] # NoKey
  BY <1>1, <1>2, <1>3, RemovalKeeps
<1>5. LoadsTypeOK'
  BY <1>1, <1>4 DEF LoadsTypeOK
<1>6. Entered'
  BY <1>1, <1>4 DEF Entered
<1>7. Awaited'
  BY <1>1, <1>4 DEF Awaited
<1>8. Fates'
  BY <1>1, <1>4 DEF Fates
<1> QED
  BY <1>5, <1>6, <1>7, <1>8

\* The idle source calls back and frees the item.
LEMMA HaveAllKeeps ==
  ASSUME LInv, NEW i \in Item, HaveAll(i)
  PROVE  LInv'
<1> USE DEF LInv
<1>1. /\ i \in idle /\ idle' = idle \ {i} /\ freed' = freed \cup {i}
      /\ called' = [called EXCEPT ![i] = @ + 1]
      /\ blamed' \in {blamed, blamed \cup {i}}
      /\ UNCHANGED <<lib, handleId, errors, tasks, waiting, pending, cancelling, wait, asked,
                     had, cancelled, misread>>
  BY DEF HaveAll, CallBack, histVars
<1>2. i \in asked /\ i \notin pending \cup freed \cup cancelled \cup cancelling /\ called[i] = 0
  BY <1>1 DEF Awaited, LoadsTypeOK
<1>3. called' \in [Item -> Nat] /\ called'[i] = 1 /\ \A j \in Item \ {i} : called'[j] = called[j]
  BY <1>1, <1>2 DEF LoadsTypeOK
<1>4. LoadsTypeOK'
  BY <1>1, <1>2, <1>3 DEF LoadsTypeOK
<1>5. Entered'
  BY <1>1, <1>3 DEF Entered, LoadsTypeOK
<1>6. Awaited'
  BY <1>1, <1>3 DEF Awaited, LoadsTypeOK
<1>7. Fates'
  BY <1>1, <1>2, <1>3 DEF Fates
<1> QED
  BY <1>4, <1>5, <1>6, <1>7

\* The answer to a Queue call, or its failure with a garbage handle.
LEMMA GotHandleKeeps ==
  ASSUME LInv, NEW i \in Item, NEW k \in Key, NEW failure \in BOOLEAN, GotHandle(i, k, failure)
  PROVE  LInv'
<1> USE DEF LInv
<1>1. /\ i \in pending /\ pending' = pending \ {i}
      /\ handleId' = [handleId EXCEPT ![i] = k]
      /\ waiting' = FALSE
      /\ UNCHANGED <<lib, errors, idle, cancelling, wait, asked, had, cancelled, misread>>
  BY DEF GotHandle, histVars
<1>2. /\ i \in asked /\ called[i] = 0 /\ handleId[i] = NoKey
      /\ i \notin idle \cup freed \cup cancelled \cup cancelling
  BY <1>1 DEF Awaited, LoadsTypeOK
<1>3. \A l \in Key : tasks[l] # i
  BY <1>1, NoneAssumption DEF Entered, Item
<1>4. /\ handleId' \in [Item -> Key \cup {NoKey}]
      /\ handleId'[i] = k /\ k # NoKey
      /\ \A j \in Item \ {i} : handleId'[j] = handleId[j]
  BY <1>1, KeysAreKnown DEF LoadsTypeOK
<1>5. i # None
  BY NoneAssumption DEF Item
<1>6. CASE Enter(i, k)
  <2>1. tasks' = [tasks EXCEPT ![k] = i] /\ freed' = FreedWith(k) /\ UNCHANGED <<called, blamed>>
    BY <1>6 DEF Enter, callVars
  <2>2. tasks' \in [Key -> Item \cup {None}] /\ tasks'[k] = i /\ \A l \in Key \ {k} : tasks'[l] = tasks[l]
    BY <2>1 DEF LoadsTypeOK
  <2>3. /\ freed' \subseteq asked /\ i \notin freed'
        /\ \A j \in freed' \ freed : j = tasks[k] /\ handleId[j] # NoKey
    BY <2>1, <1>2, <1>3, KeysAreKnown DEF FreedWith, Entered, LoadsTypeOK
  <2>4. LoadsTypeOK'
    BY <1>1, <1>4, <2>1, <2>2, <2>3 DEF LoadsTypeOK
  <2>5. Entered'
    <3>1. SUFFICES ASSUME NEW l \in Key, tasks'[l] # None
                   PROVE  /\ handleId'[tasks'[l]] = l
                          /\ tasks'[l] \in asked \ (freed' \cup pending' \cup idle)
                          /\ called[tasks'[l]] = 0
                          /\ lib = "thumbnail" => tasks'[l] \notin cancelled
      BY <1>1, <2>1 DEF Entered
    <3>2. CASE l = k
      BY <1>1, <1>2, <1>4, <2>2, <2>3, <3>2
    <3>3. CASE l # k
      <4>1. tasks'[l] = tasks[l] /\ tasks[l] # None /\ tasks[l] # i /\ tasks[l] \in Item
        BY <1>3, <2>2, <3>1, <3>3 DEF LoadsTypeOK
      <4>2. handleId[tasks[l]] = l /\ tasks[l] # tasks[k]
        BY <3>3, <4>1 DEF Entered
      <4> QED
        BY <1>1, <1>4, <2>3, <4>1, <4>2 DEF Entered
    <3> QED
      BY <3>2, <3>3
  <2>6. Awaited'
    <3>1. \A j \in pending' \cup idle' : j # i /\ j \in Item /\ j \in pending \cup idle /\ j # tasks[k]
      BY <1>1, <1>2, <1>5, NoneAssumption DEF Entered, LoadsTypeOK, Item
    <3> QED
      BY <1>1, <1>4, <2>1, <2>3, <3>1 DEF Awaited
  <2>7. Fates'
    BY <1>1, <1>2, <1>4, <2>1, <2>3 DEF Fates
  <2> QED
    BY <2>4, <2>5, <2>6, <2>7
<1>7. CASE lib = "thumbnail" /\ CallBack(i) /\ UNCHANGED <<tasks, freed>>
  <2>1. called' \in [Item -> Nat] /\ called'[i] = 1 /\ \A j \in Item \ {i} : called'[j] = called[j]
    BY <1>2, <1>7 DEF CallBack, LoadsTypeOK
  <2>2. blamed' \in {blamed, blamed \cup {i}} /\ UNCHANGED <<tasks, freed>>
    BY <1>7 DEF CallBack
  <2>3. LoadsTypeOK'
    BY <1>1, <1>2, <1>4, <2>1, <2>2 DEF LoadsTypeOK
  <2>4. Entered'
    BY <1>1, <1>3, <1>4, <2>1, <2>2 DEF Entered, LoadsTypeOK
  <2>5. Awaited'
    BY <1>1, <1>2, <1>4, <2>1, <2>2 DEF Awaited, LoadsTypeOK
  <2>6. Fates'
    BY <1>1, <1>2, <1>4, <2>1, <2>2 DEF Fates
  <2> QED
    BY <2>3, <2>4, <2>5, <2>6
<1> QED
  BY <1>6, <1>7 DEF GotHandle, Refuse

\* Nothing of LInv is about anything but these.
LEMMA OtherStepsKeep ==
  ASSUME LInv, waiting' \in BOOLEAN, wait' \in {"no", "flag", "table"},
         errors' \subseteq asked,
         UNCHANGED <<lib, handleId, tasks, pending, idle, cancelling, freed, asked, had,
                     cancelled, called, blamed, misread>>
  PROVE  LInv'
<1>1. LoadsTypeOK'
  BY DEF LInv, LoadsTypeOK
<1>2. Entered'
  BY DEF LInv, Entered
<1>3. Awaited'
  BY DEF LInv, Awaited
<1>4. Fates'
  BY DEF LInv, Fates
<1> QED
  BY <1>1, <1>2, <1>3, <1>4 DEF LInv

LEMMA LoadVarsKeep ==
  ASSUME LInv, UNCHANGED loadVars
  PROVE  LInv'
<1>1. /\ waiting' = waiting /\ wait' = wait /\ errors' = errors
      /\ UNCHANGED <<lib, handleId, tasks, pending, idle, cancelling, freed, asked, had,
                     cancelled, called, blamed, misread>>
  BY DEF loadVars, itemVars, histVars, callVars
<1> QED
  BY <1>1, OtherStepsKeep DEF LInv, LoadsTypeOK

LEMMA TaskErrorKeeps ==
  ASSUME LInv, NEW k \in Key, TaskError(k)
  PROVE  LInv'
<1>1. /\ errors' = errors \cup ({tasks[k]} \ {None}) /\ waiting' = waiting /\ wait' = wait
      /\ UNCHANGED <<lib, handleId, tasks, pending, idle, cancelling, freed, asked, had,
                     cancelled, called, blamed, misread>>
  BY DEF TaskError, histVars, callVars
<1>2. errors' \subseteq asked
  BY <1>1 DEF LInv, Entered, LoadsTypeOK
<1> QED
  BY <1>1, <1>2, OtherStepsKeep DEF LInv, LoadsTypeOK

\* Finished calls back for the entry and removes it.
LEMMA TaskFinishedKeeps ==
  ASSUME LInv, NEW k \in Key, TaskFinished(k)
  PROVE  LInv'
<1> USE DEF LInv
<1>1. CASE tasks[k] = None
  BY <1>1, LoadVarsKeep DEF TaskFinished
<1>2. CASE tasks[k] # None
  <2> DEFINE i == tasks[k]
  <2>1. /\ tasks' = EntryRemoved(k) /\ freed' = FreedWith(k)
        /\ called' = [called EXCEPT ![i] = @ + 1]
        /\ blamed' \in {blamed, blamed \cup {i}}
        /\ UNCHANGED <<lib, handleId, errors, waiting, pending, idle, cancelling, wait, asked,
                       had, cancelled, misread>>
    BY <1>2 DEF TaskFinished, CallBack, histVars
  <2>2. /\ i \in asked /\ i \in Item /\ called[i] = 0
        /\ i \notin pending \cup idle
        /\ lib = "thumbnail" => i \notin cancelled
    BY <1>2 DEF Entered, LoadsTypeOK
  <2>3. /\ freed' \subseteq asked
        /\ tasks' \in [Key -> Item \cup {None}]
        /\ \A l \in Key : tasks'[l] # None =>
             /\ l # k /\ tasks'[l] = tasks[l]
             /\ handleId[tasks[l]] = l
             /\ tasks[l] \in asked \ (freed' \cup pending \cup idle)
             /\ called[tasks[l]] = 0
             /\ lib = "thumbnail" => tasks[l] \notin cancelled
        /\ \A j \in pending \cup idle : j \notin freed'
        /\ \A j \in freed' \ freed : j = tasks[k] /\ handleId[j] # NoKey
    BY <2>1, RemovalKeeps
  <2>4. called' \in [Item -> Nat] /\ called'[i] = 1 /\ \A j \in Item \ {i} : called'[j] = called[j]
    BY <2>1, <2>2 DEF LoadsTypeOK
  <2>5. handleId[i] = k
    BY <1>2 DEF Entered
  <2>6. LoadsTypeOK'
    BY <2>1, <2>2, <2>3, <2>4 DEF LoadsTypeOK
  <2>7. Entered'
    <3>1. \A l \in Key : tasks'[l] # None => tasks[l] # i /\ tasks[l] \in Item
      BY <2>3, <2>5 DEF LoadsTypeOK
    <3> QED
      BY <2>1, <2>3, <2>4, <3>1 DEF Entered
  <2>8. Awaited'
    <3>1. \A j \in pending \cup idle : j # i /\ j \in Item
      BY <2>2 DEF LoadsTypeOK
    <3> QED
      BY <2>1, <2>3, <2>4, <3>1 DEF Awaited
  <2>9. Fates'
    BY <2>1, <2>2, <2>3, <2>4 DEF Fates
  <2> QED
    BY <2>6, <2>7, <2>8, <2>9
<1> QED
  BY <1>1, <1>2

\* Whatever message is taken from the wire.
LEMMA ReceiveKeeps ==
  ASSUME LInv, NEW m \in Message, Receive(m)
  PROVE  LInv'
<1>1. m.msg \in {"reply", "noreply", "Error", "Finished"}
  BY DEF Message
<1>2. CASE m.msg = "reply"
  <2>1. m.handle \in Key
    BY <1>2, KeysAreKnown DEF Message
  <2>2. GotHandle(m.call[2], m.handle, FALSE) \/ TooLate(m.call[2])
    BY <1>2 DEF Receive
  <2>3. m.call[2] \in pending => m.call[2] \in Item
    BY DEF LInv, LoadsTypeOK
  <2>4. CASE GotHandle(m.call[2], m.handle, FALSE)
    <3>1. m.call[2] \in Item
      BY <2>3, <2>4 DEF GotHandle
    <3> QED
      BY <2>1, <2>4, <3>1, GotHandleKeeps
  <2>5. CASE TooLate(m.call[2])
    BY <2>5, LoadVarsKeep DEF TooLate
  <2> QED
    BY <2>2, <2>4, <2>5
<1>3. CASE m.msg = "noreply"
  <2>1. (\E k \in Garbage : GotHandle(m.call[2], k, TRUE)) \/ TooLate(m.call[2])
    BY <1>3 DEF Receive
  <2>2. ASSUME NEW k \in Garbage, GotHandle(m.call[2], k, TRUE)
        PROVE  LInv'
    <3>1. m.call[2] \in Item /\ k \in Key
      BY <2>2, KeysAreKnown DEF GotHandle, LInv, LoadsTypeOK
    <3> QED
      BY <2>2, <3>1, GotHandleKeeps
  <2>3. CASE TooLate(m.call[2])
    BY <2>3, LoadVarsKeep DEF TooLate
  <2> QED
    BY <2>1, <2>2, <2>3
<1>4. CASE m.msg = "Error"
  <2>1. m.task[2] \in Key
    BY <1>4, KeysAreKnown DEF Message, Task
  <2>2. TaskError(m.task[2])
    BY <1>4 DEF Receive
  <2> QED
    BY <2>1, <2>2, TaskErrorKeeps
<1>5. CASE m.msg = "Finished"
  <2>1. m.task[2] \in Key
    BY <1>5, KeysAreKnown DEF Message, Task
  <2>2. TaskFinished(m.task[2])
    BY <1>5 DEF Receive
  <2> QED
    BY <2>1, <2>2, TaskFinishedKeeps
<1> QED
  BY <1>1, <1>2, <1>3, <1>4, <1>5

-----------------------------------------------------------------------------
(* The invariant.                                                            *)

LEMMA InitIInv == Init => IInv
<1> SUFFICES ASSUME Init PROVE IInv
  OBVIOUS
<1> USE DEF Init, LoadsInit
<1>1. DaemonTypeOK /\ Owes
  BY DaemonInitTyped
<1>2. LoadsTypeOK
  BY DEF LoadsTypeOK
<1>3. Entered /\ Awaited /\ Fates
  BY DEF Entered, Awaited, Fates
<1> QED
  BY <1>1, <1>2, <1>3, TypeSplit DEF IInv

LEMMA NextIInv == IInv /\ [Next]_vars => IInv'
<1> SUFFICES ASSUME IInv, [Next]_vars PROVE IInv'
  OBVIOUS
<1>1. DaemonTypeOK /\ Owes /\ LInv
  BY TypeSplit DEF IInv, LInv
<1>2. SUFFICES DaemonTypeOK' /\ Owes' /\ LInv'
  <2>1. TypeOK' <=> DaemonTypeOK' /\ LoadsTypeOK'
    BY DEF TypeOK, LoadsTypeOK
  <2> QED
    BY <1>2, <2>1 DEF IInv, LInv
<1>3. CASE Elsewhere
  <2>1. lib \in Service
    BY <1>1, LibrariesAssumption DEF LInv, LoadsTypeOK
  <2>2. Daemon({lib}) /\ UNCHANGED loadVars
    BY <1>3 DEF Elsewhere
  <2>3. DaemonTypeOK' /\ Owes'
    BY <1>1, <2>1, <2>2, DaemonSteps
  <2> QED
    BY <1>1, <2>2, <2>3, LoadVarsKeep
<1>4. ASSUME NEW i \in Item, Load(i), UNCHANGED <<world, daemonVars, wire>>
      PROVE  DaemonTypeOK' /\ Owes' /\ LInv'
  <2>1. <<lib, i>> \in Call
    BY <1>1, LibrariesAssumption DEF LInv, LoadsTypeOK, Call, Item
  <2>2. CallLeaves
    BY <1>4, <2>1 DEF Load, FindAll, Miss, CallLeaves
  <2>3. UNCHANGED world /\ UNCHANGED daemonVars /\ MessageTaken
    BY <1>4 DEF MessageTaken
  <2>4. DaemonTypeOK' /\ Owes'
    BY <1>1, <2>2, <2>3, EndTyped
  <2> QED
    BY <1>1, <1>4, <2>4, LoadKeeps
<1>5. ASSUME UNCHANGED busVars PROVE DaemonTypeOK' /\ Owes'
  <2>1. UNCHANGED world /\ UNCHANGED daemonVars /\ CallLeaves /\ MessageTaken
    BY <1>5 DEF busVars, CallLeaves, MessageTaken
  <2> QED
    BY <1>1, <2>1, EndTyped
<1>6. ASSUME NEW i \in Item, Cancel(i)
      PROVE  DaemonTypeOK' /\ Owes' /\ LInv'
  <2>1. UNCHANGED busVars /\ (CancelThumbnail(i) \/ CancelArt(i))
    BY <1>6 DEF Cancel
  <2> QED
    BY <1>1, <1>5, <1>6, <2>1, CancelThumbnailKeeps, CancelArtKeeps
<1>7. CASE Wait \/ WaitFlag \/ WaitReturns
  <2>1. UNCHANGED busVars /\ wait' \in {"no", "flag", "table"} /\ waiting' = waiting /\ errors' = errors
        /\ UNCHANGED <<lib, handleId, tasks, pending, idle, cancelling, freed, asked, had,
                       cancelled, called, blamed, misread>>
    BY <1>7 DEF Wait, WaitFlag, WaitReturns, itemVars, histVars, callVars
  <2>2. waiting' \in BOOLEAN /\ errors' \subseteq asked
    BY <1>1, <2>1 DEF LInv, LoadsTypeOK
  <2> QED
    BY <1>1, <1>5, <2>1, <2>2, OtherStepsKeep
<1>8. ASSUME NEW i \in Item, Timers(i)
      PROVE  DaemonTypeOK' /\ Owes' /\ LInv'
  <2>1. UNCHANGED busVars /\ (HaveAll(i) \/ QueueTimesOut(i) \/ UnqueueTimesOut(i))
    BY <1>8 DEF Timers, Undisturbed
  <2>2. CASE QueueTimesOut(i)
    <3>1. PICK k \in Garbage : GotHandle(i, k, TRUE)
      BY <2>2 DEF QueueTimesOut
    <3>2. k \in Key
      BY KeysAreKnown
    <3> QED
      BY <1>1, <1>5, <2>1, <3>1, <3>2, GotHandleKeeps
  <2> QED
    BY <1>1, <1>5, <2>1, <2>2, HaveAllKeeps, UnqueueTimesOutKeeps
<1>9. CASE Dispatch
  <2>1. wire # <<>> /\ wire' = Tail(wire) /\ calls' = calls
        /\ UNCHANGED world /\ UNCHANGED daemonVars
        /\ Receive(Head(wire))
    BY <1>9 DEF Dispatch, TakeMessage
  <2>2. DaemonTypeOK' /\ Owes'
    BY <1>1, <2>1, EndTyped DEF CallLeaves, MessageTaken
  <2>3. Head(wire) \in Message
    <3>1. wire \in Seq(Message)
      BY <1>1 DEF DaemonTypeOK
    <3> QED
      BY <2>1, <3>1, SequencesTyped
  <2> QED
    BY <1>1, <2>1, <2>2, <2>3, ReceiveKeeps
<1>10. CASE UNCHANGED vars
  <2>1. UNCHANGED busVars /\ UNCHANGED loadVars
    BY <1>10 DEF vars
  <2> QED
    BY <1>1, <1>5, <2>1, LoadVarsKeep
<1> QED
  BY <1>3, <1>4, <1>6, <1>7, <1>8, <1>9, <1>10 DEF Next, Application, Loop

LEMMA IInvMeans == IInv => OwnedOnce /\ CalledBackAtMostOnce
<1> SUFFICES ASSUME IInv PROVE OwnedOnce /\ CalledBackAtMostOnce
  OBVIOUS
<1>1. LInv
  BY TypeSplit DEF IInv, LInv
<1>2. \A i \in Item : i # None
  BY NoneAssumption DEF Item
<1>3. OwnedOnce
  BY <1>1, <1>2 DEF OwnedOnce, Entries, LInv, Entered, Awaited
<1>4. CalledBackAtMostOnce
  BY <1>1, <1>2 DEF CalledBackAtMostOnce, Entries, LInv, LoadsTypeOK, Entered, Awaited,
           Fates
<1> QED
  BY <1>3, <1>4

\* The invariant holds in every state the older calls and the daemon reach.
THEOREM LoadsInductive == Spec => []IInv
BY InitIInv, NextIInv, PTL DEF Spec

\* The tables of hildon-thumbnail-factory.c and hildon-albumart-factory.c hold
\* values of their types throughout.
THEOREM LoadsTypeCorrect == Spec => []TypeOK
<1>1. IInv => TypeOK
  BY DEF IInv
<1> QED
  BY <1>1, LoadsInductive, PTL

\* Nothing counts references to a ThumbsItem; still it has one owner at a time,
\* and is freed when the last one lets go of it (thumb_item_free), whatever
\* fails, times out, is cancelled or comes back with the handles of before.
THEOREM ItemsOwnedOnce == Spec => []OwnedOnce
<1>1. IInv => OwnedOnce
  BY IInvMeans
<1> QED
  BY <1>1, LoadsInductive, PTL

\* A load's callback runs at most once, and never after a cancel of the
\* thumbnail library that found a handle (create_pixbuf_and_callback).
THEOREM CalledBackOnce == Spec => []CalledBackAtMostOnce
<1>1. IInv => CalledBackAtMostOnce
  BY IInvMeans
<1> QED
  BY <1>1, LoadsInductive, PTL

-----------------------------------------------------------------------------
(* Where no call fails (Steady): what became of each item, and why.          *)

\* A handle names the item's own task.
Tracked ==
  \A i \in Item : handleId[i] # NoKey =>
    handleId[i] \in Handle /\ owner[<<lib, handleId[i]>>] = i

\* The album art library's cancel alone leaves a call under way, and reads what
\* is freed.
Cancels ==
  /\ cancelling \subseteq cancelled
  /\ lib = "thumbnail" => cancelling = {} /\ ~misread

\* An item freed, called back or given an error is so for its own task's sake,
\* and one that was made is still known to someone.
Explained ==
  /\ idle \subseteq had
  /\ \A i \in freed : called[i] = 1 \/ i \in cancelled \/ misread
  /\ \A i \in Item : called[i] > 0 => i \in had \/ <<lib, i>> \in served
  /\ \A i \in errors \cup blamed : <<lib, i>> \in failed
  /\ \A i \in asked : \/ i \in pending \cup idle \/ \E k \in Key : tasks[k] = i
                      \/ called[i] > 0 \/ i \in cancelled \/ misread

LTrue == Tracked /\ Cancels /\ Explained

\* What the library leaves alone.
DaemonRests == UNCHANGED <<owner, served, failed>>

\* An entry found under item i's handle is item i.
LEMMA EntryIsOwn ==
  ASSUME LInv, Tracked, NEW i \in Item, handleId[i] # NoKey
  PROVE  tasks[handleId[i]] \in {i, None}
<1> DEFINE k == handleId[i]
<1>1. k \in Key /\ owner[<<lib, k>>] = i
  BY KeysAreKnown DEF Tracked
<1>2. ASSUME tasks[k] # None
      PROVE  tasks[k] = i
  <2>1. tasks[k] \in Item /\ handleId[tasks[k]] = k /\ k # NoKey
    BY <1>1, <1>2 DEF LInv, LoadsTypeOK, Entered
  <2> QED
    BY <1>1, <2>1 DEF Tracked
<1> QED
  BY <1>2

\* An entry is the item whose task has that handle.
LEMMA EntryIsOwners ==
  ASSUME LInv, Tracked, NEW k \in Key, tasks[k] # None
  PROVE  k \in Handle /\ owner[<<lib, k>>] = tasks[k]
BY KeysAreKnown DEF LInv, LoadsTypeOK, Tracked, Entered

LEMMA LoadTrue ==
  ASSUME LInv, LTrue, NEW i \in Item, Load(i), DaemonRests
  PROVE  LTrue'
<1>1. /\ asked' = asked \cup {i} /\ i \notin asked
      /\ \/ pending' = pending /\ idle' = idle \cup {i} /\ had' = had \cup {i}
         \/ pending' = pending \cup {i} /\ idle' = idle /\ had' = had
      /\ UNCHANGED <<lib, handleId, freed, errors, tasks, cancelling, cancelled,
                     misread, called, blamed>>
  BY DEF Load, FindAll, Miss, itemVars, callVars
<1>2. UNCHANGED <<owner, served, failed>>
  BY DEF DaemonRests
<1>3. Tracked' /\ Cancels'
  BY <1>1, <1>2 DEF LTrue, Tracked, Cancels
<1>4. Explained'
  BY <1>1, <1>2 DEF LTrue, Explained
<1> QED
  BY <1>3, <1>4 DEF LTrue

\* The entry of a cancelled item goes.
LEMMA OwnEntryGoes ==
  ASSUME LInv, LTrue, NEW i \in Item, NEW k \in Key, tasks[k] \in {i, None},
         tasks' = EntryRemoved(k), freed' = FreedWith(k)
  PROVE  /\ \A j \in freed' : j = i \/ j \in freed
         /\ \A j \in Item : (\E l \in Key : tasks[l] = j) =>
                              j = i \/ \E l \in Key : tasks'[l] = j
<1>1. \A l \in Key \ {k} : tasks'[l] = tasks[l]
  BY DEF EntryRemoved, LInv, LoadsTypeOK
<1>2. \A j \in Item : tasks[k] = j => j = i
  BY NoneAssumption DEF Item
<1>3. \A j \in freed' : j = i \/ j \in freed
  BY DEF FreedWith
<1> QED
  BY <1>1, <1>2, <1>3

LEMMA CancelTrue ==
  ASSUME LInv, LTrue, NEW i \in Item, Cancel(i), DaemonRests
  PROVE  LTrue'
<1>1. UNCHANGED <<owner, served, failed>>
  BY DEF DaemonRests
<1>2. i \in asked /\ i \notin cancelled /\ called[i] = 0
      /\ UNCHANGED <<lib, pending, idle, asked, had, called, blamed>>
  BY DEF Cancel, MayCancel, callVars
<1>3. CASE CancelThumbnail(i)
  <2>1. PICK k \in ReadHandle(i) \ {NoKey} : tasks' = EntryRemoved(k) /\ freed' = FreedWith(k)
    BY <1>3 DEF CancelThumbnail
  <2>2. lib = "thumbnail" /\ cancelled' = cancelled \cup {i}
        /\ UNCHANGED <<handleId, errors, cancelling, misread>>
    BY <1>3 DEF CancelThumbnail
  <2>3. i \notin freed
    BY <1>2, <2>2 DEF LTrue, Explained, Cancels
  <2>4. k = handleId[i] /\ k # NoKey /\ k \in Key
    BY <2>1, <2>3, HandleRead
  <2>5. tasks[k] \in {i, None}
    BY <2>4, EntryIsOwn DEF LTrue
  <2>6. /\ \A j \in freed' : j = i \/ j \in freed
        /\ \A j \in Item : (\E l \in Key : tasks[l] = j) => j = i \/ \E l \in Key : tasks'[l] = j
    BY <2>1, <2>4, <2>5, OwnEntryGoes
  <2>7. Tracked' /\ Cancels'
    BY <1>1, <1>2, <2>2 DEF LTrue, Tracked, Cancels
  <2>8. Explained'
    BY <1>1, <1>2, <2>2, <2>6 DEF LTrue, Explained, LInv, LoadsTypeOK
  <2> QED
    BY <2>7, <2>8 DEF LTrue
<1>4. CASE CancelArt(i)
  <2>1. lib = "albumart" /\ cancelled' = cancelled \cup {i} /\ cancelling' = cancelling \cup {i}
        /\ UNCHANGED <<handleId, freed, errors, tasks, misread>>
    BY <1>4 DEF CancelArt, itemVars
  <2>2. Tracked' /\ Cancels'
    BY <1>1, <1>2, <2>1 DEF LTrue, Tracked, Cancels
  <2>3. Explained'
    BY <1>1, <1>2, <2>1 DEF LTrue, Explained
  <2> QED
    BY <2>2, <2>3 DEF LTrue
<1> QED
  BY <1>3, <1>4 DEF Cancel

LEMMA UnqueueTimesOutTrue ==
  ASSUME LInv, LTrue, NEW i \in Item, UnqueueTimesOut(i), DaemonRests
  PROVE  LTrue'
<1>1. UNCHANGED <<owner, served, failed>>
  BY DEF DaemonRests
<1>2. /\ i \in cancelling /\ cancelling' = cancelling \ {i}
      /\ UNCHANGED <<lib, handleId, errors, pending, idle, asked, had, cancelled, called, blamed>>
  BY DEF UnqueueTimesOut, callVars
<1>3. PICK k \in ReadHandle(i) : /\ tasks' = EntryRemoved(k) /\ freed' = FreedWith(k)
                                 /\ misread' = (misread \/ k # handleId[i])
  BY DEF UnqueueTimesOut
<1>4. handleId[i] # NoKey
  BY <1>2 DEF LInv, Fates
<1>5. i \in cancelled /\ lib # "thumbnail"
  BY <1>2 DEF LTrue, Cancels
<1>6. Tracked' /\ Cancels'
  BY <1>1, <1>2, <1>5 DEF LTrue, Tracked, Cancels
<1>7. CASE k # handleId[i]
  <2>1. misread'
    BY <1>3, <1>7
  <2> QED
    BY <1>1, <1>2, <1>6, <2>1 DEF LTrue, Explained
<1>8. CASE k = handleId[i]
  <2>1. k \in Key /\ tasks[k] \in {i, None}
    BY <1>4, <1>8, EntryIsOwn DEF LTrue, LInv, LoadsTypeOK
  <2>2. /\ \A j \in freed' : j = i \/ j \in freed
        /\ \A j \in Item : (\E l \in Key : tasks[l] = j) => j = i \/ \E l \in Key : tasks'[l] = j
    BY <1>3, <2>1, OwnEntryGoes
  <2>3. misread' = misread
    BY <1>3, <1>8 DEF LInv, LoadsTypeOK
  <2>4. Explained'
    BY <1>1, <1>2, <1>5, <2>2, <2>3 DEF LTrue, Explained, LInv, LoadsTypeOK
  <2> QED
    BY <1>6, <2>4 DEF LTrue
<1> QED
  BY <1>7, <1>8

LEMMA HaveAllTrue ==
  ASSUME LInv, LTrue, NEW i \in Item, HaveAll(i), DaemonRests
  PROVE  LTrue'
<1>1. UNCHANGED <<owner, served, failed>>
  BY DEF DaemonRests
<1>2. /\ i \in idle /\ idle' = idle \ {i} /\ freed' = freed \cup {i}
      /\ called' = [called EXCEPT ![i] = @ + 1]
      /\ blamed' = IF i \in errors THEN blamed \cup {i} ELSE blamed
      /\ UNCHANGED <<lib, handleId, errors, tasks, pending, cancelling, asked,
                     had, cancelled, misread>>
  BY DEF HaveAll, CallBack, histVars
<1>3. called[i] = 0
  BY <1>2 DEF LInv, Awaited
<1>4. called'[i] = 1 /\ \A j \in Item \ {i} : called'[j] = called[j]
  BY <1>2, <1>3 DEF LInv, LoadsTypeOK
<1>5. Tracked' /\ Cancels'
  BY <1>1, <1>2 DEF LTrue, Tracked, Cancels
<1>6. Explained'
  BY <1>1, <1>2, <1>4 DEF LTrue, Explained, LInv, LoadsTypeOK
<1> QED
  BY <1>5, <1>6 DEF LTrue

LEMMA GotHandleTrue ==
  ASSUME LInv, LTrue, NEW i \in Item, NEW k \in Handle, owner[<<lib, k>>] = i,
         GotHandle(i, k, FALSE), DaemonRests
  PROVE  LTrue'
<1>1. UNCHANGED <<owner, served, failed>>
  BY DEF DaemonRests
<1>2. /\ i \in pending /\ pending' = pending \ {i} /\ handleId' = [handleId EXCEPT ![i] = k]
      /\ tasks' = [tasks EXCEPT ![k] = i] /\ freed' = FreedWith(k)
      /\ UNCHANGED <<lib, errors, idle, cancelling, asked, had, cancelled, misread, called, blamed>>
  BY DEF GotHandle, Enter, histVars, callVars
<1>3. k \in Key
  BY KeysAreKnown
<1>4. tasks[k] = None
  BY <1>2, <1>3, EntryIsOwners, NoneAssumption DEF LTrue, LInv, Entered, Item
<1>5. freed' = freed
  BY <1>2, <1>4 DEF FreedWith
<1>6. tasks'[k] = i /\ \A l \in Key \ {k} : tasks'[l] = tasks[l]
  BY <1>2, <1>3 DEF LInv, LoadsTypeOK
<1>7. handleId'[i] = k /\ \A j \in Item \ {i} : handleId'[j] = handleId[j]
  BY <1>2 DEF LInv, LoadsTypeOK
<1>8. Tracked' /\ Cancels'
  BY <1>1, <1>2, <1>7 DEF LTrue, Tracked, Cancels
<1>9. Explained'
  <2>1. \A j \in Item : (\E l \in Key : tasks[l] = j) => \E l \in Key : tasks'[l] = j
    BY <1>3, <1>4, <1>6, NoneAssumption DEF Item
  <2> QED
    BY <1>1, <1>2, <1>3, <1>5, <1>6, <2>1 DEF LTrue, Explained, LInv, LoadsTypeOK
<1> QED
  BY <1>8, <1>9 DEF LTrue

LEMMA TaskErrorTrue ==
  ASSUME LInv, LTrue, NEW k \in Handle, <<lib, owner[<<lib, k>>]>> \in failed,
         TaskError(k), DaemonRests
  PROVE  LTrue'
<1>1. UNCHANGED <<owner, served, failed>>
  BY DEF DaemonRests
<1>2. /\ errors' = errors \cup ({tasks[k]} \ {None})
      /\ UNCHANGED <<lib, handleId, tasks, pending, idle, cancelling, freed, asked, had,
                     cancelled, called, blamed, misread>>
  BY DEF TaskError, histVars, callVars
<1>3. tasks[k] # None => owner[<<lib, k>>] = tasks[k]
  BY EntryIsOwners, KeysAreKnown DEF LTrue
<1>4. Tracked' /\ Cancels'
  BY <1>1, <1>2 DEF LTrue, Tracked, Cancels
<1>5. Explained'
  BY <1>1, <1>2, <1>3 DEF LTrue, Explained
<1> QED
  BY <1>4, <1>5 DEF LTrue

LEMMA TaskFinishedTrue ==
  ASSUME LInv, LTrue, NEW k \in Handle,
         owner[<<lib, k>>] # None => <<lib, owner[<<lib, k>>]>> \in served,
         tasks[k] # None, TaskFinished(k), DaemonRests
  PROVE  LTrue'
<1> DEFINE i == tasks[k]
<1>1. UNCHANGED <<owner, served, failed>>
  BY DEF DaemonRests
<1>2. /\ tasks' = EntryRemoved(k) /\ freed' = FreedWith(k)
      /\ called' = [called EXCEPT ![i] = @ + 1]
      /\ blamed' = IF i \in errors THEN blamed \cup {i} ELSE blamed
      /\ UNCHANGED <<lib, handleId, errors, pending, idle, cancelling, asked,
                     had, cancelled, misread>>
  BY DEF TaskFinished, CallBack, histVars
<1>3. k \in Key /\ i \in Item /\ called[i] = 0
  BY KeysAreKnown DEF LInv, Entered, LoadsTypeOK
<1>4. <<lib, i>> \in served
  BY <1>3, EntryIsOwners DEF LTrue
<1>5. called'[i] = 1 /\ \A j \in Item \ {i} : called'[j] = called[j]
  BY <1>2, <1>3 DEF LInv, LoadsTypeOK
<1>6. /\ \A j \in freed' : j = i \/ j \in freed
      /\ \A j \in Item : (\E l \in Key : tasks[l] = j) => j = i \/ \E l \in Key : tasks'[l] = j
  BY <1>2, <1>3, OwnEntryGoes
<1>7. Tracked' /\ Cancels'
  BY <1>1, <1>2 DEF LTrue, Tracked, Cancels
<1>8. Explained'
  BY <1>1, <1>2, <1>4, <1>5, <1>6 DEF LTrue, Explained, LInv, LoadsTypeOK
<1> QED
  BY <1>7, <1>8 DEF LTrue

LEMMA LoadVarsTrue ==
  ASSUME LTrue, UNCHANGED loadVars, DaemonRests
  PROVE  LTrue'
<1>1. UNCHANGED <<owner, served, failed, lib, handleId, tasks, pending, idle, cancelling, freed,
                  errors, asked, had, cancelled, called, blamed, misread>>
  BY DEF DaemonRests, loadVars, itemVars, histVars, callVars
<1>2. Tracked' /\ Cancels'
  BY <1>1 DEF LTrue, Tracked, Cancels
<1>3. Explained'
  BY <1>1 DEF LTrue, Explained
<1> QED
  BY <1>2, <1>3 DEF LTrue

\* A message of this library's service, sent in a steady world.
LEMMA ReceiveTrue ==
  ASSUME LInv, LTrue, NEW S, NEW m \in Sound(S), From(m) = lib, Receive(m), DaemonRests
  PROVE  LTrue'
<1>1. m \in Message /\ m.msg # "noreply"
  BY DEF Sound
<1>2. CASE m.msg = "reply"
  <2>1. m.call \in Call /\ m.handle \in Handle /\ owner[<<lib, m.handle>>] = m.call[2]
    BY <1>1, <1>2 DEF Sound, Message, From
  <2>2. m.call[2] \in Item
    BY <2>1 DEF Call, Item
  <2>3. GotHandle(m.call[2], m.handle, FALSE) \/ TooLate(m.call[2])
    BY <1>2 DEF Receive
  <2>4. CASE TooLate(m.call[2])
    BY <2>4, LoadVarsTrue DEF TooLate
  <2> QED
    BY <2>1, <2>2, <2>3, <2>4, GotHandleTrue
<1>3. CASE m.msg = "Error"
  <2>1. m.task \in Task /\ m.task[1] = lib /\ CallOf(m.task) \in failed /\ TaskError(m.task[2])
    BY <1>1, <1>3 DEF Sound, Message, From, Receive
  <2>2. m.task[2] \in Handle /\ m.task = <<lib, m.task[2]>>
    BY <2>1 DEF Task
  <2>3. <<lib, owner[<<lib, m.task[2]>>]>> \in failed
    BY <2>1, <2>2 DEF CallOf
  <2> QED
    BY <2>1, <2>2, <2>3, TaskErrorTrue
<1>4. CASE m.msg = "Finished"
  <2>1. m.task \in Task /\ m.task[1] = lib /\ (Own(m.task) => CallOf(m.task) \in served)
        /\ TaskFinished(m.task[2])
    BY <1>1, <1>4 DEF Sound, Message, From, Receive
  <2>2. m.task[2] \in Handle /\ m.task = <<lib, m.task[2]>>
    BY <2>1 DEF Task
  <2>3. owner[<<lib, m.task[2]>>] # None => <<lib, owner[<<lib, m.task[2]>>]>> \in served
    BY <2>1, <2>2 DEF CallOf, Own
  <2>4. CASE tasks[m.task[2]] = None
    BY <2>1, <2>4, LoadVarsTrue DEF TaskFinished
  <2> QED
    BY <2>1, <2>2, <2>3, <2>4, TaskFinishedTrue
<1> QED
  BY <1>1, <1>2, <1>3, <1>4 DEF Message

\* The daemon's steps leave the library's variables and the owners alone.
LEMMA ElsewhereTrue ==
  ASSUME LTrue, NEW S, Steady(S), TasksStay, lib \in Service, UNCHANGED loadVars
  PROVE  LTrue'
<1>1. UNCHANGED <<lib, handleId, tasks, pending, idle, cancelling, freed,
                  errors, asked, had, cancelled, called, blamed, misread>>
  BY DEF loadVars, itemVars, histVars, callVars
<1>2. \A i \in Item, k \in Handle : owner[<<lib, k>>] = i => owner'[<<lib, k>>] = i
  <2> TAKE i \in Item, k \in Handle
  <2>1. <<lib, k>> \in Task /\ i # None
    BY NoneAssumption DEF Task, Item
  <2> QED
    BY <2>1 DEF TasksStay, Steady, Own
<1>3. Tracked' /\ Cancels'
  BY <1>1, <1>2 DEF LTrue, Tracked, Cancels
<1>4. served \subseteq served' /\ failed \subseteq failed'
  BY DEF TasksStay
<1>5. Explained'
  BY <1>1, <1>4 DEF LTrue, Explained
<1> QED
  BY <1>3, <1>5 DEF LTrue

\* Every step of the older calls and of the daemon, in such a world.
LEMMA NextTrue ==
  ASSUME IInv, world # "rough", Steady({lib}), LTrue, [Next]_vars
  PROVE  Steady({lib})' /\ LTrue'
<1>1. DaemonTypeOK /\ Owes /\ LInv
  BY TypeSplit DEF IInv, LInv
<1>2. lib \in Service /\ {lib} \in SUBSET Service
  BY <1>1, LibrariesAssumption DEF LInv, LoadsTypeOK
<1>3. CASE Elsewhere
  <2>1. Daemon({lib}) /\ UNCHANGED loadVars
    BY <1>3 DEF Elsewhere
  <2>2. Steady({lib})' /\ TasksStay
    BY <1>1, <1>2, <2>1, DaemonSteady DEF loadVars
  <2>3. LTrue'
    BY <1>2, <2>1, <2>2, ElsewhereTrue
  <2>4. lib' = lib
    BY <2>1 DEF loadVars
  <2> QED
    BY <2>2, <2>3, <2>4
<1>4. ASSUME UNCHANGED world, UNCHANGED daemonVars, MessageTaken, lib' = lib,
             calls' = calls \/ \E i \in Item : calls' = Append(calls, <<lib, i>>)
      PROVE  Steady({lib})' /\ DaemonRests
  <2>1. \A i \in Item : <<lib, i>> \in {lib} \X Caller
    BY DEF Item
  <2>2. Steady({lib})'
    BY <1>1, <1>2, <1>4, <2>1, EndSteady
  <2>3. DaemonRests
    BY <1>4 DEF DaemonRests, daemonVars
  <2> QED
    BY <1>4, <2>2, <2>3
<1>5. ASSUME NEW i \in Item, Load(i), UNCHANGED <<world, daemonVars, wire>>
      PROVE  Steady({lib})' /\ LTrue'
  <2>1. lib' = lib /\ (calls' = calls \/ calls' = Append(calls, <<lib, i>>)) /\ MessageTaken
    BY <1>5 DEF Load, FindAll, Miss, MessageTaken
  <2>2. Steady({lib})' /\ DaemonRests
    BY <1>4, <1>5, <2>1
  <2> QED
    BY <1>1, <1>5, <2>2, LoadTrue
<1>6. ASSUME UNCHANGED busVars, lib' = lib
      PROVE  Steady({lib})' /\ DaemonRests
  <2>1. UNCHANGED world /\ UNCHANGED daemonVars /\ calls' = calls /\ MessageTaken
    BY <1>6 DEF busVars, MessageTaken
  <2> QED
    BY <1>4, <1>6, <2>1
<1>7. ASSUME NEW i \in Item, Cancel(i)
      PROVE  Steady({lib})' /\ LTrue'
  <2>1. UNCHANGED busVars /\ lib' = lib
    BY <1>7 DEF Cancel
  <2> QED
    BY <1>1, <1>6, <1>7, <2>1, CancelTrue
<1>8. CASE Wait \/ WaitFlag \/ WaitReturns
  <2>1. UNCHANGED busVars
        /\ UNCHANGED <<lib, handleId, tasks, pending, idle, cancelling, freed, errors, asked,
                       had, cancelled, called, blamed, misread>>
    BY <1>8 DEF Wait, WaitFlag, WaitReturns, itemVars, histVars, callVars
  <2>2. UNCHANGED <<owner, served, failed>>
    BY <2>1 DEF busVars, daemonVars
  <2>3. Tracked' /\ Cancels' /\ Explained'
    BY <2>1, <2>2 DEF LTrue, Tracked, Cancels, Explained
  <2> QED
    BY <1>6, <2>1, <2>3 DEF LTrue
<1>9. ASSUME NEW i \in Item, Timers(i)
      PROVE  Steady({lib})' /\ LTrue'
  <2>1. UNCHANGED busVars /\ (HaveAll(i) \/ UnqueueTimesOut(i))
    BY <1>9 DEF Timers, Undisturbed, QueueTimesOut, MayFail
  <2>2. lib' = lib
    BY <2>1 DEF HaveAll, UnqueueTimesOut
  <2> QED
    BY <1>1, <1>6, <2>1, <2>2, HaveAllTrue, UnqueueTimesOutTrue
<1>10. CASE Dispatch
  <2>1. wire # <<>> /\ wire' = Tail(wire) /\ calls' = calls
        /\ UNCHANGED world /\ UNCHANGED daemonVars
        /\ Receive(Head(wire))
    BY <1>10 DEF Dispatch, TakeMessage
  <2>2. Head(wire) \in Sound({lib})
    BY <2>1, SequencesTyped DEF Steady
  <2>3. Head(wire) \in Message /\ From(Head(wire)) = lib
    BY <2>2 DEF Sound
  <2>4. lib' = lib
    BY <2>1, <2>3 DEF Receive, Message, GotHandle, TooLate, TaskError, TaskFinished,
             loadVars
  <2>5. Steady({lib})' /\ DaemonRests
    BY <1>4, <2>1, <2>4 DEF MessageTaken
  <2> QED
    BY <1>1, <2>1, <2>2, <2>3, <2>5, ReceiveTrue
<1>11. CASE UNCHANGED vars
  <2>1. UNCHANGED busVars /\ UNCHANGED loadVars /\ lib' = lib
    BY <1>11 DEF vars, loadVars
  <2> QED
    BY <1>6, <2>1, LoadVarsTrue
<1> QED
  BY <1>3, <1>5, <1>7, <1>8, <1>9, <1>10, <1>11 DEF Next, Application, Loop

LEMMA InitTrue == Init => Steady({lib}) /\ LTrue
<1> SUFFICES ASSUME Init PROVE Steady({lib}) /\ LTrue
  OBVIOUS
<1>1. Steady({lib})
  BY InitSteady, LibrariesAssumption DEF Init, LoadsInit
<1>2. LTrue
  BY DEF Init, LoadsInit, LTrue, Tracked, Cancels, Explained
<1> QED
  BY <1>1, <1>2

\* An application that waits for each reply has one call under way, and none
\* when a wait looks at the table.
Orderly ==
  world = "orderly" =>
    /\ ~waiting => pending = {}
    /\ \A i, j \in pending : i = j
    /\ wait = "table" => pending = {}

LEMMA ReceiveOrderly ==
  ASSUME Orderly, NEW m \in Message, Receive(m), world' = world
  PROVE  Orderly'
<1>1. CASE UNCHANGED <<waiting, pending, wait>>
  BY <1>1 DEF Orderly
<1>2. CASE \E i \in pending : pending' = pending \ {i} /\ wait' = wait
  BY <1>2 DEF Orderly
<1>3. \/ UNCHANGED <<waiting, pending, wait>>
      \/ \E i \in pending : pending' = pending \ {i} /\ wait' = wait
  BY DEF Receive, Message, GotHandle, TooLate, TaskError, TaskFinished, loadVars
<1> QED
  BY <1>1, <1>2, <1>3

LEMMA NextOrderly ==
  ASSUME IInv, Orderly, [Next]_vars
  PROVE  Orderly'
<1>1. CASE UNCHANGED <<world, waiting, pending, wait>>
  BY <1>1 DEF Orderly
<1>2. CASE Elsewhere \/ UNCHANGED vars
  <2>1. UNCHANGED <<waiting, pending, wait>>
    BY <1>2 DEF Elsewhere, vars, loadVars
  <2>2. world' = world
    BY <1>2 DEF vars, busVars, Elsewhere, Daemon, Serve, ServeQueue, Accept, Reply,
             ServeOther, SendError, SendFinished, Exit, Restart
  <2> QED
    BY <1>1, <2>1, <2>2
<1>3. ASSUME NEW i \in Item, Load(i), wait = "no", Serial => ~waiting,
             UNCHANGED <<world, daemonVars, wire>>
      PROVE  Orderly'
  <2>1. wait' = wait /\ \/ UNCHANGED <<waiting, pending>>
                        \/ waiting' = TRUE /\ pending' = pending \cup {i}
    BY <1>3 DEF Load, FindAll, Miss
  <2>2. world = "orderly" => ~waiting
    BY <1>3 DEF Serial
  <2> QED
    BY <1>3, <2>1, <2>2 DEF Orderly
<1>4. ASSUME NEW i \in Item, Cancel(i)
      PROVE  Orderly'
  BY <1>1, <1>4 DEF Cancel, busVars
<1>5. CASE Wait \/ WaitFlag \/ WaitReturns
  BY <1>5 DEF Wait, WaitFlag, FlagDown, WaitReturns, Orderly, busVars
<1>6. ASSUME NEW i \in Item, Timers(i)
      PROVE  Orderly'
  <2>1. UNCHANGED world
    BY <1>6 DEF Timers, Undisturbed, busVars
  <2>2. CASE QueueTimesOut(i)
    BY <2>1, <2>2 DEF QueueTimesOut, MayFail, Orderly
  <2>3. CASE HaveAll(i) \/ UnqueueTimesOut(i)
    BY <1>1, <2>1, <2>3 DEF HaveAll, UnqueueTimesOut
  <2> QED
    BY <1>6, <2>2, <2>3 DEF Timers
<1>7. CASE Dispatch
  <2>1. wire # <<>> /\ wire \in Seq(Message) /\ world' = world /\ Receive(Head(wire))
    BY <1>7 DEF Dispatch, TakeMessage, IInv, TypeOK, DaemonTypeOK
  <2>2. Head(wire) \in Message
    BY <2>1, SequencesTyped
  <2> QED
    BY <2>1, <2>2, ReceiveOrderly
<1> QED
  BY <1>2, <1>3, <1>4, <1>5, <1>6, <1>7 DEF Next, Application, Loop

-----------------------------------------------------------------------------
(* Album art requests.  ArtRefsBalance is not inductive either: an entry is  *)
(* found under its request's handle, a request waits for its art, or has its *)
(* thumbnail loaded, or was called back, and the load and the request agree  *)
(* about which.                                                              *)

ArtEntry(r) == \E k \in Key : artTasks[k] = r

ArtOwnTypes ==
  /\ artKey \in [Request -> Key \cup {NoKey}]
  /\ artTasks \in [Key -> Request \cup {None}]
  /\ artWaiting \in BOOLEAN
  /\ outerRefs \in [Request -> Nat]
  /\ realRefs \in [Request -> Nat]
  /\ artCalled \in [Request -> Nat]
  /\ thumbs \subseteq artAsked /\ info \subseteq thumbs
  /\ artPending \subseteq artAsked /\ held \subseteq artAsked
  /\ unqueued \subseteq artAsked /\ unqueueing \subseteq unqueued
  /\ artAsked \subseteq Request
  /\ join \in {"no", "flag", "table"}
  /\ joined \in Request \cup {None}

\* Of the real requests: one owner each until the art has come.
ArtOneHand ==
  /\ \A k \in Key : artTasks[k] # None =>
       /\ artKey[artTasks[k]] = k
       /\ artCalled[artTasks[k]] = 0
       /\ artTasks[k] \in artAsked \ (asked \cup artPending)
  /\ \A r \in artPending : artKey[r] = NoKey /\ artCalled[r] = 0 /\ r \notin asked
  /\ \A r \in unqueueing : artKey[r] # NoKey
  /\ \A r \in Request : artCalled[r] <= 1
  /\ \A r \in Request \ artAsked : artKey[r] = NoKey /\ artCalled[r] = 0

\* Of the loads: each is a thumbnail request's, which is called back with it.
LoadsForArt ==
  /\ lib = "thumbnail" /\ cancelled = {} /\ wait = "no"
  /\ asked \subseteq thumbs
  /\ \A r \in asked : artCalled[r] = called[r]
  /\ \A r \in thumbs : r \in info <=> artCalled[r] = 0

\* The sums of ArtRefsBalance, without the cardinality.
OuterHeld(r) == IF r \in thumbs THEN One(r \in held) + One(r \in info) ELSE 0
RealHeld(r) ==
  One(IF r \in thumbs THEN outerRefs[r] > 0 ELSE r \in held)
    + One(r \in artPending) + One(r \in unqueueing) + One(ArtEntry(r))

ArtBalance ==
  \A r \in Request : outerRefs[r] = OuterHeld(r) /\ realRefs[r] = RealHeld(r)

AInv == ArtOwnTypes /\ ArtOneHand /\ LoadsForArt /\ ArtBalance

\* The places a request has in a sequence of one or two.
LEMMA Counted ==
  ASSUME NEW p \in BOOLEAN, NEW q \in BOOLEAN,
         NEW S, S = (IF p THEN {1} ELSE {}) \cup (IF q THEN {2} ELSE {})
  PROVE  Cardinality(S) = One(p) + One(q)
<1> DEFINE A == IF p THEN {1} ELSE {}
           B == IF q THEN {2} ELSE {}
<1>1. /\ IsFiniteSet(A) /\ Cardinality(A) = One(p)
      /\ IsFiniteSet(B) /\ Cardinality(B) = One(q)
  BY FS_EmptySet, FS_Singleton DEF One
<1>2. A \cap B = {}
  OBVIOUS
<1>3. Cardinality(A \cap B) = 0
  BY <1>2, FS_EmptySet
<1>4. Cardinality(A \cup B) = Cardinality(A) + Cardinality(B) - Cardinality(A \cap B)
  BY <1>1, FS_Union
<1> QED
  BY <1>1, <1>3, <1>4 DEF One

\* None, one and two unrefs, and the object a finalized one lets go of.
LEMMA UnrefsNone ==
  ASSUME NEW r \in Request, realRefs[r] \in Nat, UnrefReal(<< >>)
  PROVE  realRefs'[r] = realRefs[r] - One(Finalized(r))
<1> DEFINE S == {n \in DOMAIN << >> : << >>[n] = r}
<1>1. realRefs'[r] = realRefs[r] - One(Finalized(r)) - Cardinality(S)
  BY DEF UnrefReal
<1>2. S = {}
  OBVIOUS
<1> HIDE DEF S
<1>3. Cardinality(S) = 0
  BY <1>2, FS_EmptySet
<1> QED
  BY <1>1, <1>3 DEF One

LEMMA UnrefsOne ==
  ASSUME NEW a, NEW r \in Request, realRefs[r] \in Nat, UnrefReal(<<a>>)
  PROVE  realRefs'[r] = realRefs[r] - One(Finalized(r)) - One(a = r)
<1> DEFINE S == {n \in DOMAIN <<a>> : <<a>>[n] = r}
<1>1. realRefs'[r] = realRefs[r] - One(Finalized(r)) - Cardinality(S)
  BY DEF UnrefReal
<1>2. S = IF a = r THEN {1} ELSE {}
  OBVIOUS
<1> HIDE DEF S
<1>3. Cardinality(S) = One(a = r)
  BY <1>2, FS_EmptySet, FS_Singleton DEF One
<1> QED
  BY <1>1, <1>3

LEMMA UnrefsTwo ==
  ASSUME NEW a, NEW b, NEW r \in Request, realRefs[r] \in Nat, UnrefReal(<<a, b>>)
  PROVE  realRefs'[r] = realRefs[r] - One(Finalized(r)) - One(a = r) - One(b = r)
<1> DEFINE S == {n \in DOMAIN <<a, b>> : <<a, b>>[n] = r}
<1>1. realRefs'[r] = realRefs[r] - One(Finalized(r)) - Cardinality(S)
  BY DEF UnrefReal
<1>2. S = (IF a = r THEN {1} ELSE {}) \cup (IF b = r THEN {2} ELSE {})
  OBVIOUS
<1> HIDE DEF S
<1>3. Cardinality(S) = One(a = r) + One(b = r)
  BY <1>2, Counted
<1>4. One(a = r) \in Int /\ One(b = r) \in Int /\ One(Finalized(r)) \in Int
  BY DEF One
<1> QED
  BY <1>1, <1>3, <1>4

\* The sums of natural numbers are the types of the counts.
LEMMA CountsTyped ==
  ASSUME realRefs' = [r \in Request |-> realRefs'[r]], outerRefs' = [r \in Request |-> outerRefs'[r]],
         ArtBalance'
  PROVE  realRefs' \in [Request -> Nat] /\ outerRefs' \in [Request -> Nat]
BY DEF ArtBalance, OuterHeld, RealHeld, One

\* The counts that come out of a step are natural numbers if they balance.
\* (CountsTyped.)  Queue: a new request, and its two objects.
LEMMA QueueArtKeeps ==
  ASSUME AInv, LInv, NEW r \in Request, QueueArt(r)
  PROVE  AInv'
<1> USE DEF AInv
<1>1. /\ r \notin artAsked /\ artAsked' = artAsked \cup {r} /\ held' = held \cup {r}
      /\ realRefs' = [realRefs EXCEPT ![r] = 2]
      /\ \/ UNCHANGED <<thumbs, info, outerRefs>>
         \/ thumbs' = thumbs \cup {r} /\ info' = info \cup {r} /\ outerRefs' = [outerRefs EXCEPT ![r] = 2]
      /\ artWaiting' = TRUE /\ artPending' = artPending \cup {r}
      /\ UNCHANGED <<artKey, artTasks, unqueueing, join, joined, unqueued, artCalled>>
      /\ UNCHANGED <<lib, cancelled, wait, asked, called>>
  BY DEF QueueArt, joinVars, loadVars, histVars, callVars
<1>2. /\ r \notin thumbs \cup info \cup artPending \cup held \cup unqueued \cup unqueueing \cup asked
      /\ artKey[r] = NoKey /\ artCalled[r] = 0
  BY <1>1 DEF ArtOwnTypes, ArtOneHand, LoadsForArt
<1>3. ArtOwnTypes'
  BY <1>1 DEF ArtOwnTypes
<1>4. ArtOneHand'
  BY <1>1, <1>2 DEF ArtOneHand, ArtOwnTypes
<1>5. LoadsForArt'
  BY <1>1, <1>2 DEF LoadsForArt, ArtOwnTypes
<1>6. ArtBalance'
  <2> SUFFICES ASSUME NEW x \in Request
               PROVE  (outerRefs[x] = OuterHeld(x))' /\ (realRefs[x] = RealHeld(x))'
    BY DEF ArtBalance
  <2>1. CASE x # r
    <3>1. /\ outerRefs'[x] = outerRefs[x] /\ realRefs'[x] = realRefs[x]
          /\ (x \in thumbs') = (x \in thumbs) /\ (x \in info') = (x \in info)
          /\ (x \in held') = (x \in held) /\ (x \in artPending') = (x \in artPending)
          /\ (x \in unqueueing') = (x \in unqueueing) /\ ArtEntry(x)' = ArtEntry(x)
      BY <1>1, <2>1 DEF ArtEntry, ArtOwnTypes
    <3>2. OuterHeld(x)' = OuterHeld(x)
      BY <3>1 DEF OuterHeld, One
    <3>3. RealHeld(x)' = RealHeld(x)
      BY <3>1 DEF RealHeld, One
    <3> QED
      BY <3>1, <3>2, <3>3 DEF ArtBalance
  <2>2. CASE x = r
    <3>1. ~ArtEntry(r)'
      BY <1>1, <1>2, NoneAssumption DEF ArtEntry, ArtOneHand, Request
    <3>2. r \in held' /\ r \in artPending' /\ r \notin unqueueing' /\ realRefs'[r] = 2
      BY <1>1, <1>2 DEF ArtOwnTypes
    <3>3. \/ r \notin thumbs' /\ outerRefs'[r] = 0
          \/ r \in thumbs' /\ r \in info' /\ outerRefs'[r] = 2
      BY <1>1, <1>2 DEF ArtOwnTypes, ArtBalance, OuterHeld
    <3> QED
      BY <2>2, <3>1, <3>2, <3>3 DEF OuterHeld, RealHeld, One
  <2> QED
    BY <2>1, <2>2
<1> QED
  BY <1>3, <1>4, <1>5, <1>6

LEMMA UnqueueArtKeeps ==
  ASSUME AInv, NEW r \in Request, UnqueueArt(r)
  PROVE  AInv'
<1> USE DEF AInv
<1>1. /\ r \in held \ unqueued /\ artKey[r] # NoKey
      /\ unqueued' = unqueued \cup {r} /\ unqueueing' = unqueueing \cup {r}
      /\ realRefs' = [realRefs EXCEPT ![r] = @ + 1]
      /\ UNCHANGED <<thumbs, artAsked, artKey, artTasks, artWaiting, artPending, info, outerRefs, held,
                     join, joined, artCalled>>
      /\ UNCHANGED <<lib, cancelled, wait, asked, called>>
  BY DEF UnqueueArt, joinVars, madeVars, tableVars, vars, loadVars, histVars, callVars
<1>2. r \notin unqueueing
  BY <1>1 DEF ArtOwnTypes
<1>3. ArtOwnTypes'
  BY <1>1 DEF ArtOwnTypes
<1>4. ArtOneHand' /\ LoadsForArt'
  BY <1>1 DEF ArtOneHand, LoadsForArt
<1>5. ArtBalance'
  <2> SUFFICES ASSUME NEW x \in Request
               PROVE  (outerRefs[x] = OuterHeld(x))' /\ (realRefs[x] = RealHeld(x))'
    BY DEF ArtBalance
  <2>1. realRefs'[x] = realRefs[x] + One(x = r)
    BY <1>1 DEF ArtOwnTypes, One
  <2>2. outerRefs[x] = OuterHeld(x) /\ realRefs[x] = RealHeld(x)
    BY DEF ArtBalance
  <2> QED
    BY <1>1, <1>2, <2>1, <2>2 DEF OuterHeld, RealHeld, ArtEntry, One
<1> QED
  BY <1>3, <1>4, <1>5

LEMMA ReleaseKeeps ==
  ASSUME AInv, NEW r \in Request, Release(r)
  PROVE  AInv'
<1> USE DEF AInv
<1>1. /\ r \in held /\ held' = held \ {r}
      /\ IF r \in thumbs THEN UnrefOuter(r) /\ UnrefReal(<<>>)
                         ELSE UNCHANGED outerRefs /\ UnrefReal(<<r>>)
      /\ UNCHANGED <<thumbs, artAsked, artKey, artTasks, artWaiting, artPending, unqueueing, info,
                     join, joined, unqueued, artCalled>>
      /\ UNCHANGED <<lib, cancelled, wait, asked, called>>
  BY DEF Release, joinVars, madeVars, tableVars, vars, loadVars, histVars, callVars
<1>2. ArtOneHand' /\ LoadsForArt'
  BY <1>1 DEF ArtOneHand, LoadsForArt
<1>3. outerRefs' = [outerRefs EXCEPT ![r] = @ - One(r \in thumbs)]
  <2>1. CASE r \in thumbs
    BY <1>1, <2>1 DEF UnrefOuter, One
  <2>2. CASE r \notin thumbs
    BY <1>1, <2>2 DEF One, ArtOwnTypes
  <2> QED
    BY <2>1, <2>2
<1>4. ArtBalance'
  <2> SUFFICES ASSUME NEW x \in Request
               PROVE  (outerRefs[x] = OuterHeld(x))' /\ (realRefs[x] = RealHeld(x))'
    BY DEF ArtBalance
  <2>1. outerRefs[x] = OuterHeld(x) /\ realRefs[x] = RealHeld(x) /\ realRefs[x] \in Nat
    BY DEF ArtBalance, ArtOwnTypes
  <2>2. outerRefs'[x] = outerRefs[x] - One(x = r /\ x \in thumbs)
    BY <1>3 DEF ArtOwnTypes, One
  <2>3. outerRefs'[x] = OuterHeld(x)'
    BY <1>1, <2>1, <2>2 DEF OuterHeld, One
  <2>4. realRefs'[x] = realRefs[x] - One(Finalized(x)) - One(x = r /\ x \notin thumbs)
    <3>1. CASE r \in thumbs
      BY <1>1, <2>1, <3>1, UnrefsNone DEF One, Finalized
    <3>2. CASE r \notin thumbs
      <4>1. realRefs'[x] = realRefs[x] - One(Finalized(x)) - One(r = x)
        BY <1>1, <2>1, <3>2, UnrefsOne
      <4> QED
        BY <3>2, <4>1 DEF One
    <3> QED
      BY <3>1, <3>2
  <2>5. realRefs'[x] = RealHeld(x)'
    <3>1. ArtEntry(x)' = ArtEntry(x) /\ ArtEntry(x) \in BOOLEAN
      BY <1>1 DEF ArtEntry
    <3>2. outerRefs[x] \in Nat /\ outerRefs'[x] \in Int
      BY <2>2 DEF ArtOwnTypes, One
    <3>3. CASE x \in thumbs
      BY <1>1, <2>1, <2>2, <2>3, <2>4, <3>1, <3>2, <3>3 DEF RealHeld, OuterHeld,
               Finalized, One
    <3>4. CASE x \notin thumbs
      BY <1>1, <2>1, <2>4, <3>1, <3>4 DEF RealHeld, Finalized, One
    <3> QED
      BY <3>3, <3>4
  <2> QED
    BY <2>3, <2>5
<1>5. realRefs' \in [Request -> Nat] /\ outerRefs' \in [Request -> Nat]
  BY <1>1, <1>3, <1>4, CountsTyped DEF UnrefReal, ArtOwnTypes
<1>6. ArtOwnTypes'
  BY <1>1, <1>5 DEF ArtOwnTypes
<1> QED
  BY <1>2, <1>4, <1>6

LEMMA JoinsKeep ==
  ASSUME AInv, (\E r \in Request \cup {None} : Join(r)) \/ JoinFlag \/ JoinReturns
  PROVE  AInv'
<1> USE DEF AInv
<1>1. /\ UNCHANGED <<thumbs, artAsked, artKey, artTasks, artWaiting, artPending, unqueueing, info,
                     outerRefs, realRefs, held, unqueued, artCalled>>
      /\ UNCHANGED <<lib, cancelled, wait, asked, called>>
  BY DEF Join, JoinFlag, JoinReturns, madeVars, tableVars, vars, loadVars, histVars,
           callVars
<1>0. join' \in {"no", "flag", "table"} /\ joined' \in Request \cup {None}
  BY DEF Join, JoinFlag, JoinReturns, ArtOwnTypes
<1>2. ArtOwnTypes' /\ ArtOneHand' /\ LoadsForArt'
  BY <1>0, <1>1 DEF ArtOwnTypes, ArtOneHand, LoadsForArt
<1>3. ArtBalance'
  BY <1>1 DEF ArtBalance, OuterHeld, RealHeld, ArtEntry
<1> QED
  BY <1>2, <1>3

\* Key k gets entry v, or None.
LEMMA EntryChanges ==
  ASSUME ArtOwnTypes, ArtOneHand, NEW k \in Key, NEW v \in Request \cup {None},
         artTasks' = [artTasks EXCEPT ![k] = v]
  PROVE  /\ artTasks' \in [Key -> Request \cup {None}]
         /\ \A l \in Key : artTasks'[l] = IF l = k THEN v ELSE artTasks[l]
         /\ \A x \in Request : ArtEntry(x)' <=> x = v \/ (ArtEntry(x) /\ x # artTasks[k])
<1>1. artTasks' \in [Key -> Request \cup {None}]
  BY DEF ArtOwnTypes
<1>2. \A l \in Key : artTasks'[l] = IF l = k THEN v ELSE artTasks[l]
  BY DEF ArtOwnTypes
<1>3. ASSUME NEW x \in Request
      PROVE  ArtEntry(x)' <=> x = v \/ (ArtEntry(x) /\ x # artTasks[k])
  <2>1. x # None
    BY NoneAssumption DEF Request
  <2>2. \A l \in Key : artTasks[l] = x => artKey[x] = l
    BY <2>1 DEF ArtOneHand
  <2> QED
    BY <1>2, <2>2 DEF ArtEntry
<1> QED
  BY <1>1, <1>2, <1>3

\* The reply to a Queue call: its reference becomes the table's.
LEMMA GotArtHandleKeeps ==
  ASSUME AInv, NEW r \in Request, NEW k \in Key, GotArtHandle(r, k)
  PROVE  AInv'
<1> USE DEF AInv
<1>1. /\ r \in artPending /\ artPending' = artPending \ {r}
      /\ artKey' = [artKey EXCEPT ![r] = k] /\ artTasks' = [artTasks EXCEPT ![k] = r]
      /\ artWaiting' = FALSE /\ outerRefs' = outerRefs /\ UnrefReal(<<artTasks[k]>>)
      /\ UNCHANGED <<thumbs, artAsked, unqueueing, info, held, join, joined, unqueued, artCalled>>
      /\ UNCHANGED <<lib, cancelled, wait, asked, called>>
  BY DEF GotArtHandle, Replaced, joinVars, madeVars, loadVars, histVars, callVars
<1>2. r # None /\ k # NoKey
  BY NoneAssumption, KeysAreKnown DEF Request
<1>3. /\ r \in artAsked \ asked /\ artKey[r] = NoKey /\ artCalled[r] = 0 /\ r \notin unqueueing
      /\ ~ArtEntry(r)
  BY <1>1, <1>2 DEF ArtOwnTypes, ArtOneHand, ArtEntry
<1>4. /\ artTasks' \in [Key -> Request \cup {None}]
      /\ \A l \in Key : artTasks'[l] = IF l = k THEN r ELSE artTasks[l]
      /\ \A x \in Request : ArtEntry(x)' <=> x = r \/ (ArtEntry(x) /\ x # artTasks[k])
  BY <1>1, EntryChanges
<1>5. /\ artKey' \in [Request -> Key \cup {NoKey}]
      /\ \A x \in Request : artKey'[x] = IF x = r THEN k ELSE artKey[x]
  BY <1>1 DEF ArtOwnTypes
<1>6. ArtOneHand'
  <2>1. \A l \in Key : artTasks'[l] # None =>
          /\ artKey'[artTasks'[l]] = l /\ artCalled[artTasks'[l]] = 0
          /\ artTasks'[l] \in artAsked \ (asked \cup artPending')
    <3> SUFFICES ASSUME NEW l \in Key, artTasks'[l] # None
                 PROVE  /\ artKey'[artTasks'[l]] = l /\ artCalled[artTasks'[l]] = 0
                        /\ artTasks'[l] \in artAsked \ (asked \cup artPending')
      OBVIOUS
    <3>1. CASE l = k
      BY <1>1, <1>3, <1>4, <1>5, <3>1
    <3>2. CASE l # k
      <4>1. artTasks'[l] = artTasks[l] /\ artTasks[l] # None /\ artTasks[l] # r
        BY <1>3, <1>4, <3>2 DEF ArtEntry
      <4>2. artTasks[l] \in Request
        BY <4>1 DEF ArtOwnTypes
      <4> QED
        BY <1>1, <1>5, <4>1, <4>2 DEF ArtOneHand
    <3> QED
      BY <3>1, <3>2
  <2>2. \A x \in artPending' : artKey'[x] = NoKey /\ artCalled[x] = 0 /\ x \notin asked
    BY <1>1, <1>5 DEF ArtOneHand, ArtOwnTypes
  <2>3. \A x \in unqueueing : artKey'[x] # NoKey
    BY <1>2, <1>5 DEF ArtOneHand, ArtOwnTypes
  <2>4. \A x \in Request \ artAsked : artKey'[x] = NoKey /\ artCalled[x] = 0
    BY <1>3, <1>5 DEF ArtOneHand
  <2> QED
    BY <1>1, <2>1, <2>2, <2>3, <2>4 DEF ArtOneHand
<1>7. LoadsForArt'
  BY <1>1 DEF LoadsForArt
<1>8. ArtBalance'
  <2> SUFFICES ASSUME NEW x \in Request
               PROVE  (outerRefs[x] = OuterHeld(x))' /\ (realRefs[x] = RealHeld(x))'
    BY DEF ArtBalance
  <2>1. outerRefs[x] = OuterHeld(x) /\ realRefs[x] = RealHeld(x) /\ realRefs[x] \in Nat
    BY DEF ArtBalance, ArtOwnTypes
  <2>2. outerRefs'[x] = OuterHeld(x)'
    BY <1>1, <2>1 DEF OuterHeld
  <2>3. realRefs'[x] = realRefs[x] - One(artTasks[k] = x)
    <3>1. realRefs'[x] = realRefs[x] - One(Finalized(x)) - One(artTasks[k] = x)
      BY <1>1, <2>1, UnrefsOne
    <3>2. One(Finalized(x)) = 0
      BY <1>1 DEF Finalized, One, ArtOwnTypes
    <3> QED
      BY <2>1, <3>1, <3>2 DEF One
  <2>4. artTasks[k] = x => ArtEntry(x)
    BY DEF ArtEntry
  <2>5. realRefs'[x] = RealHeld(x)'
    BY <1>1, <1>3, <1>4, <2>1, <2>3, <2>4 DEF RealHeld, One
  <2> QED
    BY <2>2, <2>5
<1>9. realRefs' \in [Request -> Nat] /\ outerRefs' \in [Request -> Nat]
  BY <1>1, <1>8, CountsTyped DEF UnrefReal, ArtOwnTypes
<1>10. ArtOwnTypes'
  BY <1>1, <1>4, <1>5, <1>9 DEF ArtOwnTypes
<1> QED
  BY <1>6, <1>7, <1>8, <1>10

\* The Unqueue call times out: its reference goes, and the table's, if any.
LEMMA ArtUnqueueTimesOutKeeps ==
  ASSUME AInv, NEW r \in Request, ArtUnqueueTimesOut(r)
  PROVE  AInv'
<1> USE DEF AInv
<1> DEFINE k == artKey[r]
<1>1. /\ r \in unqueueing /\ unqueueing' = unqueueing \ {r}
      /\ artTasks' = [artTasks EXCEPT ![k] = None]
      /\ outerRefs' = outerRefs /\ UnrefReal(<<r, artTasks[k]>>)
      /\ UNCHANGED <<thumbs, artAsked, artKey, artWaiting, artPending, info, held, join, joined,
                     unqueued, artCalled>>
      /\ UNCHANGED <<lib, cancelled, wait, asked, called>>
  BY DEF ArtUnqueueTimesOut, ArtEntryRemoved, joinVars, madeVars, vars, loadVars,
           histVars, callVars
<1>2. k \in Key
  BY <1>1 DEF ArtOneHand, ArtOwnTypes
<1>3. \A x \in Request : x # None
  BY NoneAssumption DEF Request
<1>4. /\ artTasks' \in [Key -> Request \cup {None}]
      /\ \A l \in Key : artTasks'[l] = IF l = k THEN None ELSE artTasks[l]
      /\ \A x \in Request : ArtEntry(x)' <=> ArtEntry(x) /\ x # artTasks[k]
  <2> HIDE DEF k
  <2>1. /\ artTasks' \in [Key -> Request \cup {None}]
        /\ \A l \in Key : artTasks'[l] = IF l = k THEN None ELSE artTasks[l]
        /\ \A x \in Request : ArtEntry(x)' <=> x = None \/ (ArtEntry(x) /\ x # artTasks[k])
    BY <1>1, <1>2, EntryChanges
  <2> QED
    BY <1>3, <2>1
<1>5. ArtOneHand'
  BY <1>1, <1>4 DEF ArtOneHand
<1>6. LoadsForArt'
  BY <1>1 DEF LoadsForArt
<1>7. ArtBalance'
  <2> SUFFICES ASSUME NEW x \in Request
               PROVE  (outerRefs[x] = OuterHeld(x))' /\ (realRefs[x] = RealHeld(x))'
    BY DEF ArtBalance
  <2>1. outerRefs[x] = OuterHeld(x) /\ realRefs[x] = RealHeld(x) /\ realRefs[x] \in Nat
    BY DEF ArtBalance, ArtOwnTypes
  <2>2. outerRefs'[x] = OuterHeld(x)'
    BY <1>1, <2>1 DEF OuterHeld
  <2>3. realRefs'[x] = realRefs[x] - One(r = x) - One(artTasks[k] = x)
    <3>1. realRefs'[x] = realRefs[x] - One(Finalized(x)) - One(r = x) - One(artTasks[k] = x)
      BY <1>1, <2>1, UnrefsTwo
    <3>2. One(Finalized(x)) = 0
      BY <1>1 DEF Finalized, One, ArtOwnTypes
    <3> QED
      BY <2>1, <3>1, <3>2 DEF One
  <2>4. artTasks[k] = x => ArtEntry(x)
    BY <1>2 DEF ArtEntry
  <2>5. realRefs'[x] = RealHeld(x)'
    BY <1>1, <1>4, <2>1, <2>3, <2>4 DEF RealHeld, One
  <2> QED
    BY <2>2, <2>5
<1>8. realRefs' \in [Request -> Nat] /\ outerRefs' \in [Request -> Nat]
  BY <1>1, <1>7, CountsTyped DEF UnrefReal, ArtOwnTypes
<1>9. ArtOwnTypes'
  BY <1>1, <1>4, <1>8 DEF ArtOwnTypes
<1> QED
  BY <1>5, <1>6, <1>7, <1>9

\* The reference of a record goes with it, and what the object held then.
LEMMA RecordGoes ==
  ASSUME ArtOwnTypes, ArtBalance, UNCHANGED <<thumbs, held>>, NEW r \in Request,
         \/ UNCHANGED <<info, outerRefs>>
         \/ r \in info /\ info' = info \ {r} /\ UnrefOuter(r)
  PROVE  /\ outerRefs' = [x \in Request |-> outerRefs'[x]]
         /\ \A x \in Request :
              /\ outerRefs'[x] = OuterHeld(x)'
              /\ One(IF x \in thumbs' THEN outerRefs'[x] > 0 ELSE x \in held')
                   = One(IF x \in thumbs THEN outerRefs[x] > 0 ELSE x \in held) - One(Finalized(x))
<1>1. outerRefs' = [x \in Request |-> outerRefs'[x]]
  BY DEF UnrefOuter, ArtOwnTypes
<1>2. ASSUME NEW x \in Request
      PROVE  /\ outerRefs'[x] = OuterHeld(x)'
             /\ One(IF x \in thumbs' THEN outerRefs'[x] > 0 ELSE x \in held')
                  = One(IF x \in thumbs THEN outerRefs[x] > 0 ELSE x \in held) - One(Finalized(x))
  <2>1. outerRefs[x] \in Nat /\ outerRefs[x] = OuterHeld(x)
    BY DEF ArtOwnTypes, ArtBalance
  <2>2. CASE outerRefs'[x] = outerRefs[x] /\ (x \in info') = (x \in info)
    BY <2>1, <2>2 DEF OuterHeld, Finalized, One
  <2>3. CASE outerRefs'[x] = outerRefs[x] - 1 /\ x \in info /\ x \notin info' /\ x \in thumbs
    BY <2>1, <2>3 DEF OuterHeld, Finalized, One
  <2> QED
    BY <2>1, <2>2, <2>3 DEF UnrefOuter, ArtOwnTypes
<1> QED
  BY <1>1, <1>2

\* on_task_finished: the application is called back, or the thumbnail loaded.
LEMMA ArtFinishedKeeps ==
  ASSUME AInv, LInv, NEW k \in Key, artTasks[k] # None, ArtFinished(k)
  PROVE  AInv'
<1> USE DEF AInv
<1> DEFINE r == artTasks[k]
<1>1. /\ artTasks' = [artTasks EXCEPT ![k] = None] /\ UnrefReal(<<r>>)
      /\ UNCHANGED <<thumbs, artAsked, artKey, artWaiting, artPending, unqueueing, held, join, joined,
                     unqueued>>
  BY DEF ArtFinished, ArtEntryRemoved, joinVars, madeVars
<1>2. r \in Request /\ r \in artAsked \ (asked \cup artPending) /\ artCalled[r] = 0 /\ artKey[r] = k
  BY DEF ArtOwnTypes, ArtOneHand
<1>3. called[r] = 0
  BY <1>2 DEF LInv, Fates, Request, Item
<1>4. \A x \in Request : x # None
  BY NoneAssumption DEF Request
<1>5. /\ \/ /\ r \notin thumbs /\ artCalled' = [artCalled EXCEPT ![r] = @ + 1]
            /\ UNCHANGED <<info, outerRefs, asked, called>>
         \/ /\ r \in thumbs /\ asked' = asked \cup {r}
            /\ UNCHANGED <<artCalled, info, outerRefs, called>>
         \/ /\ r \in thumbs /\ artCalled' = [artCalled EXCEPT ![r] = @ + 1]
            /\ info' = info \ {r} /\ UnrefOuter(r)
            /\ UNCHANGED <<asked, called>>
      /\ UNCHANGED <<lib, cancelled, wait>>
  BY DEF ArtFinished, Intercept, ThumbCallback, ArtCallBack, Load, loadVars, histVars,
           callVars
<1>6. r \in thumbs => r \in info
  BY <1>2 DEF LoadsForArt
<1>7. /\ artTasks' \in [Key -> Request \cup {None}]
      /\ \A l \in Key : artTasks'[l] = IF l = k THEN None ELSE artTasks[l]
      /\ \A x \in Request : ArtEntry(x)' <=> ArtEntry(x) /\ x # r
  <2> HIDE DEF r
  <2>1. artTasks[k] = r
    BY DEF r
  <2>2. /\ artTasks' \in [Key -> Request \cup {None}]
        /\ \A l \in Key : artTasks'[l] = IF l = k THEN None ELSE artTasks[l]
        /\ \A x \in Request : ArtEntry(x)' <=> x = None \/ (ArtEntry(x) /\ x # artTasks[k])
    BY <1>1, EntryChanges
  <2> QED
    BY <1>4, <2>1, <2>2
<1> HIDE DEF r
<1>8. /\ artCalled' \in [Request -> Nat]
      /\ \A x \in Request : artCalled'[x] = artCalled[x] \/ (x = r /\ artCalled'[x] = 1)
      /\ info' \subseteq info /\ \A x \in Request : x # r => (x \in info') = (x \in info)
      /\ asked' \in {asked, asked \cup {r}} /\ called' = called
  BY <1>2, <1>5 DEF ArtOwnTypes
<1>9. ArtOneHand'
  <2>1. \A l \in Key : artTasks'[l] # None => artTasks'[l] = artTasks[l] /\ artTasks[l] # r /\ artTasks[l] \in Request
    <3> SUFFICES ASSUME NEW l \in Key, artTasks'[l] # None
                 PROVE  artTasks'[l] = artTasks[l] /\ artTasks[l] # r /\ artTasks[l] \in Request
      OBVIOUS
    <3>1. l # k /\ artTasks'[l] = artTasks[l]
      BY <1>7
    <3>2. artTasks[l] \in Request /\ artKey[artTasks[l]] = l
      BY <3>1 DEF ArtOneHand, ArtOwnTypes
    <3> QED
      BY <1>2, <3>1, <3>2
  <2>2. \A l \in Key : artTasks'[l] # None =>
          /\ artKey[artTasks'[l]] = l /\ artCalled'[artTasks'[l]] = 0
          /\ artTasks'[l] \in artAsked \ (asked' \cup artPending)
    BY <1>8, <2>1 DEF ArtOneHand
  <2>3. \A x \in artPending : artKey[x] = NoKey /\ artCalled'[x] = 0 /\ x \notin asked'
    BY <1>2, <1>8 DEF ArtOneHand, ArtOwnTypes
  <2>4. \A x \in Request : artCalled'[x] <= 1
    BY <1>8 DEF ArtOneHand
  <2>5. \A x \in Request \ artAsked : artKey[x] = NoKey /\ artCalled'[x] = 0
    BY <1>2, <1>8 DEF ArtOneHand
  <2> QED
    BY <1>1, <2>2, <2>3, <2>4, <2>5 DEF ArtOneHand
<1>10. LoadsForArt'
  <2>1. asked' \subseteq thumbs' /\ \A x \in asked' : artCalled'[x] = called'[x]
    <3>1. asked \subseteq Request /\ asked \subseteq thumbs /\ r \notin asked
      BY <1>2 DEF LoadsForArt, ArtOwnTypes
    <3>2. r \in asked' => r \in thumbs /\ artCalled'[r] = 0
      BY <1>2, <1>5, <3>1
    <3> QED
      BY <1>1, <1>3, <1>8, <3>1, <3>2 DEF LoadsForArt
  <2>2. \A x \in thumbs' : x \in info' <=> artCalled'[x] = 0
    <3>1. \A x \in thumbs : x \in Request
      BY DEF ArtOwnTypes
    <3>2. r \in thumbs => (r \in info' <=> artCalled'[r] = 0)
      BY <1>2, <1>5, <1>6 DEF ArtOwnTypes
    <3> QED
      BY <1>1, <1>8, <3>1, <3>2 DEF LoadsForArt
  <2> QED
    BY <1>5, <2>1, <2>2 DEF LoadsForArt
<1>11. /\ outerRefs' = [x \in Request |-> outerRefs'[x]]
       /\ \A x \in Request :
            /\ outerRefs'[x] = OuterHeld(x)'
            /\ One(IF x \in thumbs' THEN outerRefs'[x] > 0 ELSE x \in held')
                 = One(IF x \in thumbs THEN outerRefs[x] > 0 ELSE x \in held) - One(Finalized(x))
  BY <1>1, <1>2, <1>5, <1>6, RecordGoes
<1>12. ArtBalance'
  <2> SUFFICES ASSUME NEW x \in Request PROVE (realRefs[x] = RealHeld(x))'
    BY <1>11 DEF ArtBalance
  <2>1. realRefs[x] = RealHeld(x) /\ realRefs[x] \in Nat
    BY DEF ArtBalance, ArtOwnTypes
  <2>2. realRefs'[x] = realRefs[x] - One(Finalized(x)) - One(r = x)
    BY <1>1, <2>1, UnrefsOne
  <2>3. One(ArtEntry(x)') = One(ArtEntry(x)) - One(r = x)
    <3>1. ArtEntry(r)
      BY DEF r, ArtEntry
    <3> QED
      BY <1>7, <3>1 DEF One
  <2>4. /\ One(x \in artPending') = One(x \in artPending)
        /\ One(x \in unqueueing') = One(x \in unqueueing)
    BY <1>1
  <2>5. \A p : One(p) \in Int
    BY DEF One
  <2>6. RealHeld(x)' = One(IF x \in thumbs' THEN outerRefs'[x] > 0 ELSE x \in held')
                         + One(x \in artPending') + One(x \in unqueueing') + One(ArtEntry(x)')
    BY DEF RealHeld, One
  <2> QED
    BY <1>11, <2>1, <2>2, <2>3, <2>4, <2>5, <2>6 DEF RealHeld
<1>13. realRefs' \in [Request -> Nat] /\ outerRefs' \in [Request -> Nat]
  BY <1>1, <1>11, <1>12, CountsTyped DEF UnrefReal
<1>14. ArtOwnTypes'
  BY <1>1, <1>7, <1>8, <1>13 DEF ArtOwnTypes
<1> QED
  BY <1>9, <1>10, <1>12, <1>14

\* What a load's step does to the application: at most one callback runs, of a
\* load that had none.
LEMMA LoadStepIs ==
  ASSUME LInv, (\E i \in Item : Timers(i)) \/ (\E m \in Message : Receive(m))
  PROVE  /\ UNCHANGED <<lib, asked, had, cancelled, wait>>
         /\ \/ called' = called
            \/ \E i \in asked : called[i] = 0 /\ called' = [called EXCEPT ![i] = 1]
<1> DEFINE Fine == /\ UNCHANGED <<lib, asked, had, cancelled, wait>>
                   /\ \/ called' = called
                      \/ \E i \in asked : called[i] = 0 /\ called' = [called EXCEPT ![i] = 1]
<1>1. ASSUME NEW i \in asked, CallBack(i), called[i] = 0, UNCHANGED <<lib, asked, had, cancelled, wait>>
      PROVE  Fine
  <2>1. called' = [called EXCEPT ![i] = 1]
    BY <1>1 DEF CallBack
  <2> QED
    BY <1>1, <2>1
<1>2. ASSUME UNCHANGED <<lib, asked, had, cancelled, wait, called>> PROVE Fine
  BY <1>2
<1>3. ASSUME UNCHANGED loadVars PROVE Fine
  BY <1>2, <1>3 DEF loadVars, histVars, callVars
<1>4. ASSUME NEW i, NEW k, NEW f, GotHandle(i, k, f) PROVE Fine
  <2>1. UNCHANGED <<lib, asked, had, cancelled, wait>> /\ i \in asked /\ called[i] = 0
    BY <1>4 DEF GotHandle, histVars, LInv, Awaited, LoadsTypeOK
  <2>2. called' = called \/ CallBack(i)
    BY <1>4 DEF GotHandle, Refuse, Enter, callVars
  <2> QED
    BY <1>1, <1>2, <2>1, <2>2
<1>5. ASSUME NEW i \in Item, Timers(i) PROVE Fine
  <2>1. CASE HaveAll(i)
    <3>1. UNCHANGED <<lib, asked, had, cancelled, wait>> /\ i \in asked /\ called[i] = 0 /\ CallBack(i)
      BY <2>1 DEF HaveAll, histVars, LInv, Awaited, LoadsTypeOK
    <3> QED
      BY <1>1, <3>1
  <2>2. CASE QueueTimesOut(i)
    BY <1>4, <2>2 DEF QueueTimesOut
  <2>3. CASE UnqueueTimesOut(i)
    <3>1. UNCHANGED <<lib, asked, had, cancelled, wait, called>>
      BY <2>3 DEF UnqueueTimesOut, callVars
    <3> QED
      BY <1>2, <3>1
  <2> QED
    BY <1>5, <2>1, <2>2, <2>3 DEF Timers
<1>6. ASSUME NEW k \in Handle, TaskFinished(k) PROVE Fine
  <2>1. k \in Key
    BY KeysAreKnown
  <2>2. CASE tasks[k] = None
    BY <1>3, <1>6, <2>2 DEF TaskFinished
  <2>3. CASE tasks[k] # None
    <3>1. UNCHANGED <<lib, asked, had, cancelled, wait>> /\ CallBack(tasks[k])
      BY <1>6, <2>3 DEF TaskFinished, histVars
    <3>2. tasks[k] \in asked /\ called[tasks[k]] = 0
      BY <2>1, <2>3 DEF LInv, Entered
    <3> QED
      BY <1>1, <3>1, <3>2
  <2> QED
    BY <2>2, <2>3
<1>7. ASSUME NEW m \in Message, Receive(m) PROVE Fine
  <2>1. CASE m.msg = "reply"
    <3>1. GotHandle(m.call[2], m.handle, FALSE) \/ TooLate(m.call[2])
      BY <1>7, <2>1 DEF Receive
    <3> QED
      BY <1>3, <1>4, <3>1 DEF TooLate
  <2>2. CASE m.msg = "noreply"
    <3>1. (\E k \in Garbage : GotHandle(m.call[2], k, TRUE)) \/ TooLate(m.call[2])
      BY <1>7, <2>2 DEF Receive
    <3> QED
      BY <1>3, <1>4, <3>1 DEF TooLate
  <2>3. CASE m.msg = "Error"
    <3>1. TaskError(m.task[2])
      BY <1>7, <2>3 DEF Receive
    <3>2. UNCHANGED <<lib, asked, had, cancelled, wait, called>>
      BY <3>1 DEF TaskError, histVars, callVars
    <3> QED
      BY <1>2, <3>2
  <2>4. CASE m.msg = "Finished"
    <3>1. TaskFinished(m.task[2]) /\ m.task[2] \in Handle
      BY <1>7, <2>4 DEF Receive, Message, Task
    <3> QED
      BY <1>6, <3>1
  <2> QED
    BY <2>1, <2>2, <2>3, <2>4 DEF Message
<1> QED
  BY <1>5, <1>7

LEMMA TimersKeep ==
  ASSUME LInv, NEW i \in Item, Timers(i)
  PROVE  LInv'
<1>1. CASE QueueTimesOut(i)
  <2>1. PICK k \in Garbage : GotHandle(i, k, TRUE)
    BY <1>1 DEF QueueTimesOut
  <2>2. k \in Key
    BY KeysAreKnown
  <2> QED
    BY <2>1, <2>2, GotHandleKeeps
<1>2. HaveAll(i) \/ QueueTimesOut(i) \/ UnqueueTimesOut(i)
  BY DEF Timers
<1> QED
  BY <1>1, <1>2, HaveAllKeeps, UnqueueTimesOutKeeps

LEMMA ArtVarsKeep ==
  ASSUME AInv, UNCHANGED artVars, UNCHANGED <<lib, cancelled, wait, asked, called>>
  PROVE  AInv'
<1> USE DEF AInv
<1>1. UNCHANGED <<thumbs, artAsked, artKey, artTasks, artWaiting, artPending, unqueueing, info,
                  outerRefs, realRefs, held, join, joined, unqueued, artCalled>>
  BY DEF artVars, madeVars, tableVars, joinVars
<1>2. ArtOwnTypes' /\ ArtOneHand' /\ LoadsForArt'
  BY <1>1 DEF ArtOwnTypes, ArtOneHand, LoadsForArt
<1>3. ArtBalance'
  BY <1>1 DEF ArtBalance, OuterHeld, RealHeld, ArtEntry
<1> QED
  BY <1>2, <1>3

\* thumb_callback, when a load of the library's own calls back.
LEMMA LoadsCallBackKeeps ==
  ASSUME AInv, LInv, LoadsCallBack,
         (\E i \in Item : Timers(i)) \/ (\E m \in Message : Receive(m))
  PROVE  AInv'
<1> USE DEF AInv
<1>1. UNCHANGED <<lib, asked, cancelled, wait>>
  BY LoadStepIs
<1>2. CASE called' = called
  BY <1>1, <1>2, ArtVarsKeep DEF LoadsCallBack
<1>3. CASE called' # called
  <2>1. PICK i \in asked : called[i] = 0 /\ called' = [called EXCEPT ![i] = 1]
    BY <1>3, LoadStepIs
  <2>2. \A x \in Request : called'[x] = IF x = i THEN 1 ELSE called[x]
    BY <2>1 DEF LInv, LoadsTypeOK, Request, Item
  <2>3. PICK r \in Request : called'[r] # called[r] /\ ThumbCallback(r)
    BY <1>3 DEF LoadsCallBack
  <2>4. r = i
    BY <2>2, <2>3
  <2>5. /\ artCalled' = [artCalled EXCEPT ![i] = @ + 1]
        /\ info' = info \ {i} /\ UnrefOuter(i) /\ UnrefReal(<<>>)
        /\ UNCHANGED <<thumbs, artAsked, artKey, artTasks, artWaiting, artPending, unqueueing, held,
                       join, joined, unqueued>>
    BY <1>3, <2>3, <2>4 DEF LoadsCallBack, ThumbCallback, ArtCallBack, madeVars,
             tableVars, joinVars
  <2>6. i \in Request /\ artCalled[i] = 0 /\ i \in thumbs /\ i \in info
    BY <2>1, <2>3, <2>4 DEF LoadsForArt
  <2>7. /\ artCalled' \in [Request -> Nat]
        /\ \A x \in Request : artCalled'[x] = IF x = i THEN 1 ELSE artCalled[x]
    BY <2>5, <2>6 DEF ArtOwnTypes
  <2>8. ArtOneHand'
    <3>1. i \notin artPending /\ \A k \in Key : artTasks[k] # i
      BY <2>1, <2>6, NoneAssumption DEF ArtOneHand, Request
    <3>2. \A k \in Key : artTasks[k] # None => artTasks[k] \in Request
      BY DEF ArtOwnTypes
    <3>3. artPending \subseteq Request
      BY DEF ArtOwnTypes
    <3>4. i \in artAsked
      BY <2>6 DEF ArtOwnTypes
    <3> QED
      BY <1>1, <2>5, <2>7, <3>1, <3>2, <3>3, <3>4 DEF ArtOneHand
  <2>9. LoadsForArt'
    <3>1. asked \subseteq Request /\ thumbs \subseteq Request
      BY DEF LoadsForArt, ArtOwnTypes
    <3> QED
      BY <1>1, <2>2, <2>5, <2>7, <3>1 DEF LoadsForArt
  <2>10. /\ outerRefs' = [x \in Request |-> outerRefs'[x]]
         /\ \A x \in Request :
              /\ outerRefs'[x] = OuterHeld(x)'
              /\ One(IF x \in thumbs' THEN outerRefs'[x] > 0 ELSE x \in held')
                   = One(IF x \in thumbs THEN outerRefs[x] > 0 ELSE x \in held) - One(Finalized(x))
    BY <2>5, <2>6, RecordGoes
  <2>11. ArtBalance'
    <3> SUFFICES ASSUME NEW x \in Request PROVE (realRefs[x] = RealHeld(x))'
      BY <2>10 DEF ArtBalance
    <3>1. realRefs[x] = RealHeld(x) /\ realRefs[x] \in Nat
      BY DEF ArtBalance, ArtOwnTypes
    <3>2. realRefs'[x] = realRefs[x] - One(Finalized(x))
      BY <2>5, <3>1, UnrefsNone
    <3>3. /\ One(x \in artPending') = One(x \in artPending)
          /\ One(x \in unqueueing') = One(x \in unqueueing)
          /\ One(ArtEntry(x)') = One(ArtEntry(x))
      BY <2>5 DEF ArtEntry
    <3>4. \A p : One(p) \in Int
      BY DEF One
    <3>5. RealHeld(x)' = One(IF x \in thumbs' THEN outerRefs'[x] > 0 ELSE x \in held')
                           + One(x \in artPending') + One(x \in unqueueing') + One(ArtEntry(x)')
      BY DEF RealHeld, One
    <3> QED
      BY <2>10, <3>1, <3>2, <3>3, <3>4, <3>5 DEF RealHeld
  <2>12. realRefs' \in [Request -> Nat] /\ outerRefs' \in [Request -> Nat]
    BY <2>5, <2>10, <2>11, CountsTyped DEF UnrefReal
  <2>13. ArtOwnTypes'
    BY <2>5, <2>7, <2>12 DEF ArtOwnTypes
  <2> QED
    BY <2>8, <2>9, <2>11, <2>13
<1> QED
  BY <1>2, <1>3

\* The two halves of an album art client, and every step of either.
ArtIInv == IInv /\ AInv

LEMMA ArtNextIInv == ArtIInv /\ [ArtNext]_artSpecVars => ArtIInv'
<1> SUFFICES ASSUME ArtIInv, [ArtNext]_artSpecVars PROVE ArtIInv'
  OBVIOUS
<1>1. DaemonTypeOK /\ Owes /\ LInv /\ AInv
  BY TypeSplit DEF ArtIInv, IInv, LInv
<1>2. SUFFICES DaemonTypeOK' /\ Owes' /\ LInv' /\ AInv'
  <2>1. TypeOK' <=> DaemonTypeOK' /\ LoadsTypeOK'
    BY DEF TypeOK, LoadsTypeOK
  <2> QED
    BY <1>2, <2>1 DEF ArtIInv, IInv, LInv
<1>3. ASSUME UNCHANGED world, UNCHANGED daemonVars, CallLeaves, MessageTaken
      PROVE  DaemonTypeOK' /\ Owes'
  BY <1>1, <1>3, EndTyped
<1>4. ASSUME UNCHANGED busVars PROVE DaemonTypeOK' /\ Owes'
  <2>1. UNCHANGED world /\ UNCHANGED daemonVars /\ CallLeaves /\ MessageTaken
    BY <1>4 DEF busVars, CallLeaves, MessageTaken
  <2> QED
    BY <1>3, <2>1
<1>5. ASSUME UNCHANGED loadVars PROVE LInv' /\ UNCHANGED <<lib, cancelled, wait, asked, called>>
  BY <1>1, <1>5, LoadVarsKeep DEF loadVars, histVars, callVars
<1>6. CASE Daemon({}) /\ UNCHANGED <<loadVars, artVars>>
  <2>1. DaemonTypeOK' /\ Owes'
    BY <1>1, <1>6, DaemonSteps
  <2> QED
    BY <1>1, <1>5, <1>6, <2>1, ArtVarsKeep
<1>7. ASSUME NEW r \in Request, QueueArt(r)
      PROVE  DaemonTypeOK' /\ Owes' /\ LInv' /\ AInv'
  <2>1. UNCHANGED loadVars /\ AskDaemon("albumart", r)
    BY <1>7 DEF QueueArt
  <2>2. <<"albumart", r>> \in Call
    BY BothServices DEF Call, Request
  <2>3. UNCHANGED world /\ UNCHANGED daemonVars /\ CallLeaves /\ MessageTaken
    BY <2>1, <2>2 DEF AskDaemon, CallLeaves, MessageTaken
  <2> QED
    BY <1>1, <1>3, <1>5, <1>7, <2>1, <2>3, QueueArtKeeps
<1>8. ASSUME NEW r \in Request, UnqueueArt(r) \/ Release(r) \/ ArtUnqueueTimesOut(r)
      PROVE  DaemonTypeOK' /\ Owes' /\ LInv' /\ AInv'
  <2>1. UNCHANGED busVars /\ UNCHANGED loadVars
    BY <1>8 DEF UnqueueArt, Release, ArtUnqueueTimesOut, vars
  <2> QED
    BY <1>1, <1>4, <1>5, <1>8, <2>1, UnqueueArtKeeps, ReleaseKeeps, ArtUnqueueTimesOutKeeps
<1>9. CASE (\E r \in Request \cup {None} : Join(r)) \/ JoinFlag \/ JoinReturns
  <2>1. UNCHANGED busVars /\ UNCHANGED loadVars
    BY <1>9 DEF Join, JoinFlag, JoinReturns, vars
  <2> QED
    BY <1>1, <1>4, <1>5, <1>9, <2>1, JoinsKeep
<1>10. ASSUME NEW r \in Request, NEW k \in Key, GotArtHandle(r, k)
       PROVE  LInv' /\ AInv'
  BY <1>1, <1>5, <1>10, GotArtHandleKeeps DEF GotArtHandle
<1>11. ASSUME NEW r \in Request, ArtQueueTimesOut(r)
       PROVE  DaemonTypeOK' /\ Owes' /\ LInv' /\ AInv'
  <2>1. UNCHANGED busVars /\ \E k \in Garbage : GotArtHandle(r, k)
    BY <1>11 DEF ArtQueueTimesOut, Undisturbed
  <2> QED
    BY <1>4, <1>10, <2>1, KeysAreKnown
<1>12. ASSUME NEW i \in Item, Timers(i), LoadsCallBack
       PROVE  DaemonTypeOK' /\ Owes' /\ LInv' /\ AInv'
  <2>1. UNCHANGED busVars
    BY <1>12 DEF Timers, Undisturbed
  <2> QED
    BY <1>1, <1>4, <1>12, <2>1, TimersKeep, LoadsCallBackKeeps
<1>13. CASE DispatchBoth
  <2> DEFINE m == Head(wire)
  <2>1. wire # <<>> /\ wire \in Seq(Message) /\ TakeMessage
    BY <1>1, <1>13 DEF DispatchBoth, TakeMessage, DaemonTypeOK
  <2>2. m \in Message
    BY <2>1, SequencesTyped
  <2>3. UNCHANGED world /\ UNCHANGED daemonVars /\ MessageTaken
    BY <2>1 DEF TakeMessage, MessageTaken
  <2> HIDE DEF m
  <2>4. CASE ServiceOf(m) # "albumart"
    <3>1. Receive(m) /\ LoadsCallBack /\ UNCHANGED calls
      BY <1>13, <2>4 DEF DispatchBoth, m
    <3> QED
      BY <1>1, <1>3, <2>2, <2>3, <3>1, ReceiveKeeps, LoadsCallBackKeeps DEF CallLeaves
  <2>5. CASE ServiceOf(m) = "albumart"
    <3>1. ReceiveArt(m)
      BY <1>13, <2>5 DEF DispatchBoth, m
    <3>2. ASSUME UNCHANGED <<loadVars, artVars, calls>>
          PROVE  DaemonTypeOK' /\ Owes' /\ LInv' /\ AInv'
      BY <1>1, <1>3, <1>5, <2>3, <3>2, ArtVarsKeep DEF CallLeaves
    <3>3. ASSUME NEW k \in Key, GotArtHandle(m.call[2], k), UNCHANGED calls
          PROVE  DaemonTypeOK' /\ Owes' /\ LInv' /\ AInv'
      <4>1. m.call[2] \in Request
        BY <1>1, <3>3 DEF GotArtHandle, AInv, ArtOwnTypes
      <4> QED
        BY <1>3, <1>10, <2>3, <3>3, <4>1 DEF CallLeaves
    <3>4. CASE m.msg = "reply"
      <4>1. m.handle \in Key
        BY <2>2, <3>4, KeysAreKnown DEF Message
      <4>2. (GotArtHandle(m.call[2], m.handle) \/ ArtTooLate(m.call[2])) /\ UNCHANGED calls
        BY <3>1, <3>4 DEF ReceiveArt
      <4> QED
        BY <3>2, <3>3, <4>1, <4>2 DEF ArtTooLate
    <3>5. CASE m.msg = "noreply"
      <4>1. /\ (\E k \in Garbage : GotArtHandle(m.call[2], k)) \/ ArtTooLate(m.call[2])
            /\ UNCHANGED calls
        BY <3>1, <3>5 DEF ReceiveArt
      <4> QED
        BY <3>2, <3>3, <4>1, KeysAreKnown DEF ArtTooLate
    <3>6. CASE m.msg = "Finished"
      <4> DEFINE k == m.task[2]
      <4>1. k \in Key /\ ArtFinished(k)
        BY <2>2, <3>1, <3>6, KeysAreKnown DEF ReceiveArt, Message, Task
      <4> HIDE DEF k
      <4>2. CASE artTasks[k] = None
        BY <3>2, <4>1, <4>2 DEF ArtFinished
      <4>3. CASE artTasks[k] # None
        <5>1. AInv'
          BY <1>1, <4>1, <4>3, ArtFinishedKeeps
        <5>2. artTasks[k] \in Request
          BY <1>1, <4>1, <4>3 DEF AInv, ArtOwnTypes
        <5>3. Load(artTasks[k]) \/ (UNCHANGED loadVars /\ UNCHANGED calls)
          BY <4>1, <4>3 DEF ArtFinished, Intercept
        <5>4. LInv'
          BY <1>1, <1>5, <5>2, <5>3, LoadKeeps DEF Request, Item
        <5>5. CallLeaves
          <6>1. <<lib, artTasks[k]>> \in Call
            BY <1>1, <5>2, LibrariesAssumption DEF LInv, LoadsTypeOK, Call, Request
          <6> QED
            BY <5>3, <6>1 DEF CallLeaves, Load, FindAll, Miss
        <5> QED
          BY <1>3, <2>3, <5>1, <5>4, <5>5
      <4> QED
        BY <4>2, <4>3
    <3>7. m.msg # "Error"
      BY <2>2, <2>5 DEF Message, ServiceOf
    <3> QED
      BY <2>2, <3>4, <3>5, <3>6, <3>7 DEF Message
  <2> QED
    BY <2>4, <2>5
<1>14. CASE UNCHANGED artSpecVars
  <2>1. UNCHANGED busVars /\ UNCHANGED loadVars /\ UNCHANGED artVars
    BY <1>14 DEF artSpecVars, vars
  <2> QED
    BY <1>1, <1>4, <1>5, <2>1, ArtVarsKeep
<1> QED
  BY <1>6, <1>7, <1>8, <1>9, <1>11, <1>12, <1>13, <1>14 DEF ArtNext

-----------------------------------------------------------------------------
(* Album art requests where no call fails.                                   *)

ArtTracked ==
  \A r \in Request : artKey[r] # NoKey =>
    artKey[r] \in Handle /\ owner[<<"albumart", artKey[r]>>] = r

ArtExplained ==
  \A r \in artAsked :
    r \in artPending \/ ArtEntry(r) \/ artCalled[r] > 0 \/ r \in unqueued \/ r \in asked

ATrue == ArtTracked /\ ArtExplained

\* An entry is the request whose task has that handle.
LEMMA ArtEntryIsOwners ==
  ASSUME AInv, ArtTracked, NEW k \in Key, artTasks[k] # None
  PROVE  owner[<<"albumart", k>>] = artTasks[k]
BY KeysAreKnown DEF AInv, ArtOneHand, ArtOwnTypes, ArtTracked

\* A step that leaves the handles and their owners, and forgets no one.
LEMMA ArtStillTrue ==
  ASSUME ATrue, owner' = owner, artKey' = artKey, artAsked' = artAsked,
         \A r \in artAsked :
           /\ ArtEntry(r) => ArtEntry(r)' \/ artCalled'[r] > 0 \/ r \in unqueued \/ r \in asked'
           /\ artCalled[r] > 0 => artCalled'[r] > 0,
         artPending \subseteq artPending', unqueued \subseteq unqueued', asked \subseteq asked'
  PROVE  ATrue'
BY DEF ATrue, ArtTracked, ArtExplained

LEMMA QueueArtTrue ==
  ASSUME AInv, ATrue, NEW r \in Request, QueueArt(r), DaemonRests
  PROVE  ATrue'
<1>1. /\ artAsked' = artAsked \cup {r} /\ artPending' = artPending \cup {r} /\ owner' = owner
      /\ UNCHANGED <<artKey, artTasks, unqueued, artCalled, asked>>
  BY DEF QueueArt, joinVars, loadVars, DaemonRests
<1> QED
  BY <1>1 DEF ATrue, ArtTracked, ArtExplained, ArtEntry

LEMMA GotArtHandleTrue ==
  ASSUME AInv, ATrue, NEW r \in Request, NEW k \in Handle, owner[<<"albumart", k>>] = r,
         GotArtHandle(r, k), DaemonRests
  PROVE  ATrue'
<1>1. /\ r \in artPending /\ artPending' = artPending \ {r}
      /\ artKey' = [artKey EXCEPT ![r] = k] /\ artTasks' = [artTasks EXCEPT ![k] = r]
      /\ UNCHANGED <<artAsked, unqueued, artCalled, asked>> /\ owner' = owner
  BY DEF GotArtHandle, joinVars, madeVars, loadVars, DaemonRests
<1>2. k \in Key
  BY KeysAreKnown
<1>3. artTasks[k] = None
  <2>1. artTasks[k] # r
    BY <1>1, <1>2, NoneAssumption DEF AInv, ArtOneHand, Request
  <2> QED
    BY <1>2, <2>1, ArtEntryIsOwners DEF ATrue
<1>4. \A x \in artAsked : ArtEntry(x)' <=> x = r \/ ArtEntry(x)
  <2>1. \A l \in Key : artTasks'[l] = IF l = k THEN r ELSE artTasks[l]
    BY <1>1 DEF AInv, ArtOwnTypes
  <2>2. \A x \in artAsked : x # None
    BY NoneAssumption DEF AInv, ArtOwnTypes, Request
  <2> QED
    BY <1>2, <1>3, <2>1, <2>2 DEF ArtEntry
<1>5. \A x \in Request : artKey'[x] = IF x = r THEN k ELSE artKey[x]
  BY <1>1 DEF AInv, ArtOwnTypes
<1>6. ArtTracked'
  BY <1>1, <1>5 DEF ATrue, ArtTracked
<1>7. ArtExplained'
  BY <1>1, <1>4 DEF ATrue, ArtExplained
<1> QED
  BY <1>6, <1>7 DEF ATrue

LEMMA ArtUnqueueTimesOutTrue ==
  ASSUME AInv, ATrue, NEW r \in Request, ArtUnqueueTimesOut(r), DaemonRests
  PROVE  ATrue'
<1> DEFINE k == artKey[r]
<1>1. /\ r \in unqueueing /\ artTasks' = [artTasks EXCEPT ![k] = None]
      /\ UNCHANGED <<artKey, artPending, artAsked, unqueued, artCalled, asked>> /\ owner' = owner
  BY DEF ArtUnqueueTimesOut, ArtEntryRemoved, joinVars, madeVars, vars, loadVars,
           DaemonRests
<1>2. k # NoKey /\ k \in Key /\ r \in unqueued
  BY <1>1 DEF AInv, ArtOneHand, ArtOwnTypes
<1>3. owner[<<"albumart", k>>] = r
  BY <1>2 DEF ATrue, ArtTracked
<1> HIDE DEF k
<1>4. artTasks[k] \in {r, None}
  BY <1>2, <1>3, ArtEntryIsOwners DEF ATrue
<1>5. \A x \in Request : ArtEntry(x)' <=> x = None \/ (ArtEntry(x) /\ x # artTasks[k])
  BY <1>1, <1>2, EntryChanges DEF AInv
<1>6. \A x \in artAsked : x \in Request /\ x # None
  BY NoneAssumption DEF AInv, ArtOwnTypes, Request
<1> QED
  BY <1>1, <1>2, <1>4, <1>5, <1>6, ArtStillTrue

LEMMA ArtFinishedTrue ==
  ASSUME AInv, ATrue, NEW k \in Key, artTasks[k] # None, ArtFinished(k), DaemonRests
  PROVE  ATrue'
<1> DEFINE r == artTasks[k]
<1>1. /\ artTasks' = [artTasks EXCEPT ![k] = None] /\ owner' = owner
      /\ UNCHANGED <<artAsked, artKey, artPending, unqueued>>
  BY DEF ArtFinished, ArtEntryRemoved, joinVars, madeVars, DaemonRests
<1>2. r \in Request /\ artCalled[r] = 0
  BY DEF AInv, ArtOwnTypes, ArtOneHand
<1>3. \/ artCalled' = [artCalled EXCEPT ![r] = @ + 1] /\ asked' = asked
      \/ artCalled' = artCalled /\ asked' = asked \cup {r}
  BY DEF ArtFinished, Intercept, ThumbCallback, ArtCallBack, Load, loadVars
<1>4. \A x \in Request : ArtEntry(x)' <=> x = None \/ (ArtEntry(x) /\ x # r)
  BY <1>1, EntryChanges DEF AInv
<1>5. \A x \in artAsked : x \in Request /\ x # None
  BY NoneAssumption DEF AInv, ArtOwnTypes, Request
<1>6. artCalled \in [Request -> Nat]
  BY DEF AInv, ArtOwnTypes
<1> HIDE DEF r
<1>7. asked \subseteq asked' /\ (artCalled'[r] > 0 \/ r \in asked')
      /\ \A x \in Request : artCalled[x] > 0 => artCalled'[x] > 0
  BY <1>2, <1>3, <1>6
<1> QED
  BY <1>1, <1>4, <1>5, <1>7, ArtStillTrue

LEMMA ArtVarsTrue ==
  ASSUME AInv, ATrue, DaemonRests, UNCHANGED <<artKey, artTasks, artPending, artAsked>>,
         unqueued \subseteq unqueued', asked' = asked,
         \A r \in Request : artCalled[r] > 0 => artCalled'[r] > 0
  PROVE  ATrue'
<1>1. \A x \in artAsked : x \in Request
  BY DEF AInv, ArtOwnTypes
<1>2. \A x \in artAsked : ArtEntry(x)' = ArtEntry(x)
  BY DEF ArtEntry
<1>3. owner' = owner
  BY DEF DaemonRests
<1> QED
  BY <1>1, <1>2, <1>3, ArtStillTrue

LEMMA LoadsCallBackTrue ==
  ASSUME AInv, ATrue, LInv, LoadsCallBack, DaemonRests,
         (\E i \in Item : Timers(i)) \/ (\E m \in Message : Receive(m))
  PROVE  ATrue'
<1>1. asked' = asked
  BY LoadStepIs
<1>2. UNCHANGED <<artKey, artTasks, artPending, artAsked, unqueued>>
  BY DEF LoadsCallBack, artVars, madeVars, tableVars, joinVars
<1>3. \A r \in Request : artCalled[r] > 0 => artCalled'[r] > 0
  <2>1. CASE artCalled' = artCalled
    BY <2>1
  <2>2. CASE \E x \in Request : artCalled' = [artCalled EXCEPT ![x] = @ + 1]
    <3>1. PICK x \in Request : artCalled' = [artCalled EXCEPT ![x] = @ + 1]
      BY <2>2
    <3>2. artCalled \in [Request -> Nat]
      BY DEF AInv, ArtOwnTypes
    <3> QED
      BY <3>1, <3>2
  <2>3. artCalled' = artCalled \/ \E x \in Request : artCalled' = [artCalled EXCEPT ![x] = @ + 1]
    BY DEF LoadsCallBack, ThumbCallback, ArtCallBack, artVars
  <2> QED
    BY <2>1, <2>2, <2>3
<1> QED
  BY <1>1, <1>2, <1>3, ArtVarsTrue

LEMMA ArtElsewhereTrue ==
  ASSUME ATrue, Steady(Service), TasksStay, UNCHANGED <<loadVars, artVars>>
  PROVE  ATrue'
<1>1. UNCHANGED <<artAsked, artKey, artTasks, artPending, unqueued, artCalled, asked>>
  BY DEF loadVars, artVars, madeVars, tableVars
<1>2. \A r \in Request, k \in Handle :
        owner[<<"albumart", k>>] = r => owner'[<<"albumart", k>>] = r
  <2> TAKE r \in Request, k \in Handle
  <2>1. <<"albumart", k>> \in Task /\ r # None
    BY NoneAssumption, BothServices DEF Task, Request
  <2> QED
    BY <2>1 DEF TasksStay, Steady, Own
<1> QED
  BY <1>1, <1>2 DEF ATrue, ArtTracked, ArtExplained, ArtEntry

\* Every step of an album art client and of the daemon, in such a world.
LEMMA ArtNextTrue ==
  ASSUME ArtIInv, world # "rough", Steady(Service), LTrue, ATrue, [ArtNext]_artSpecVars
  PROVE  Steady(Service)' /\ LTrue' /\ ATrue'
<1>1. DaemonTypeOK /\ Owes /\ LInv /\ AInv /\ lib = "thumbnail"
  BY TypeSplit DEF ArtIInv, IInv, LInv, AInv, LoadsForArt
<1>2. Service \in SUBSET Service /\ {} \in SUBSET Service /\ lib \in Service
      /\ "albumart" \in Service
  BY <1>1, BothServices
<1>3. ASSUME UNCHANGED world, UNCHANGED daemonVars, MessageTaken,
             calls' = calls \/ \E c \in Service \X Caller : calls' = Append(calls, c)
      PROVE  Steady(Service)' /\ DaemonRests
  <2>1. Steady(Service)'
    BY <1>1, <1>2, <1>3, EndSteady
  <2>2. DaemonRests
    BY <1>3 DEF DaemonRests, daemonVars
  <2> QED
    BY <2>1, <2>2
<1>4. ASSUME UNCHANGED busVars PROVE Steady(Service)' /\ DaemonRests
  <2>1. UNCHANGED world /\ UNCHANGED daemonVars /\ calls' = calls /\ MessageTaken
    BY <1>4 DEF busVars, MessageTaken
  <2> QED
    BY <1>3, <2>1
<1>5. ASSUME UNCHANGED loadVars, DaemonRests
      PROVE  LTrue' /\ asked' = asked
  <2>1. LTrue'
    BY <1>5, LoadVarsTrue
  <2> QED
    BY <1>5, <2>1 DEF loadVars
<1>6. CASE Daemon({}) /\ UNCHANGED <<loadVars, artVars>>
  <2>1. Steady(Service)' /\ TasksStay
    BY <1>1, <1>2, <1>6, DaemonSteady
  <2> QED
    BY <1>2, <1>6, <2>1, ElsewhereTrue, ArtElsewhereTrue
<1>7. ASSUME NEW r \in Request, QueueArt(r)
      PROVE  Steady(Service)' /\ LTrue' /\ ATrue'
  <2>1. UNCHANGED loadVars /\ AskDaemon("albumart", r)
    BY <1>7 DEF QueueArt
  <2>2. <<"albumart", r>> \in Service \X Caller
    BY <1>2 DEF Request
  <2>3. Steady(Service)' /\ DaemonRests
    BY <1>3, <2>1, <2>2 DEF AskDaemon, MessageTaken
  <2> QED
    BY <1>1, <1>5, <1>7, <2>1, <2>3, QueueArtTrue
<1>8. ASSUME UNCHANGED busVars, UNCHANGED loadVars,
             UNCHANGED <<artKey, artTasks, artPending, artAsked, artCalled>>,
             unqueued \subseteq unqueued'
      PROVE  Steady(Service)' /\ LTrue' /\ ATrue'
  <2>1. Steady(Service)' /\ DaemonRests
    BY <1>4, <1>8
  <2>2. LTrue' /\ asked' = asked
    BY <1>5, <1>8, <2>1
  <2> QED
    BY <1>1, <1>8, <2>1, <2>2, ArtVarsTrue
<1>9. ASSUME NEW r \in Request, UnqueueArt(r) \/ Release(r)
      PROVE  Steady(Service)' /\ LTrue' /\ ATrue'
  BY <1>8, <1>9 DEF UnqueueArt, Release, vars, madeVars, tableVars
<1>10. CASE (\E r \in Request \cup {None} : Join(r)) \/ JoinFlag \/ JoinReturns
  BY <1>8, <1>10 DEF Join, JoinFlag, JoinReturns, vars, madeVars, tableVars
<1>11. ASSUME NEW r \in Request, ArtUnqueueTimesOut(r)
       PROVE  Steady(Service)' /\ LTrue' /\ ATrue'
  <2>1. UNCHANGED busVars /\ UNCHANGED loadVars
    BY <1>11 DEF ArtUnqueueTimesOut, vars
  <2> QED
    BY <1>1, <1>4, <1>5, <1>11, <2>1, ArtUnqueueTimesOutTrue
<1>12. ASSUME NEW r \in Request, ArtQueueTimesOut(r) PROVE FALSE
  BY <1>12 DEF ArtQueueTimesOut, MayFail
<1>13. ASSUME NEW i \in Item, Timers(i), LoadsCallBack
       PROVE  Steady(Service)' /\ LTrue' /\ ATrue'
  <2>1. UNCHANGED busVars /\ (HaveAll(i) \/ UnqueueTimesOut(i))
    BY <1>13 DEF Timers, Undisturbed, QueueTimesOut, MayFail
  <2>2. Steady(Service)' /\ DaemonRests
    BY <1>4, <2>1
  <2> QED
    BY <1>1, <1>13, <2>1, <2>2, HaveAllTrue, UnqueueTimesOutTrue, LoadsCallBackTrue
<1>14. CASE DispatchBoth
  <2> DEFINE m == Head(wire)
  <2>1. wire # <<>> /\ TakeMessage
    BY <1>14 DEF DispatchBoth, TakeMessage
  <2>2. m \in Sound(Service)
    BY <2>1, SequencesTyped DEF Steady
  <2>3. m \in Message /\ m.msg # "noreply" /\ From(m) = ServiceOf(m)
    BY <2>2 DEF Sound, From, ServiceOf
  <2>4. UNCHANGED world /\ UNCHANGED daemonVars /\ MessageTaken
    BY <2>1 DEF TakeMessage, MessageTaken
  <2>5. DaemonRests
    BY <2>4 DEF DaemonRests, daemonVars
  <2> HIDE DEF m
  <2>6. CASE ServiceOf(m) # "albumart"
    <3>1. Receive(m) /\ LoadsCallBack /\ UNCHANGED calls
      BY <1>14, <2>6 DEF DispatchBoth, m
    <3>2. From(m) = lib
      BY <1>1, <2>2, <2>3, <2>6, BothServices DEF Sound
    <3> QED
      BY <1>1, <1>3, <2>2, <2>3, <2>4, <2>5, <3>1, <3>2, ReceiveTrue, LoadsCallBackTrue
  <2>7. CASE ServiceOf(m) = "albumart"
    <3>1. ReceiveArt(m)
      BY <1>14, <2>7 DEF DispatchBoth, m
    <3>2. ASSUME UNCHANGED <<loadVars, artVars, calls>>
          PROVE  Steady(Service)' /\ LTrue' /\ ATrue'
      <4>1. LTrue' /\ asked' = asked
        BY <1>5, <2>5, <3>2
      <4>2. UNCHANGED <<artKey, artTasks, artPending, artAsked, artCalled, unqueued>>
        BY <3>2 DEF artVars, madeVars, tableVars
      <4> QED
        BY <1>1, <1>3, <2>4, <2>5, <3>2, <4>1, <4>2, ArtVarsTrue
    <3>3. CASE m.msg = "reply"
      <4> DEFINE r == m.call[2]
                 k == m.handle
      <4>1. r \in Request /\ k \in Handle /\ owner[<<"albumart", k>>] = r
        BY <2>2, <2>3, <2>7, <3>3 DEF Sound, Message, Call, Request, ServiceOf
      <4>2. (GotArtHandle(r, k) \/ ArtTooLate(r)) /\ UNCHANGED calls
        BY <3>1, <3>3 DEF ReceiveArt
      <4> HIDE DEF r, k
      <4>3. CASE GotArtHandle(r, k)
        <5>1. UNCHANGED loadVars
          BY <4>3 DEF GotArtHandle
        <5> QED
          BY <1>1, <1>3, <1>5, <2>4, <2>5, <4>1, <4>2, <4>3, <5>1, GotArtHandleTrue
      <4> QED
        BY <3>2, <4>2, <4>3 DEF ArtTooLate
    <3>4. CASE m.msg = "Finished"
      <4> DEFINE k == m.task[2]
      <4>1. k \in Key /\ ArtFinished(k)
        BY <2>3, <3>1, <3>4, KeysAreKnown DEF ReceiveArt, Message, Task
      <4> HIDE DEF k
      <4>2. CASE artTasks[k] = None
        BY <3>2, <4>1, <4>2 DEF ArtFinished
      <4>3. CASE artTasks[k] # None
        <5>1. artTasks[k] \in Item
          BY <1>1, <4>1, <4>3 DEF AInv, ArtOwnTypes, Request, Item
        <5>2. Load(artTasks[k]) \/ (UNCHANGED loadVars /\ UNCHANGED calls)
          BY <4>1, <4>3 DEF ArtFinished, Intercept
        <5>3. LTrue'
          BY <1>1, <1>5, <2>5, <5>1, <5>2, LoadTrue
        <5>4. calls' = calls \/ \E c \in Service \X Caller : calls' = Append(calls, c)
          <6>1. <<lib, artTasks[k]>> \in Service \X Caller
            BY <1>2, <5>1 DEF Item
          <6> QED
            BY <5>2, <6>1 DEF Load, FindAll, Miss
        <5> QED
          BY <1>1, <1>3, <2>4, <2>5, <4>1, <4>3, <5>3, <5>4, ArtFinishedTrue
      <4> QED
        BY <4>2, <4>3
    <3>5. m.msg # "Error"
      BY <2>3, <2>7 DEF Message, ServiceOf
    <3> QED
      BY <2>3, <3>3, <3>4, <3>5 DEF Message
  <2> QED
    BY <2>6, <2>7
<1>15. CASE UNCHANGED artSpecVars
  <2>1. UNCHANGED busVars /\ UNCHANGED loadVars
        /\ UNCHANGED <<artKey, artTasks, artPending, artAsked, artCalled, unqueued>>
    BY <1>15 DEF artSpecVars, vars, artVars, madeVars, tableVars
  <2> QED
    BY <1>8, <2>1
<1> QED
  BY <1>6, <1>7, <1>9, <1>10, <1>11, <1>12, <1>13, <1>14, <1>15 DEF ArtNext

\* As of the loads: one call under way at most, and none when a join looks at
\* the table.
ArtOrderly ==
  world = "orderly" =>
    /\ ~artWaiting => artPending = {}
    /\ \A r, x \in artPending : r = x
    /\ join = "table" => artPending = {}

LEMMA ArtNextOrderly ==
  ASSUME DaemonTypeOK, ArtOrderly, [ArtNext]_artSpecVars
  PROVE  ArtOrderly'
<1>1. CASE UNCHANGED <<world, artWaiting, artPending, join>>
  BY <1>1 DEF ArtOrderly
<1>2. CASE UNCHANGED artVars /\ world' = world
  BY <1>1, <1>2 DEF artVars, tableVars, joinVars
<1>3. CASE Daemon({}) /\ UNCHANGED <<loadVars, artVars>>
  BY <1>2, <1>3 DEF Daemon, Serve, ServeQueue, Accept, Reply, ServeOther, SendError,
                    SendFinished, Exit, Restart
<1>4. ASSUME NEW r \in Request, QueueArt(r)
      PROVE  ArtOrderly'
  <2>1. artWaiting' = TRUE /\ artPending' = artPending \cup {r} /\ join' = join /\ join = "no"
        /\ world' = world /\ (world = "orderly" => ~artWaiting)
    BY <1>4 DEF QueueArt, AskDaemon, joinVars, Serial
  <2> QED
    BY <2>1 DEF ArtOrderly
<1>5. ASSUME NEW r \in Request, UnqueueArt(r) \/ Release(r) \/ ArtUnqueueTimesOut(r)
      PROVE  ArtOrderly'
  BY <1>1, <1>5 DEF UnqueueArt, Release, ArtUnqueueTimesOut, vars, busVars, tableVars,
           joinVars
<1>6. CASE (\E r \in Request \cup {None} : Join(r)) \/ JoinFlag \/ JoinReturns
  BY <1>6 DEF Join, JoinFlag, ArtFlagDown, JoinReturns, ArtOrderly, vars, busVars, tableVars
<1>7. ASSUME NEW r, NEW k, GotArtHandle(r, k), world' = world
      PROVE  ArtOrderly'
  <2>1. r \in artPending /\ artPending' = artPending \ {r} /\ join' = join
    BY <1>7 DEF GotArtHandle, joinVars
  <2> QED
    BY <1>7, <2>1 DEF ArtOrderly
<1>8. ASSUME NEW r \in Request, ArtQueueTimesOut(r)
      PROVE  ArtOrderly'
  BY <1>7, <1>8 DEF ArtQueueTimesOut, Undisturbed, busVars
<1>9. ASSUME LoadsCallBack, world' = world
      PROVE  ArtOrderly'
  BY <1>1, <1>2, <1>9 DEF LoadsCallBack, tableVars, joinVars
<1>10. ASSUME NEW i \in Item, Timers(i), LoadsCallBack
       PROVE  ArtOrderly'
  BY <1>9, <1>10 DEF Timers, Undisturbed, busVars
<1>11. CASE DispatchBoth
  <2> DEFINE m == Head(wire)
  <2>1. world' = world
    BY <1>11 DEF DispatchBoth, TakeMessage
  <2>2. CASE ServiceOf(m) # "albumart"
    BY <1>9, <1>11, <2>1, <2>2 DEF DispatchBoth
  <2>3. ASSUME NEW k, ArtFinished(k)
        PROVE  ArtOrderly'
    BY <1>1, <1>2, <2>1, <2>3 DEF ArtFinished, joinVars
  <2>4. ASSUME NEW r, ArtTooLate(r)
        PROVE  ArtOrderly'
    BY <1>2, <2>1, <2>4 DEF ArtTooLate
  <2>5. CASE ServiceOf(m) = "albumart"
    <3>1. ReceiveArt(m) /\ wire # <<>>
      BY <1>11, <2>5 DEF DispatchBoth, TakeMessage
    <3>2. m \in Message
      BY <3>1, SequencesTyped DEF DaemonTypeOK
    <3> HIDE DEF m
    <3>3. m.msg \in {"reply", "noreply", "Finished"}
      BY <2>5, <3>2 DEF Message, ServiceOf
    <3> QED
      BY <1>7, <2>1, <2>3, <2>4, <3>1, <3>3 DEF ReceiveArt
  <2> QED
    BY <2>2, <2>5
<1>12. CASE UNCHANGED artSpecVars
  BY <1>2, <1>12 DEF artSpecVars, vars, busVars
<1> QED
  BY <1>3, <1>4, <1>5, <1>6, <1>8, <1>10, <1>11, <1>12 DEF ArtNext

LEMMA ArtInitIInv == Init /\ lib = "thumbnail" /\ ArtInit => ArtIInv
<1> SUFFICES ASSUME Init, lib = "thumbnail", ArtInit PROVE ArtIInv
  OBVIOUS
<1>1. IInv
  BY InitIInv
<1> USE DEF ArtInit
<1>2. ArtOwnTypes /\ ArtOneHand
  <2>1. ArtOwnTypes
    BY DEF ArtOwnTypes
  <2>2. (\A k \in Key : artTasks[k] = None) /\ artPending = {} /\ unqueueing = {}
        /\ (\A r \in Request : artKey[r] = NoKey /\ artCalled[r] = 0)
    OBVIOUS
  <2>3. ArtOneHand
    BY <2>2 DEF ArtOneHand
  <2> QED
    BY <2>1, <2>3
<1>3. LoadsForArt
  BY DEF LoadsForArt, Init, LoadsInit
<1>4. ArtBalance
  <2>1. \A r \in Request : ~ArtEntry(r)
    BY NoneAssumption DEF ArtEntry, Request
  <2> QED
    BY <2>1 DEF ArtBalance, OuterHeld, RealHeld, One
<1> QED
  BY <1>1, <1>2, <1>3, <1>4 DEF ArtIInv, AInv

LEMMA ArtInitTrue ==
  ASSUME Init, lib = "thumbnail", ArtInit
  PROVE  Steady(Service) /\ LTrue /\ ATrue /\ ArtOrderly
<1>1. Steady(Service)
  BY InitSteady DEF Init
<1>2. LTrue
  BY InitTrue
<1>3. ATrue /\ ArtOrderly
  BY DEF ArtInit, ATrue, ArtTracked, ArtExplained, ArtOrderly
<1> QED
  BY <1>1, <1>2, <1>3

-----------------------------------------------------------------------------
(* What the invariants say of the properties.                                *)

LEMMA LTrueMeans ==
  ASSUME LTrue
  PROVE  FreedOnlyWhenDone /\ CalledBackForItsOwnTask
BY DEF LTrue, Explained, FreedOnlyWhenDone, CalledBackForItsOwnTask

LEMMA WaitReturnsMeans ==
  ASSUME LInv, LTrue, Orderly, world = "orderly", WaitReturns
  PROVE  \A i \in asked \ had : called[i] > 0 \/ i \in cancelled \/ misread
<1>1. pending = {} /\ \A k \in Key : tasks[k] = None
  BY DEF WaitReturns, Orderly
<1>2. \A i \in asked : i # None
  BY NoneAssumption DEF LInv, LoadsTypeOK, Item
<1> QED
  BY <1>1, <1>2 DEF LTrue, Explained

LEMMA ArtRefsCounted ==
  ASSUME ArtIInv
  PROVE  ArtRefsBalance /\ ArtCalledBackAtMostOnce
<1>1. AInv /\ TypeOK /\ LInv
  BY TypeSplit DEF ArtIInv, IInv, LInv
<1>2. ArtTypeOK
  BY <1>1 DEF ArtTypeOK, AInv, ArtOwnTypes, LoadsForArt
<1>3. ASSUME NEW r \in artAsked
      PROVE  ArtKeys(r) = (IF ArtEntry(r) THEN {artKey[r]} ELSE {})
             /\ Cardinality(ArtKeys(r)) = One(ArtEntry(r))
  <2>1. r \in Request /\ r # None
    BY <1>1, NoneAssumption DEF AInv, ArtOwnTypes, Request
  <2>2. \A k \in Key : artTasks[k] = r => artKey[r] = k
    BY <1>1, <2>1 DEF AInv, ArtOneHand
  <2>3. CASE ArtEntry(r)
    <3>1. ArtKeys(r) = {artKey[r]}
      BY <2>2, <2>3 DEF ArtKeys, ArtEntry
    <3> QED
      BY <2>3, <3>1, FS_Singleton DEF One
  <2>4. CASE ~ArtEntry(r)
    <3>1. ArtKeys(r) = {}
      BY <2>4 DEF ArtKeys, ArtEntry
    <3> QED
      BY <2>4, <3>1, FS_EmptySet DEF One
  <2> QED
    BY <2>3, <2>4
<1>4. ArtRefsBalance
  <2>1. \A r \in artAsked : r \in Request
    BY <1>1 DEF AInv, ArtOwnTypes
  <2> QED
    BY <1>1, <1>2, <1>3, <2>1 DEF ArtRefsBalance, AInv, ArtBalance, OuterHeld, RealHeld
<1>5. ArtCalledBackAtMostOnce
  <2> SUFFICES ASSUME NEW r \in artAsked
               PROVE  /\ artCalled[r] <= 1
                      /\ artCalled[r] = 1 =>
                           /\ r \notin artPending \cup info \cup pending \cup idle
                           /\ ArtKeys(r) = {} /\ Entries(r) = {}
                      /\ r \in asked => r \in thumbs
    BY DEF ArtCalledBackAtMostOnce
  <2>1. r \in Request /\ r # None /\ r \in Item
    BY <1>1, NoneAssumption DEF AInv, ArtOwnTypes, Request, Item
  <2>2. artCalled[r] <= 1 /\ (r \in asked => r \in thumbs)
    BY <1>1, <2>1 DEF AInv, ArtOneHand, LoadsForArt
  <2>3. ASSUME artCalled[r] = 1
        PROVE  /\ r \notin artPending \cup info
               /\ ArtKeys(r) = {}
    BY <1>1, <2>1, <2>3 DEF AInv, ArtOneHand, ArtOwnTypes, LoadsForArt, ArtKeys
  <2>4. ASSUME artCalled[r] = 1
        PROVE  r \notin pending \cup idle /\ Entries(r) = {}
    <3>1. CASE r \in asked
      <4>1. called[r] = 1
        BY <1>1, <2>4, <3>1 DEF AInv, LoadsForArt
      <4>2. CalledBackAtMostOnce
        BY IInvMeans DEF ArtIInv
      <4> QED
        BY <2>1, <4>1, <4>2 DEF CalledBackAtMostOnce
    <3>2. CASE r \notin asked
      BY <1>1, <2>1, <3>2 DEF LInv, LoadsTypeOK, Entered, Entries
    <3> QED
      BY <3>1, <3>2
  <2> QED
    BY <2>2, <2>3, <2>4
<1> QED
  BY <1>4, <1>5

LEMMA ArtJoinMeans ==
  ASSUME AInv, ATrue, ArtOrderly
  PROVE  ArtJoinIsComplete
<1> SUFFICES ASSUME world = "orderly", JoinReturns, joined = None, NEW r \in artAsked
             PROVE  artCalled[r] > 0 \/ r \in unqueued \/ r \in asked
  BY DEF ArtJoinIsComplete
<1>1. artPending = {} /\ \A k \in Key : artTasks[k] = None
  BY DEF JoinReturns, NothingToJoin, ArtOrderly
<1>2. r # None
  BY NoneAssumption DEF AInv, ArtOwnTypes, Request
<1> QED
  BY <1>1, <1>2 DEF ATrue, ArtExplained, ArtEntry

-----------------------------------------------------------------------------
(* The requests of ThumbFactory, as Clients has them: what is proved of that *)
(* module is true of it with this module's variables.                        *)

LEMMA SameDaemon == Factory!Daemon({"thumbnail"}) <=> Thumbs!Daemon({"thumbnail"})
BY Zenon DEF Thumbs!Daemon, Factory!Daemon, Thumbs!Serve, Factory!Serve,
         Thumbs!ServeQueue, Factory!ServeQueue, Thumbs!Accept, Factory!Accept,
         Thumbs!NewHandle, Factory!NewHandle, Thumbs!TaskLimit, Factory!TaskLimit,
         Thumbs!MayFail, Factory!MayFail, Thumbs!Reply, Factory!Reply,
         Thumbs!ServeOther, Factory!ServeOther, Thumbs!CallOf, Factory!CallOf,
         Thumbs!Own, Factory!Own, Thumbs!SendError, Factory!SendError, Thumbs!Finished,
         Factory!Finished, Thumbs!SendFinished, Factory!SendFinished, Thumbs!Exit,
         Factory!Exit, Thumbs!Restart, Factory!Restart, Thumbs!Task, Factory!Task,
         Thumbs!Handle, Factory!Handle

LEMMA SameApplication == Factory!Application <=> Thumbs!Application
BY Zenon DEF Thumbs!Application, Factory!Application, Thumbs!MakeRequest,
         Factory!MakeRequest, Thumbs!Serial, Factory!Serial, Thumbs!MissThumbnail,
         Factory!MissThumbnail, Thumbs!AskDaemon, Factory!AskDaemon, Thumbs!UseCache,
         Factory!UseCache, Thumbs!callVars, Factory!callVars, Thumbs!busVars,
         Factory!busVars, Thumbs!daemonVars, Factory!daemonVars, Thumbs!Unqueue,
         Factory!Unqueue, Thumbs!NoKey, Factory!NoKey, Thumbs!appVars, Factory!appVars,
         Thumbs!NotCalled, Factory!NotCalled, Thumbs!Release, Factory!Release,
         Thumbs!Unref, Factory!Unref, Thumbs!Cardinality, Factory!Cardinality,
         Thumbs!IsFiniteSet, Factory!IsFiniteSet, Thumbs!Request, Factory!Request,
         Thumbs!Join, Factory!Join, Thumbs!Joins, Factory!Joins, Thumbs!libVars,
         Factory!libVars

LEMMA SameDispatch == Factory!Dispatch <=> Thumbs!Dispatch
BY Zenon DEF Thumbs!Dispatch, Factory!Dispatch, Thumbs!TakeMessage, Factory!TakeMessage,
         Thumbs!daemonVars, Factory!daemonVars, Thumbs!GotHandle, Factory!GotHandle,
         Thumbs!Unref, Factory!Unref, Thumbs!Cardinality, Factory!Cardinality,
         Thumbs!IsFiniteSet, Factory!IsFiniteSet, Thumbs!Dropped, Factory!Dropped,
         Thumbs!Request, Factory!Request, Thumbs!TooLate, Factory!TooLate,
         Thumbs!TaskError, Factory!TaskError, Thumbs!TaskFinished, Factory!TaskFinished,
         Thumbs!RunsCallback, Factory!RunsCallback, Thumbs!CallBack, Factory!CallBack,
         Thumbs!Removed, Factory!Removed, Thumbs!libVars, Factory!libVars,
         Thumbs!callVars, Factory!callVars, Thumbs!appVars, Factory!appVars

LEMMA SameLoop == Factory!Loop <=> Thumbs!Loop
<1>1. Factory!JoinFlag <=> Thumbs!JoinFlag
  BY Zenon DEF Thumbs!JoinFlag, Factory!JoinFlag, Thumbs!FlagDown, Factory!FlagDown,
         Thumbs!busVars, Factory!busVars, Thumbs!daemonVars, Factory!daemonVars,
         Thumbs!libVars, Factory!libVars, Thumbs!NotCalled, Factory!NotCalled,
         Thumbs!callVars, Factory!callVars
<1>2. Factory!JoinReturns <=> Thumbs!JoinReturns
  BY Zenon DEF Thumbs!JoinReturns, Factory!JoinReturns, Thumbs!NothingToJoin,
         Factory!NothingToJoin, Thumbs!Key, Factory!Key, Thumbs!Handle, Factory!Handle,
         Thumbs!NoKey, Factory!NoKey, Thumbs!busVars, Factory!busVars,
         Thumbs!daemonVars, Factory!daemonVars, Thumbs!libVars, Factory!libVars,
         Thumbs!NotCalled, Factory!NotCalled, Thumbs!callVars, Factory!callVars
<1>3. (\E r \in Factory!Request : Factory!HaveAll(r) \/ Factory!QueueTimesOut(r) \/ Factory!UnqueueTimesOut(r))
        <=> (\E r \in Thumbs!Request : Thumbs!HaveAll(r) \/ Thumbs!QueueTimesOut(r) \/ Thumbs!UnqueueTimesOut(r))
  BY Zenon DEF Thumbs!Request, Factory!Request, Thumbs!HaveAll, Factory!HaveAll,
           Thumbs!Unref, Factory!Unref, Thumbs!Cardinality, Factory!Cardinality,
           Thumbs!IsFiniteSet, Factory!IsFiniteSet, Thumbs!CallBack, Factory!CallBack,
           Thumbs!busVars, Factory!busVars, Thumbs!daemonVars, Factory!daemonVars,
           Thumbs!appVars, Factory!appVars, Thumbs!QueueTimesOut, Factory!QueueTimesOut,
           Thumbs!MayFail, Factory!MayFail, Thumbs!GotHandle, Factory!GotHandle,
           Thumbs!Dropped, Factory!Dropped, Thumbs!UnqueueTimesOut,
           Factory!UnqueueTimesOut, Thumbs!Removed, Factory!Removed, Thumbs!NotCalled,
           Factory!NotCalled, Thumbs!callVars, Factory!callVars
<1> QED
  BY <1>1, <1>2, <1>3, SameDispatch DEF Factory!Loop, Thumbs!Loop

LEMMA SameNext == Thumbs!Next <=> Factory!Next
<1>1. Factory!Elsewhere <=> Thumbs!Elsewhere
  BY SameDaemon, Zenon DEF Factory!Elsewhere, Thumbs!Elsewhere, Factory!libVars,
           Thumbs!libVars, Factory!appVars, Thumbs!appVars, Factory!callVars,
           Thumbs!callVars
<1> QED
  BY <1>1, SameApplication, SameLoop DEF Thumbs!Next, Factory!Next

LEMMA SameBalance == Thumbs!RefsBalance <=> Factory!RefsBalance
<1>1. Factory!TypeOK <=> Thumbs!TypeOK
  BY Zenon DEF Thumbs!TypeOK, Factory!TypeOK, Thumbs!DaemonTypeOK, Factory!DaemonTypeOK,
         Thumbs!Message, Factory!Message, Thumbs!Call, Factory!Call, Thumbs!Task,
         Factory!Task, Thumbs!Key, Factory!Key, Thumbs!NoKey, Factory!NoKey,
         Thumbs!Handle, Factory!Handle, Thumbs!Request, Factory!Request
<1> QED
  BY <1>1, Zenon DEF Thumbs!RefsBalance, Factory!RefsBalance, Thumbs!Cardinality,
           Factory!Cardinality, Thumbs!IsFiniteSet, Factory!IsFiniteSet, Thumbs!One,
           Factory!One, Thumbs!Keys, Factory!Keys, Thumbs!Key, Factory!Key,
           Thumbs!Handle, Factory!Handle

LEMMA SameJoin == Thumbs!JoinIsComplete <=> Factory!JoinIsComplete
BY Zenon DEF Thumbs!JoinIsComplete, Factory!JoinIsComplete, Thumbs!JoinReturns,
             Factory!JoinReturns, Thumbs!NothingToJoin, Factory!NothingToJoin,
             Thumbs!NotCalled, Factory!NotCalled, Thumbs!libVars, Factory!libVars,
             Thumbs!busVars, Factory!busVars, Thumbs!callVars, Factory!callVars,
             Thumbs!daemonVars, Factory!daemonVars, Thumbs!Key, Factory!Key,
             Thumbs!NoKey, Factory!NoKey, Thumbs!Handle, Factory!Handle

\* What the requests have no part in stays as it was made.
RequestsRest ==
  /\ lib = "thumbnail" /\ lib \in Libraries
  /\ cancelling = {} /\ freed = {} /\ wait = "no" /\ cancelled = {} /\ misread = FALSE
  /\ thumbs = {} /\ artAsked = {} /\ info = {}
  /\ artKey = [r \in Request |-> NoKey] /\ artTasks = [k \in Key |-> None]
  /\ artWaiting = FALSE /\ artPending = {}
  /\ outerRefs = [r \in Request |-> 0] /\ artCalled = [r \in Request |-> 0]

LEMMA RequestsInit ==
  ASSUME Init, ArtInit, lib = "thumbnail"
  PROVE  Factory!FInv /\ RequestsRest
<1>1. Factory!DaemonInit
  BY DEF Init, DaemonInit, Factory!DaemonInit, Task, Handle, Factory!Task, Factory!Handle
<1>2. Factory!Init
  BY <1>1 DEF Init, LoadsInit, ArtInit, Factory!Init, Factory!Request, Request, Item,
           Factory!Key, Factory!Handle, Key, Handle, Factory!NoKey, NoKey
<1>3. "thumbnail" \in Service
  BY BothServices
<1>4. Factory!FInv
  BY <1>2, <1>3, Factory!InitFInv, ServiceAssumption, NoneAssumption, TasksAssumption,
     LivesAssumption, GarbageAssumption, WorldAssumption DEF World, Factory!World
<1> QED
  BY <1>4 DEF Init, LoadsInit, ArtInit, RequestsRest

LEMMA RequestsNext ==
  ASSUME Factory!FInv, RequestsRest,
         (Thumbs!Next /\ UNCHANGED notThumbs) \/ UNCHANGED artSpecVars
  PROVE  Factory!FInv' /\ RequestsRest'
<1>1. CASE Thumbs!Next /\ UNCHANGED notThumbs
  <2>1. [Factory!Next]_(Factory!vars)
    BY <1>1, SameNext
  <2>2. "thumbnail" \in Service
    BY BothServices
  <2>3. Factory!FInv'
    BY <2>1, <2>2, Factory!NextFInv, ServiceAssumption, NoneAssumption, TasksAssumption,
       LivesAssumption, GarbageAssumption, WorldAssumption DEF World, Factory!World
  <2> QED
    BY <1>1, <2>3 DEF RequestsRest, notThumbs, madeVars, tableVars
<1>2. CASE UNCHANGED artSpecVars
  <2>1. UNCHANGED Factory!vars
    BY <1>2 DEF artSpecVars, vars, busVars, daemonVars, loadVars, itemVars, histVars,
             callVars, artVars, madeVars, tableVars, joinVars, Factory!vars,
             Factory!busVars, Factory!daemonVars, Factory!libVars, Factory!appVars,
             Factory!callVars
  <2>2. "thumbnail" \in Service
    BY BothServices
  <2>3. Factory!FInv'
    BY <2>1, <2>2, Factory!NextFInv, ServiceAssumption, NoneAssumption, TasksAssumption,
       LivesAssumption, GarbageAssumption, WorldAssumption DEF World, Factory!World
  <2> QED
    BY <1>2, <2>3 DEF RequestsRest, artSpecVars, vars, loadVars, itemVars, histVars,
             artVars, madeVars, tableVars
<1> QED
  BY <1>1, <1>2

LEMMA RequestsMean ==
  ASSUME Factory!FInv, RequestsRest
  PROVE  /\ OwnedOnce /\ CalledBackAtMostOnce /\ FreedOnlyWhenDone /\ CalledBackForItsOwnTask
         /\ ArtRefsBalance /\ ArtCalledBackAtMostOnce
         /\ Thumbs!RefsBalance /\ Thumbs!JoinIsComplete
<1>1. Thumbs!RefsBalance /\ Thumbs!JoinIsComplete
  BY SameBalance, SameJoin, Factory!FInvMeans, ServiceAssumption, NoneAssumption, TasksAssumption,
     LivesAssumption, GarbageAssumption, WorldAssumption DEF World, Factory!World
<1>2. /\ Factory!DaemonTypeOK /\ Factory!FactoryTypeOK /\ Factory!OneHand /\ Factory!Balance
      /\ world # "rough" => Factory!FTrue
  BY DEF Factory!FInv, Factory!IInv, Factory!LInv
<1>3. Factory!Request = Item /\ Request = Item /\ Factory!Key = Key /\ Factory!NoKey = NoKey
  BY DEF Factory!Request, Request, Item, Factory!Key, Factory!Handle, Key, Handle,
           Factory!NoKey, NoKey
<1>4. OwnedOnce /\ CalledBackAtMostOnce
  BY <1>2, <1>3 DEF Factory!OneHand, Factory!Entry, OwnedOnce, CalledBackAtMostOnce,
           Entries, RequestsRest
<1>5. FreedOnlyWhenDone
  BY DEF FreedOnlyWhenDone, RequestsRest
<1>6. CalledBackForItsOwnTask
  BY <1>2, <1>3 DEF CalledBackForItsOwnTask, Factory!FTrue, Factory!Explained, RequestsRest
<1>7. DaemonTypeOK
  BY <1>2 DEF Factory!DaemonTypeOK, DaemonTypeOK, Factory!Task, Task, Factory!Handle,
           Handle, Factory!Call, Call, Factory!Message, Message
<1>8. TypeOK
  <2>1. handleId \in [Item -> Key \cup {NoKey}] /\ tasks \in [Key -> Item \cup {None}]
        /\ waiting \in BOOLEAN /\ asked \subseteq Item /\ called \in [Item -> Nat]
        /\ pending \subseteq asked /\ idle \subseteq asked /\ errors \subseteq asked
        /\ had \subseteq asked /\ blamed \subseteq asked
    BY <1>2, <1>3 DEF Factory!FactoryTypeOK
  <2>2. LoadsTypeOK
    BY <2>1 DEF LoadsTypeOK, RequestsRest
  <2> QED
    BY <1>7, <2>2, TypeSplit
<1>9. ArtTypeOK
  <2>1. /\ realRefs \in [Request -> Nat] /\ join \in {"no", "flag", "table"}
        /\ joined \in Request \cup {None}
        /\ unqueueing \subseteq asked /\ held \subseteq asked /\ unqueued \subseteq asked
    BY <1>2, <1>3 DEF Factory!FactoryTypeOK
  <2>2. /\ artKey \in [Request -> Key \cup {NoKey}] /\ artTasks \in [Key -> Request \cup {None}]
        /\ artWaiting \in BOOLEAN /\ outerRefs \in [Request -> Nat] /\ artCalled \in [Request -> Nat]
        /\ thumbs = {} /\ artPending = {} /\ info = {} /\ artAsked = {}
    BY DEF RequestsRest
  <2>3. \A S \in {thumbs, artPending, unqueueing, info, held, unqueued} : S \subseteq artAsked \cup asked
    BY <2>1, <2>2
  <2> QED
    BY <1>8, <2>1, <2>2, <2>3 DEF ArtTypeOK
<1>10. ArtRefsBalance /\ ArtCalledBackAtMostOnce
  BY <1>9 DEF ArtRefsBalance, ArtCalledBackAtMostOnce, RequestsRest
<1> QED
  BY <1>1, <1>4, <1>5, <1>6, <1>10

-----------------------------------------------------------------------------
(* The clients together.                                                     *)

LoadsOf == IInv /\ ArtInit /\ Orderly /\ (world # "rough" => Steady({lib}) /\ LTrue)
ArtOf == ArtIInv /\ ArtOrderly /\ (world # "rough" => Steady(Service) /\ LTrue /\ ATrue)
RequestsOf == Factory!FInv /\ RequestsRest

\* The inductive invariant of Clients.
CInv ==
  /\ client \in {"loads", "art", "requests"}
  /\ client = "loads" => LoadsOf
  /\ client = "art" => ArtOf
  /\ client = "requests" => RequestsOf

LEMMA WorldStays ==
  /\ [Next]_vars => world' = world
  /\ [ArtNext]_artSpecVars => world' = world
<1>1. ASSUME NEW S, Daemon(S) PROVE world' = world
  BY <1>1 DEF Daemon, Serve, ServeQueue, Accept, Reply, ServeOther, SendError,
           SendFinished, Exit, Restart
<1>2. UNCHANGED busVars => world' = world
  BY DEF busVars
<1>3. [Next]_vars => world' = world
  BY <1>1, <1>2 DEF Next, Elsewhere, Application, Cancel, Wait, Loop, WaitFlag,
           WaitReturns, Timers, Undisturbed, Dispatch, TakeMessage, vars
<1>4. UNCHANGED vars => world' = world
  BY <1>2 DEF vars
<1>5. ASSUME NEW r \in Request \cup {None},
             QueueArt(r) \/ UnqueueArt(r) \/ Release(r) \/ Join(r) \/ ArtQueueTimesOut(r)
               \/ ArtUnqueueTimesOut(r)
      PROVE  world' = world
  BY <1>2, <1>4, <1>5 DEF QueueArt, AskDaemon, UnqueueArt, Release, Join, ArtQueueTimesOut,
                          Undisturbed, ArtUnqueueTimesOut
<1>6. ASSUME JoinFlag \/ JoinReturns \/ UNCHANGED artSpecVars \/ DispatchBoth PROVE world' = world
  BY <1>4, <1>6 DEF JoinFlag, JoinReturns, artSpecVars, DispatchBoth, TakeMessage
<1>7. ASSUME NEW i \in Item, Timers(i) PROVE world' = world
  BY <1>2, <1>7 DEF Timers, Undisturbed
<1> QED
  BY <1>1, <1>3, <1>5, <1>6, <1>7 DEF ArtNext

LEMMA InitCInv == ClientInit => CInv
<1> SUFFICES ASSUME ClientInit PROVE CInv
  OBVIOUS
<1>1. Init /\ ArtInit /\ client \in {"loads", "art", "requests"}
      /\ (client # "loads" => lib = "thumbnail")
  BY KindsAssumption DEF ClientInit
<1>2. LoadsOf
  <2>1. Orderly
    BY <1>1 DEF Init, LoadsInit, Orderly
  <2> QED
    BY <1>1, <2>1, InitIInv, InitTrue DEF LoadsOf
<1>3. client = "art" => ArtOf
  BY <1>1, ArtInitIInv, ArtInitTrue DEF ArtOf
<1>4. client = "requests" => RequestsOf
  BY <1>1, RequestsInit DEF RequestsOf
<1> QED
  BY <1>1, <1>2, <1>3, <1>4 DEF CInv

LEMMA NextCInv == CInv /\ [ClientNext]_clientVars => CInv'
<1> SUFFICES ASSUME CInv, [ClientNext]_clientVars PROVE CInv'
  OBVIOUS
<1>1. client' = client
  BY DEF ClientNext, clientVars
<1>2. ASSUME client = "loads" PROVE LoadsOf'
  <2>1. LoadsOf /\ [Next]_vars /\ UNCHANGED artVars
    BY <1>2 DEF CInv, ClientNext, clientVars, artSpecVars
  <2>2. IInv' /\ Orderly' /\ world' = world
    BY <2>1, NextIInv, NextOrderly, WorldStays DEF LoadsOf
  <2>3. ArtInit'
    BY <2>1 DEF LoadsOf, ArtInit, artVars, madeVars, tableVars, joinVars
  <2>4. world' # "rough" => Steady({lib})' /\ LTrue'
    BY <2>1, <2>2, NextTrue DEF LoadsOf
  <2> QED
    BY <2>2, <2>3, <2>4 DEF LoadsOf
<1>3. ASSUME client = "art" PROVE ArtOf'
  <2>1. ArtOf /\ [ArtNext]_artSpecVars
    BY <1>3 DEF CInv, ClientNext, clientVars
  <2>2. ArtIInv' /\ world' = world
    BY <2>1, ArtNextIInv, WorldStays DEF ArtOf
  <2>3. ArtOrderly'
    BY <2>1, ArtNextOrderly DEF ArtOf, ArtIInv, IInv, TypeOK
  <2>4. world' # "rough" => Steady(Service)' /\ LTrue' /\ ATrue'
    BY <2>1, <2>2, ArtNextTrue DEF ArtOf
  <2> QED
    BY <2>2, <2>3, <2>4 DEF ArtOf
<1>4. ASSUME client = "requests" PROVE RequestsOf'
  <2>1. RequestsOf /\ ((Thumbs!Next /\ UNCHANGED notThumbs) \/ UNCHANGED artSpecVars)
    BY <1>4 DEF CInv, ClientNext, clientVars
  <2> QED
    BY <2>1, RequestsNext DEF RequestsOf
<1> QED
  BY <1>1, <1>2, <1>3, <1>4 DEF CInv

LEMMA CInvMeans ==
  ASSUME CInv
  PROVE  /\ OwnedOnce /\ CalledBackAtMostOnce /\ FreedOnlyWhenDone /\ CalledBackForItsOwnTask
         /\ RefsBalance /\ ArtRefsBalance /\ ArtCalledBackAtMostOnce
<1>1. CASE client = "loads"
  <2>1. IInv /\ ArtInit /\ (world # "rough" => LTrue)
    BY <1>1 DEF CInv, LoadsOf
  <2>2. FreedOnlyWhenDone /\ CalledBackForItsOwnTask
    BY <2>1, LTrueMeans DEF FreedOnlyWhenDone, CalledBackForItsOwnTask
  <2>3. ArtTypeOK
    <3>1. /\ artKey \in [Request -> Key \cup {NoKey}] /\ artTasks \in [Key -> Request \cup {None}]
          /\ artWaiting \in BOOLEAN /\ outerRefs \in [Request -> Nat]
          /\ realRefs \in [Request -> Nat] /\ artCalled \in [Request -> Nat]
          /\ artAsked \subseteq Request /\ join \in {"no", "flag", "table"}
          /\ joined \in Request \cup {None}
      BY <2>1 DEF ArtInit
    <3>2. \A S \in {thumbs, artPending, unqueueing, info, held, unqueued} : S = {}
      BY <2>1 DEF ArtInit
    <3>3. TypeOK
      BY <2>1 DEF IInv
    <3> QED
      BY <3>1, <3>2, <3>3 DEF ArtTypeOK
  <2>4. ArtRefsBalance /\ ArtCalledBackAtMostOnce
    BY <2>1, <2>3 DEF ArtInit, ArtRefsBalance, ArtCalledBackAtMostOnce
  <2>5. RefsBalance
    BY <1>1 DEF RefsBalance
  <2> QED
    BY <2>1, <2>2, <2>4, <2>5, IInvMeans
<1>2. CASE client = "art"
  <2>1. ArtIInv /\ IInv /\ (world # "rough" => LTrue)
    BY <1>2 DEF CInv, ArtOf, ArtIInv
  <2>2. FreedOnlyWhenDone /\ CalledBackForItsOwnTask
    BY <2>1, LTrueMeans DEF FreedOnlyWhenDone, CalledBackForItsOwnTask
  <2>3. RefsBalance
    BY <1>2 DEF RefsBalance
  <2> QED
    BY <2>1, <2>2, <2>3, IInvMeans, ArtRefsCounted
<1>3. CASE client = "requests"
  BY <1>3, RequestsMean DEF CInv, RequestsOf, RefsBalance
<1> QED
  BY <1>1, <1>2, <1>3 DEF CInv

LEMMA CInvReturns ==
  ASSUME CInv
  PROVE  /\ world = "orderly" /\ WaitReturns =>
              \A i \in asked \ had : called[i] > 0 \/ i \in cancelled \/ misread
         /\ client = "requests" => Thumbs!JoinIsComplete
         /\ client = "art" => ArtJoinIsComplete
<1>1. ASSUME world = "orderly", WaitReturns
      PROVE  \A i \in asked \ had : called[i] > 0 \/ i \in cancelled \/ misread
  <2>1. CASE client = "loads"
    <3>1. LInv /\ LTrue /\ Orderly
      BY <1>1, <2>1, TypeSplit DEF CInv, LoadsOf, IInv, LInv
    <3> QED
      BY <1>1, <3>1, WaitReturnsMeans
  <2>2. CASE client # "loads"
    <3>1. wait = "no"
      BY <2>2 DEF CInv, ArtOf, ArtIInv, AInv, LoadsForArt, RequestsOf, RequestsRest
    <3> QED
      BY <1>1, <3>1 DEF WaitReturns
  <2> QED
    BY <2>1, <2>2
<1>2. client = "requests" => Thumbs!JoinIsComplete
  BY RequestsMean DEF CInv, RequestsOf
<1>3. ASSUME client = "art" PROVE ArtJoinIsComplete
  <2>1. AInv /\ ArtOrderly /\ (world # "rough" => ATrue)
    BY <1>3 DEF CInv, ArtOf, ArtIInv
  <2> QED
    BY <2>1, ArtJoinMeans DEF ArtJoinIsComplete
<1> QED
  BY <1>1, <1>2, <1>3

-----------------------------------------------------------------------------
(* Theorems about the clients, of every kind.                                *)

\* The invariant holds in every state a client and the daemon reach.
THEOREM ClientsInductive == ClientSpec => []CInv
BY InitCInv, NextCInv, PTL DEF ClientSpec

\* Whatever fails, times out or is cancelled, an item has at most one owner and
\* is not freed twice (load, cancel, on_got_handle, on_task_finished and
\* have_all_cb of the older libraries).
THEOREM ClientsOwnOnce == ClientSpec => []OwnedOnce
<1>1. CInv => OwnedOnce
  BY CInvMeans
<1> QED
  BY <1>1, ClientsInductive, PTL

\* No callback of a load or a request runs twice, nor after a cancel that found
\* a handle.
THEOREM ClientsCalledBackOnce == ClientSpec => []CalledBackAtMostOnce
<1>1. CInv => CalledBackAtMostOnce
  BY CInvMeans
<1> QED
  BY <1>1, ClientsInductive, PTL

\* While the daemon stays up, the memory behind a handle lives until its callback
\* has run or it was cancelled.
THEOREM NothingFreedEarly == ClientSpec => []FreedOnlyWhenDone
<1>1. CInv => FreedOnlyWhenDone
  BY CInvMeans
<1> QED
  BY <1>1, ClientsInductive, PTL

\* While the daemon stays up, a callback runs only after its own task was
\* finished, and is given an error only if one was sent for that task: handles
\* that reach every client on the bus are not mistaken for one another's.
THEOREM NoStrangersTask == ClientSpec => []CalledBackForItsOwnTask
<1>1. CInv => CalledBackForItsOwnTask
  BY CInvMeans
<1> QED
  BY <1>1, ClientsInductive, PTL

\* hildon_thumbnail_factory_wait returns to an application that waited for its
\* replies only when each load was called back or cancelled.
THEOREM WaitFinishes == ClientSpec => WaitMeansFinished
<1>1. CInv => (world = "orderly" /\ WaitReturns =>
                 \A i \in asked \ had : called[i] > 0 \/ i \in cancelled \/ misread)
  BY CInvReturns
<1> QED
  BY <1>1, ClientsInductive, PTL DEF WaitMeansFinished

\* A HildonThumbnailRequest is referenced once by each of those who will use it.
THEOREM RequestRefsBalanced == ClientSpec => []RefsBalance
<1>1. CInv => RefsBalance
  BY CInvMeans
<1> QED
  BY <1>1, ClientsInductive, PTL

\* Both objects of an album art request are referenced once by each of those who
\* will use them (hildon_albumart_factory_queue, on_got_handle, on_task_finished,
\* intercept_callback, thumb_callback, on_unqueued).
THEOREM ArtObjectsBalanced == ClientSpec => []ArtRefsBalance
<1>1. CInv => ArtRefsBalance
  BY CInvMeans
<1> QED
  BY <1>1, ClientsInductive, PTL

\* The callback of an album art request, which frees user_data, runs at most once,
\* from the art or from the load of its thumbnail.
THEOREM ArtCalledBackOnce == ClientSpec => []ArtCalledBackAtMostOnce
<1>1. CInv => ArtCalledBackAtMostOnce
  BY CInvMeans
<1> QED
  BY <1>1, ClientsInductive, PTL

\* hildon_thumbnail_factory_join returns to an application that waited for its
\* replies only when each request was called back or unqueued.
THEOREM JoinCompletes == ClientSpec => JoinMeansCompleted
<1>1. CInv => (client = "requests" => Thumbs!JoinIsComplete)
  BY CInvReturns
<1> QED
  BY <1>1, ClientsInductive, PTL DEF JoinMeansCompleted

\* hildon_albumart_factory_join: each request was called back or unqueued, or is
\* a thumbnail's whose art has come.
THEOREM ArtJoinCompletes == ClientSpec => ArtJoinMeansCompleted
<1>1. CInv => (client = "art" => ArtJoinIsComplete)
  BY CInvReturns
<1> QED
  BY <1>1, ClientsInductive, PTL DEF ArtJoinMeansCompleted
=============================================================================
