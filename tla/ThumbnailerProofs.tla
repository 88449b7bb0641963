------------------------- MODULE ThumbnailerProofs -------------------------
(***************************************************************************)
(* Proofs about Thumbnailer, for any threads, urls, limit and bound.  IInv *)
(* is inductive: each of its four parts is preserved by every action, the  *)
(* later parts using the earlier ones.  FinishedAtMostOnce,                *)
(* EachUrlAnsweredOnce, CancelledIsSilent, SilentAfterFinished and         *)
(* NewestFirst follow, and that the daemon implements ThumbnailService.    *)
(* All of it carries over to the daemon with the gate (GatedQueue), whose  *)
(* steps are those of Thumbnailer; what the gate adds is the last part.    *)
(***************************************************************************)
EXTENDS GatedQueue, FiniteSetTheorems, TLAPS

\* The pools a request may be pushed to and a thread may serve exist.
LEMMA PoolsExist ==
  /\ \A U : PoolFor(U) \in Pool
  /\ \A w : PoolOf(w) \in Pool
BY DEF PoolFor, PoolOf, Pool

\* One more signal per url keeps a table of counts a table of counts.
LEMMA CountedType ==
  ASSUME NEW f \in [Url -> Nat], NEW U
  PROVE  Counted(f, U) \in [Url -> Nat]
BY DEF Counted

\* Init satisfies the type invariant.
LEMMA InitType == Init => TypeOK
BY BoundsAssumption DEF Init, TypeOK, Handle, Pool

\* Every step keeps the type invariant.
LEMMA NextType == TypeOK /\ [Next]_vars => TypeOK'
<1> SUFFICES ASSUME TypeOK, [Next]_vars
             PROVE  TypeOK'
  OBVIOUS
<1> USE BoundsAssumption, PoolsExist DEF TypeOK
<1>1. ASSUME NEW U \in SUBSET Url, NEW h \in 0..MaxTasks, Queue(U, h)
      PROVE  TypeOK'
  BY <1>1, SMTT(30) DEF Queue, NewHandle, MarkUnqueued, Handle, workVars
<1>2. CASE QueueReply
  BY <1>2 DEF QueueReply, flagVars, workVars
<1>3. ASSUME NEW h \in Handle, Unqueue(h)
      PROVE  TypeOK'
  BY <1>3 DEF Unqueue, MarkUnqueued, mainVars, workVars
<1>4. CASE CrashOut
  BY <1>4 DEF CrashOut, CrashUnqueued, CrashDead, workVars
<1>5. CASE Exit
  BY <1>5 DEF Exit, flagVars, workVars
<1>6. CASE Restart
  BY <1>6 DEF Restart, Handle
<1>7. ASSUME NEW w \in Thread, Work(w)
      PROVE  TypeOK'
  <2>1. CASE Start(w)
    BY <2>1 DEF Start, mainVars, flagVars, workVars
  <2>2. CASE Take(w)
    BY <2>2 DEF Take, Removed, mainVars, flagVars, Working
  <2>3. ASSUME NEW u \in Url, ExamineUnreadable(w, u)
        PROVE  TypeOK'
    BY <2>3, CountedType DEF ExamineUnreadable, Report, mainVars, flagVars
  <2>4. ASSUME NEW u \in Url, ExamineCached(w, u)
        PROVE  TypeOK'
    BY <2>4 DEF ExamineCached, mainVars, flagVars
  <2>5. ASSUME NEW u \in Url, ExamineMissing(w, u)
        PROVE  TypeOK'
    BY <2>5 DEF ExamineMissing, mainVars, flagVars
  <2>6. CASE EmitCached(w)
    BY <2>6, CountedType DEF EmitCached, Report, mainVars, flagVars, Working
  <2>7. ASSUME NEW u \in Url, ToSpecialized(w, u)
        PROVE  TypeOK'
    BY <2>7 DEF ToSpecialized, Dispatch, Group, mainVars, flagVars, Working
  <2>8. ASSUME NEW u \in Url, ToPlugin(w, u)
        PROVE  TypeOK'
    BY <2>8 DEF ToPlugin, Dispatch, Group, mainVars, flagVars, Working
  <2>9. ASSUME NEW u \in Url, NoHandler(w, u)
        PROVE  TypeOK'
    BY <2>9, CountedType DEF NoHandler, Group, Report, mainVars, flagVars
  <2>10. ASSUME NEW u \in Url, SpecializedAnswer(w, u)
         PROVE  TypeOK'
    BY <2>10, CountedType DEF SpecializedAnswer, Report, mainVars, flagVars, Working
  <2>11. ASSUME NEW failed \in SUBSET Url, PluginReturn(w, failed)
         PROVE  TypeOK'
    BY <2>11, CountedType DEF PluginReturn, mainVars, flagVars, Working
  <2>12. CASE Finish(w)
    BY <2>12 DEF Finish, Emits, mainVars, flagVars, workVars
  <2> QED
    BY <1>7, <2>1, <2>2, <2>3, <2>4, <2>5, <2>6, <2>7, <2>8, <2>9, <2>10,
       <2>11, <2>12 DEF Work
<1>8. CASE UNCHANGED vars
  BY <1>8 DEF vars
<1> QED
  BY <1>1, <1>2, <1>3, <1>4, <1>5, <1>6, <1>7, <1>8 DEF Next

\* Every reachable state is well typed.
THEOREM TypeCorrect == Spec => []TypeOK
BY InitType, NextType, PTL DEF Spec

-----------------------------------------------------------------------------

\* No request is in two places, initially and after every step.
LEMMA InitOnePlace == Init => OnePlace
BY DEF Init, OnePlace, Pool

LEMMA NextOnePlace == TypeOK /\ OnePlace /\ [Next]_vars => OnePlace'
<1> SUFFICES ASSUME TypeOK, OnePlace, [Next]_vars
             PROVE  OnePlace'
  OBVIOUS
<1> USE BoundsAssumption, PoolsExist DEF TypeOK, OnePlace, Working
<1>1. ASSUME NEW U \in SUBSET Url, NEW h \in 0..MaxTasks, Queue(U, h)
      PROVE  OnePlace'
  <2> USE <1>1 DEF Queue, NewHandle, workVars
  <2>1. num + 1 \in Handle /\ num + 1 \notin tasks
    BY DEF Handle
  <2>2. tasks' \subseteq 1..num'
    OBVIOUS
  <2>3. ASSUME NEW p \in Pool, NEW k \in waiting'[p]
        PROVE  k \in tasks' /\ PoolFor(urls'[k]) = p
    <3>1. CASE k = num + 1
      <4>1. k \notin waiting[p]
        BY <2>1, <3>1
      <4>2. p = PoolFor(U)
        BY <4>1, <2>3
      <4>3. urls'[k] = U
        BY <2>1, <3>1
      <4> QED
        BY <4>2, <4>3, <3>1
    <3>2. CASE k # num + 1
      <4>1. k \in waiting[p]
        BY <2>3, <3>2
      <4>2. k \in tasks /\ PoolFor(urls[k]) = p
        BY <4>1
      <4>3. urls'[k] = urls[k]
        BY <4>1, <3>2
      <4> QED
        BY <4>2, <4>3
    <3> QED
      BY <3>1, <3>2
  <2>4. ASSUME NEW v \in Thread, pc'[v] # "idle"
        PROVE  /\ cur'[v] \in 1..num'
               /\ \A p \in Pool : cur'[v] \notin waiting'[p]
               /\ cur'[v] \in tasks' <=> pc'[v] = "started"
               /\ PoolFor(urls'[cur'[v]]) = PoolOf(v)
               /\ \A x \in Thread \ {v} : cur'[x] # cur'[v]
    <3>1. cur[v] \in 1..num /\ cur[v] # num + 1
      BY <2>4
    <3>2. urls'[cur[v]] = urls[cur[v]]
      BY <2>4, <3>1
    <3>3. \A p \in Pool : cur'[v] \notin waiting'[p]
      BY <2>4, <3>1
    <3> QED
      BY <2>4, <3>1, <3>2, <3>3
  <2>5. ASSUME NEW k \in tasks'
        PROVE  \/ \E p \in Pool : k \in waiting'[p]
               \/ \E v \in Thread : pc'[v] = "started" /\ cur'[v] = k
    <3>1. CASE k = num + 1
      BY <3>1
    <3>2. CASE k \in tasks
      BY <3>2
    <3> QED
      BY <3>1, <3>2
  <2> QED
    BY <2>2, <2>3, <2>4, <2>5
<1>2. CASE QueueReply
  BY <1>2 DEF QueueReply, flagVars, workVars
<1>3. ASSUME NEW h \in Handle, Unqueue(h)
      PROVE  OnePlace'
  BY <1>3 DEF Unqueue, mainVars, workVars
<1>4. CASE CrashOut
  BY <1>4 DEF CrashOut, workVars
<1>5. CASE Exit
  BY <1>5 DEF Exit, flagVars, workVars
<1>6. CASE Restart
  BY <1>6 DEF Restart, Pool
<1>7. ASSUME NEW w \in Thread, Work(w)
      PROVE  OnePlace'
  <2>1. CASE Start(w)
    <3> USE <2>1 DEF Start, mainVars, flagVars, workVars
    <3>1. PICK h \in waiting[PoolOf(w)] :
            /\ waiting' = [waiting EXCEPT ![PoolOf(w)] = @ \ {h}]
            /\ cur' = [cur EXCEPT ![w] = h]
      OBVIOUS
    <3>2. h \in tasks /\ PoolFor(urls[h]) = PoolOf(w)
      OBVIOUS
    <3>3. \A p \in Pool : h \notin waiting'[p]
      BY <3>1, <3>2
    <3>4. \A v \in Thread : cur[v] # h
      <4>1. \A v \in Thread : pc[v] # "idle" => cur[v] # h
        BY <3>1
      <4>2. \A v \in Thread : pc[v] = "idle" => cur[v] = 0
        OBVIOUS
      <4>3. h # 0
        BY <3>1 DEF Handle
      <4> QED
        BY <4>1, <4>2, <4>3
    <3>5. \A p \in Pool : \A k \in waiting'[p] :
            k \in tasks' /\ PoolFor(urls'[k]) = p
      BY <3>1
    <3>6. ASSUME NEW v \in Thread, pc'[v] # "idle"
          PROVE  /\ cur'[v] \in 1..num'
                 /\ \A p \in Pool : cur'[v] \notin waiting'[p]
                 /\ cur'[v] \in tasks' <=> pc'[v] = "started"
                 /\ PoolFor(urls'[cur'[v]]) = PoolOf(v)
                 /\ \A x \in Thread \ {v} : cur'[x] # cur'[v]
      <4>1. CASE v = w
        BY <3>1, <3>2, <3>3, <3>4, <3>6, <4>1
      <4>2. CASE v # w
        BY <3>1, <3>4, <3>6, <4>2
      <4> QED
        BY <4>1, <4>2
    <3>7. ASSUME NEW k \in tasks'
          PROVE  \/ \E p \in Pool : k \in waiting'[p]
                 \/ \E v \in Thread : pc'[v] = "started" /\ cur'[v] = k
      <4>1. CASE k = h
        BY <3>1, <4>1
      <4>2. CASE k # h
        <5>1. CASE \E p \in Pool : k \in waiting[p]
          BY <3>1, <4>2, <5>1
        <5>2. CASE \E v \in Thread : pc[v] = "started" /\ cur[v] = k
          <6>1. PICK v \in Thread : pc[v] = "started" /\ cur[v] = k
            BY <5>2
          <6>2. v # w
            BY <6>1
          <6>3. pc'[v] = "started" /\ cur'[v] = k
            BY <3>1, <6>1, <6>2
          <6> QED
            BY <6>3
        <5> QED
          BY <5>1, <5>2
      <4> QED
        BY <4>1, <4>2
    <3>8. tasks' \subseteq 1..num'
      OBVIOUS
    <3> QED
      BY <3>5, <3>6, <3>7, <3>8
  <2>2. CASE Take(w)
    <3> USE <2>2 DEF Take, Removed, mainVars, flagVars
    <3>1. cur[w] \in tasks /\ \A p \in Pool : cur[w] \notin waiting[p]
      OBVIOUS
    <3>2. pc'[w] \in {"unqueued", "examine"}
      OBVIOUS
    <3>3. \A v \in Thread \ {w} : pc'[v] = pc[v] /\ cur[v] # cur[w]
      OBVIOUS
    <3>4. \A p \in Pool : \A k \in waiting'[p] :
            k \in tasks' /\ PoolFor(urls'[k]) = p
      BY <3>1
    <3>5. ASSUME NEW v \in Thread, pc'[v] # "idle"
          PROVE  /\ cur'[v] \in 1..num'
                 /\ \A p \in Pool : cur'[v] \notin waiting'[p]
                 /\ cur'[v] \in tasks' <=> pc'[v] = "started"
                 /\ PoolFor(urls'[cur'[v]]) = PoolOf(v)
                 /\ \A x \in Thread \ {v} : cur'[x] # cur'[v]
      <4>1. CASE v = w
        BY <3>1, <3>2, <4>1
      <4>2. CASE v # w
        BY <3>3, <3>5, <4>2
      <4> QED
        BY <4>1, <4>2
    <3>6. ASSUME NEW k \in tasks'
          PROVE  \/ \E p \in Pool : k \in waiting'[p]
                 \/ \E v \in Thread : pc'[v] = "started" /\ cur'[v] = k
      <4>1. k \in tasks /\ k # cur[w]
        BY <3>6
      <4>2. CASE \E p \in Pool : k \in waiting[p]
        BY <4>2
      <4>3. CASE \E v \in Thread : pc[v] = "started" /\ cur[v] = k
        BY <4>1, <4>3, <3>3
      <4> QED
        BY <4>1, <4>2, <4>3
    <3>7. tasks' \subseteq 1..num'
      OBVIOUS
    <3> QED
      BY <3>4, <3>5, <3>6, <3>7
  <2>3. ASSUME NEW u \in Url, ExamineUnreadable(w, u)
        PROVE  OnePlace'
    <3>1. UNCHANGED <<tasks, num, urls, waiting, pc, cur>>
      BY <2>3 DEF ExamineUnreadable, mainVars, flagVars
    <3> QED
      BY <3>1
  <2>4. ASSUME NEW u \in Url, ExamineCached(w, u)
        PROVE  OnePlace'
    BY <2>4 DEF ExamineCached, mainVars, flagVars
  <2>5. ASSUME NEW u \in Url, ExamineMissing(w, u)
        PROVE  OnePlace'
    BY <2>5 DEF ExamineMissing, mainVars, flagVars
  <2>6. CASE EmitCached(w)
    BY <2>6 DEF EmitCached, mainVars, flagVars
  <2>7. ASSUME NEW u \in Url, ToSpecialized(w, u)
        PROVE  OnePlace'
    BY <2>7 DEF ToSpecialized, Dispatch, mainVars, flagVars
  <2>8. ASSUME NEW u \in Url, ToPlugin(w, u)
        PROVE  OnePlace'
    BY <2>8 DEF ToPlugin, Dispatch, mainVars, flagVars
  <2>9. ASSUME NEW u \in Url, NoHandler(w, u)
        PROVE  OnePlace'
    BY <2>9 DEF NoHandler, mainVars, flagVars
  <2>10. ASSUME NEW u \in Url, SpecializedAnswer(w, u)
         PROVE  OnePlace'
    BY <2>10 DEF SpecializedAnswer, mainVars, flagVars
  <2>11. ASSUME NEW failed \in SUBSET Url, PluginReturn(w, failed)
         PROVE  OnePlace'
    BY <2>11 DEF PluginReturn, mainVars, flagVars
  <2>12. CASE Finish(w)
    <3> USE <2>12 DEF Finish, Emits, mainVars, flagVars, workVars
    <3>1. pc'[w] = "idle" /\ cur'[w] = 0 /\ pc[w] # "started"
      OBVIOUS
    <3>2. \A v \in Thread \ {w} : pc'[v] = pc[v] /\ cur'[v] = cur[v]
      OBVIOUS
    <3>3. ASSUME NEW v \in Thread, pc'[v] # "idle"
          PROVE  /\ cur'[v] \in 1..num'
                 /\ \A p \in Pool : cur'[v] \notin waiting'[p]
                 /\ cur'[v] \in tasks' <=> pc'[v] = "started"
                 /\ PoolFor(urls'[cur'[v]]) = PoolOf(v)
                 /\ \A x \in Thread \ {v} : cur'[x] # cur'[v]
      <4>1. v # w
        BY <3>1, <3>3
      <4>2. cur'[v] # 0
        BY <3>2, <3>3, <4>1 DEF Handle
      <4> QED
        BY <3>1, <3>2, <3>3, <4>1, <4>2
    <3>4. \A v \in Thread : pc'[v] = "idle" => cur'[v] = 0
      BY <3>1, <3>2
    <3>5. ASSUME NEW k \in tasks'
          PROVE  \/ \E p \in Pool : k \in waiting'[p]
                 \/ \E v \in Thread : pc'[v] = "started" /\ cur'[v] = k
      BY <3>1, <3>2, <3>5
    <3> QED
      BY <3>3, <3>4, <3>5
  <2> QED
    BY <1>7, <2>1, <2>2, <2>3, <2>4, <2>5, <2>6, <2>7, <2>8, <2>9, <2>10,
       <2>11, <2>12 DEF Work
<1>8. CASE UNCHANGED vars
  BY <1>8 DEF vars
<1> QED
  BY <1>1, <1>2, <1>3, <1>4, <1>5, <1>6, <1>7, <1>8 DEF Next

-----------------------------------------------------------------------------

\* The flags decide who sends Finished, initially and after every step.
LEMMA InitFlags == Init => FlagsDecideFinished
BY BoundsAssumption DEF Init, FlagsDecideFinished, FinishedAtMostOnce, Handle, Working

LEMMA NextFlags ==
  TypeOK /\ OnePlace /\ FlagsDecideFinished /\ [Next]_vars => FlagsDecideFinished'
<1> SUFFICES ASSUME TypeOK, OnePlace, FlagsDecideFinished, [Next]_vars
             PROVE  FlagsDecideFinished'
  OBVIOUS
<1> USE BoundsAssumption, PoolsExist
    DEF TypeOK, OnePlace, FlagsDecideFinished, FinishedAtMostOnce, Working
<1>1. ASSUME NEW U \in SUBSET Url, NEW h \in 0..MaxTasks, Queue(U, h)
      PROVE  FlagsDecideFinished'
  BY <1>1 DEF Queue, NewHandle, MarkUnqueued, Handle, workVars
<1>2. CASE QueueReply
  BY <1>2 DEF QueueReply, flagVars, workVars
<1>3. ASSUME NEW h \in Handle, Unqueue(h)
      PROVE  FlagsDecideFinished'
  BY <1>3 DEF Unqueue, MarkUnqueued, mainVars, workVars
<1>4. CASE CrashOut
  BY <1>4 DEF CrashOut, CrashUnqueued, CrashDead, workVars, Handle
<1>5. CASE Exit
  BY <1>5 DEF Exit, flagVars, workVars
<1>6. CASE Restart
  BY <1>6 DEF Restart
<1>7. ASSUME NEW w \in Thread, Work(w)
      PROVE  FlagsDecideFinished'
  <2>1. CASE Start(w)
    BY <2>1 DEF Start, mainVars, flagVars, workVars, Handle
  <2>2. CASE Take(w)
    BY <2>2 DEF Take, Removed, mainVars, flagVars
  <2>3. ASSUME NEW u \in Url, ExamineUnreadable(w, u)
        PROVE  FlagsDecideFinished'
    BY <2>3 DEF ExamineUnreadable, mainVars, flagVars
  <2>4. ASSUME NEW u \in Url, ExamineCached(w, u)
        PROVE  FlagsDecideFinished'
    BY <2>4 DEF ExamineCached, mainVars, flagVars
  <2>5. ASSUME NEW u \in Url, ExamineMissing(w, u)
        PROVE  FlagsDecideFinished'
    BY <2>5 DEF ExamineMissing, mainVars, flagVars
  <2>6. CASE EmitCached(w)
    BY <2>6 DEF EmitCached, mainVars, flagVars
  <2>7. ASSUME NEW u \in Url, ToSpecialized(w, u)
        PROVE  FlagsDecideFinished'
    BY <2>7 DEF ToSpecialized, Dispatch, mainVars, flagVars
  <2>8. ASSUME NEW u \in Url, ToPlugin(w, u)
        PROVE  FlagsDecideFinished'
    BY <2>8 DEF ToPlugin, Dispatch, mainVars, flagVars
  <2>9. ASSUME NEW u \in Url, NoHandler(w, u)
        PROVE  FlagsDecideFinished'
    BY <2>9 DEF NoHandler, mainVars, flagVars
  <2>10. ASSUME NEW u \in Url, SpecializedAnswer(w, u)
         PROVE  FlagsDecideFinished'
    BY <2>10 DEF SpecializedAnswer, mainVars, flagVars
  <2>11. ASSUME NEW failed \in SUBSET Url, PluginReturn(w, failed)
         PROVE  FlagsDecideFinished'
    BY <2>11 DEF PluginReturn, mainVars, flagVars
  <2>12. CASE Finish(w)
    BY <2>12 DEF Finish, Emits, mainVars, flagVars, workVars, Handle
  <2> QED
    BY <1>7, <2>1, <2>2, <2>3, <2>4, <2>5, <2>6, <2>7, <2>8, <2>9, <2>10,
       <2>11, <2>12 DEF Work
<1>8. CASE UNCHANGED vars
  BY <1>8 DEF vars
<1> QED
  BY <1>1, <1>2, <1>3, <1>4, <1>5, <1>6, <1>7, <1>8 DEF Next

-----------------------------------------------------------------------------

\* Every url of a request in hand is in one list or answered, initially and
\* after every step.
LEMMA InitBooks == Init => Books
BY DEF Init, Books, Pending, Working, Handle

LEMMA NextBooks ==
  TypeOK /\ OnePlace /\ FlagsDecideFinished /\ Books /\ [Next]_vars => Books'
<1> SUFFICES ASSUME TypeOK, OnePlace, FlagsDecideFinished, Books, [Next]_vars
             PROVE  Books'
  OBVIOUS
<1> USE BoundsAssumption, PoolsExist
    DEF TypeOK, OnePlace, FlagsDecideFinished, Books, Pending, Working
<1>1. ASSUME NEW U \in SUBSET Url, NEW h \in 0..MaxTasks, Queue(U, h)
      PROVE  Books'
  <2> USE <1>1 DEF Queue, NewHandle, MarkUnqueued, workVars
  <2>1. num + 1 \in Handle /\ num + 1 \notin tasks \cup unqueued
    BY DEF Handle
  <2>2. \A w \in Thread : pc[w] \in Working =>
          cur[w] \in Handle /\ urls'[cur[w]] = urls[cur[w]]
    OBVIOUS
  <2>3. \A k \in Handle : k > num' \/ k \in tasks' \cup unqueued' =>
          \A u \in Url : reports'[k][u] = 0
    BY <2>1 DEF Handle
  <2>4. ASSUME NEW k \in Handle, \A w \in Thread : cur'[w] # k,
               k \in (1..num') \ (tasks' \cup unqueued')
        PROVE  \A u \in Url : reports'[k][u] = IF u \in urls'[k] THEN 1 ELSE 0
    <3>1. k # num + 1 /\ k \in (1..num) \ (tasks \cup unqueued)
      BY <2>4
    <3>2. urls'[k] = urls[k]
      BY <3>1
    <3> QED
      BY <2>4, <3>1, <3>2
  <2> QED
    BY <2>2, <2>3, <2>4
<1>2. CASE QueueReply
  BY <1>2 DEF QueueReply, flagVars, workVars
<1>3. ASSUME NEW h \in Handle, Unqueue(h)
      PROVE  Books'
  BY <1>3 DEF Unqueue, MarkUnqueued, mainVars, workVars
<1>4. CASE CrashOut
  BY <1>4 DEF CrashOut, CrashUnqueued, CrashDead, workVars, Handle
<1>5. CASE Exit
  BY <1>5 DEF Exit, flagVars, workVars
<1>6. CASE Restart
  BY <1>6 DEF Restart
<1>7. ASSUME NEW w \in Thread, Work(w)
      PROVE  Books'
  <2>1. CASE Start(w)
    <3> USE <2>1 DEF Start, mainVars, flagVars, workVars
    <3>1. pc'[w] = "started" /\ cur'[w] \in tasks
      OBVIOUS
    <3>2. \A v \in Thread \ {w} : pc'[v] = pc[v] /\ cur'[v] = cur[v]
      OBVIOUS
    <3>3. cur[w] = 0
      OBVIOUS
    <3>4. ASSUME NEW v \in Thread
          PROVE  /\ pc'[v] \notin Working => Pending(v) = {}
                 /\ pc'[v] # "examine" => todo[v] = {} /\ cached[v] = {}
                 /\ pc'[v] \notin {"specialized", "plugin"} => batch[v] = {}
                 /\ pc'[v] \in Working =>
                      /\ Pending(v) \subseteq urls[cur'[v]]
                      /\ \A u \in Url : reports[cur'[v]][u] =
                           IF u \in urls[cur'[v]] \ Pending(v) THEN 1 ELSE 0
      <4>1. CASE v = w
        BY <3>1, <4>1
      <4>2. CASE v # w
        BY <3>2, <4>2
      <4> QED
        BY <4>1, <4>2
    <3>5. ASSUME NEW k \in Handle, \A v \in Thread : cur'[v] # k,
                 k \in (1..num) \ (tasks \cup unqueued)
          PROVE  \A u \in Url : reports[k][u] = IF u \in urls[k] THEN 1 ELSE 0
      <4>1. k # 0
        BY DEF Handle
      <4>2. \A v \in Thread : cur[v] # k
        BY <3>2, <3>3, <3>5, <4>1
      <4> QED
        BY <3>5, <4>2
    <3> QED
      BY <3>4, <3>5
  <2>2. CASE Take(w)
    BY <2>2 DEF Take, Removed, mainVars, flagVars
  <2>3. ASSUME NEW u \in Url, ExamineUnreadable(w, u)
        PROVE  Books'
    BY <2>3 DEF ExamineUnreadable, Report, Counted, mainVars, flagVars
  <2>4. ASSUME NEW u \in Url, ExamineCached(w, u)
        PROVE  Books'
    BY <2>4 DEF ExamineCached, mainVars, flagVars
  <2>5. ASSUME NEW u \in Url, ExamineMissing(w, u)
        PROVE  Books'
    <3> USE <2>5 DEF ExamineMissing, mainVars, flagVars
    <3>1. Pending(w)' = Pending(w)
      OBVIOUS
    <3>2. \A v \in Thread \ {w} : Pending(v)' = Pending(v)
      OBVIOUS
    <3>3. todo'[w] \cap (cached'[w] \cup fresh'[w]) = {} /\ cached'[w] \cap fresh'[w] = {}
      OBVIOUS
    <3>4. batch'[w] \cap fresh'[w] = {}
      OBVIOUS
    <3>5. \A v \in Thread \ {w} : todo'[v] = todo[v] /\ fresh'[v] = fresh[v]
      OBVIOUS
    <3>6. todo'[w] \in SUBSET Url /\ pc'[w] = "examine"
      OBVIOUS
    <3>7. ASSUME NEW v \in Thread
          PROVE  /\ pc'[v] \notin Working => Pending(v)' = {}
                 /\ pc'[v] # "examine" => todo'[v] = {} /\ cached'[v] = {}
                 /\ pc'[v] \notin {"specialized", "plugin"} => batch'[v] = {}
                 /\ todo'[v] \cap (cached'[v] \cup fresh'[v]) = {}
                 /\ cached'[v] \cap fresh'[v] = {}
                 /\ batch'[v] \cap fresh'[v] = {}
      <4>1. CASE v = w
        BY <3>3, <3>4, <3>6, <4>1
      <4>2. CASE v # w
        BY <3>2, <3>5, <4>2
      <4> QED
        BY <4>1, <4>2
    <3>8. ASSUME NEW v \in Thread, pc'[v] \in Working
          PROVE  /\ Pending(v)' \subseteq urls'[cur'[v]]
                 /\ \A x \in Url : reports'[cur'[v]][x] =
                      IF x \in urls'[cur'[v]] \ Pending(v)' THEN 1 ELSE 0
      <4>1. Pending(v)' = Pending(v)
        BY <3>1, <3>2
      <4>2. /\ Pending(v) \subseteq urls[cur[v]]
            /\ \A x \in Url : reports[cur[v]][x] =
                 IF x \in urls[cur[v]] \ Pending(v) THEN 1 ELSE 0
        BY <3>8
      <4> HIDE DEF Pending
      <4> QED
        BY <4>1, <4>2
    <3>9. /\ \A h \in Handle : h > num' \/ h \in tasks' \cup unqueued' =>
               \A x \in Url : reports'[h][x] = 0
          /\ \A h \in Handle :
               (\A v \in Thread : cur'[v] # h) /\ h \in (1..num') \ (tasks' \cup unqueued') =>
                 \A x \in Url : reports'[h][x] = IF x \in urls'[h] THEN 1 ELSE 0
      OBVIOUS
    <3> QED
      BY <3>7, <3>8, <3>9
  <2>6. CASE EmitCached(w)
    BY <2>6 DEF EmitCached, Report, Counted, mainVars, flagVars
  <2>7. ASSUME NEW u \in Url, ToSpecialized(w, u)
        PROVE  Books'
    BY <2>7 DEF ToSpecialized, Dispatch, Group, mainVars, flagVars
  <2>8. ASSUME NEW u \in Url, ToPlugin(w, u)
        PROVE  Books'
    BY <2>8 DEF ToPlugin, Dispatch, Group, mainVars, flagVars
  <2>9. ASSUME NEW u \in Url, NoHandler(w, u)
        PROVE  Books'
    BY <2>9 DEF NoHandler, Group, Report, Counted, mainVars, flagVars
  <2>10. ASSUME NEW u \in Url, SpecializedAnswer(w, u)
        PROVE  Books'
    BY <2>10, SMTT(30) DEF SpecializedAnswer, Report, Counted, mainVars, flagVars
  <2>11. ASSUME NEW failed \in SUBSET Url, PluginReturn(w, failed)
        PROVE  Books'
    BY <2>11 DEF PluginReturn, Subtract, Counted, mainVars, flagVars
  <2>12. CASE Finish(w)
    <3> USE <2>12 DEF Finish, Emits, mainVars, flagVars, workVars
    <3>1. Pending(w) = {} /\ todo[w] = {} /\ cached[w] = {} /\ batch[w] = {}
      OBVIOUS
    <3>2. \A v \in Thread \ {w} : pc'[v] = pc[v] /\ cur'[v] = cur[v]
      OBVIOUS
    <3>3. pc'[w] = "idle" /\ cur'[w] = 0
      OBVIOUS
    <3>4. ASSUME NEW k \in Handle, \A v \in Thread : cur'[v] # k,
                 k \in (1..num) \ (tasks \cup unqueued)
          PROVE  \A u \in Url : reports[k][u] = IF u \in urls[k] THEN 1 ELSE 0
      <4>1. CASE k = cur[w]
        <5>1. pc[w] = "groups"
          BY <3>4, <4>1
        <5> QED
          BY <3>1, <4>1, <5>1
      <4>2. CASE k # cur[w]
        <5>1. \A v \in Thread : cur[v] # k
          BY <3>2, <3>4, <4>2
        <5> QED
          BY <3>4, <5>1
      <4> QED
        BY <4>1, <4>2
    <3> QED
      BY <3>1, <3>2, <3>3, <3>4
  <2> QED
    BY <1>7, <2>1, <2>2, <2>3, <2>4, <2>5, <2>6, <2>7, <2>8, <2>9, <2>10,
       <2>11, <2>12 DEF Work
<1>8. CASE UNCHANGED vars
  BY <1>8 DEF vars
<1> QED
  BY <1>1, <1>2, <1>3, <1>4, <1>5, <1>6, <1>7, <1>8 DEF Next

-----------------------------------------------------------------------------

\* The inductive invariant holds in every reachable state.
THEOREM Inductive == Spec => []IInv
<1>1. Init => IInv
  BY InitType, InitOnePlace, InitFlags, InitBooks DEF IInv
<1>2. IInv /\ [Next]_vars => IInv'
  BY NextType, NextOnePlace, NextFlags, NextBooks DEF IInv
<1> QED
  BY <1>1, <1>2, PTL DEF Spec

\* A request is always in exactly one place: its pool's queue, or one thread
\* of that pool; Unqueue and the unmount handler see it while no thread has
\* taken it, and only then.
THEOREM OnePlaceAlways == Spec => []OnePlace
BY Inductive, PTL DEF IInv

\* Whatever the number of threads and requests, and wherever the unmount
\* handler interrupts them, Finished is emitted at most once per request.
THEOREM FinishedOnce == Spec => []FinishedAtMostOnce
BY Inductive, PTL DEF IInv, FlagsDecideFinished

\* Every url of a request carried out to its end was named by exactly one
\* Ready or Error signal.
THEOREM AnsweredOnce == Spec => []EachUrlAnsweredOnce
<1>1. IInv => EachUrlAnsweredOnce
  <2> SUFFICES ASSUME IInv, NEW h \in Handle
               PROVE  /\ \A u \in Url : reports[h][u] <= (IF u \in urls[h] THEN 1 ELSE 0)
                      /\ finished[h] > 0 /\ h \notin unqueued =>
                           \A u \in urls[h] : reports[h][u] = 1
    BY DEF EachUrlAnsweredOnce
  <2> USE DEF IInv, TypeOK, OnePlace, FlagsDecideFinished, Books, Working
  <2>1. CASE h > num \/ h \in tasks \cup unqueued
    BY <2>1
  <2>2. CASE h \in (1..num) \ (tasks \cup unqueued) /\ \A w \in Thread : cur[w] # h
    BY <2>2
  <2>3. CASE h \in (1..num) \ (tasks \cup unqueued) /\ \E w \in Thread : cur[w] = h
    <3>1. PICK w \in Thread : cur[w] = h
      BY <2>3
    <3>2. pc[w] \in Working
      BY <2>3, <3>1
    <3>3. finished[h] = 0
      BY <2>3, <3>1, <3>2
    <3> QED
      BY <3>1, <3>2, <3>3
  <2> QED
    BY <2>1, <2>2, <2>3 DEF Handle
<1> QED
  BY <1>1, Inductive, PTL

\* A cancelled request never reports anything.
THEOREM CancelledSilent == Spec => []CancelledIsSilent
<1>1. IInv => CancelledIsSilent
  BY DEF IInv, TypeOK, Books, CancelledIsSilent
<1> QED
  BY <1>1, Inductive, PTL

\* After a request's Finished no Ready or Error is emitted for it: a thread
\* reports only for the task it works on, which has had no Finished.
THEOREM SilentOnceFinished == Spec => SilentAfterFinished
<1>1. ASSUME IInv, [Next]_vars, NEW h \in Handle, finished[h] > 0, main # "down"
      PROVE  reports'[h] = reports[h]
  <2> USE <1>1 DEF IInv, TypeOK
  <2>1. \A w \in Thread : pc[w] \in Working => cur[w] # h
    BY DEF FlagsDecideFinished, Working
  <2>2. CASE reports' = reports
    BY <2>2
  <2>3. ASSUME NEW w \in Thread, pc[w] \in Working, NEW c,
               reports' = [reports EXCEPT ![cur[w]] = c]
        PROVE  reports'[h] = reports[h]
    BY <2>1, <2>3
  <2>4. ASSUME NEW w \in Thread, Work(w)
        PROVE  reports'[h] = reports[h]
    <3> USE DEF Report, Working
    <3>1. CASE Start(w) \/ Take(w) \/ Finish(w)
      BY <3>1 DEF Start, Take, Finish
    <3>2. CASE EmitCached(w)
      BY <3>2, <2>3 DEF EmitCached
    <3>3. ASSUME NEW u \in Url,
                 \/ ExamineCached(w, u) \/ ExamineMissing(w, u)
                 \/ ToSpecialized(w, u) \/ ToPlugin(w, u)
          PROVE  reports'[h] = reports[h]
      BY <3>3 DEF ExamineCached, ExamineMissing, ToSpecialized, ToPlugin, Dispatch
    <3>4. ASSUME NEW u \in Url,
                 \/ ExamineUnreadable(w, u) \/ NoHandler(w, u)
                 \/ SpecializedAnswer(w, u)
          PROVE  reports'[h] = reports[h]
      BY <3>4, <2>3 DEF ExamineUnreadable, NoHandler, SpecializedAnswer
    <3>5. ASSUME NEW failed \in SUBSET Url, PluginReturn(w, failed)
          PROVE  reports'[h] = reports[h]
      BY <3>5, <2>3 DEF PluginReturn
    <3> QED
      BY <2>4, <3>1, <3>2, <3>3, <3>4, <3>5 DEF Work
  <2> QED
    BY <2>2, <2>4 DEF Next, Queue, QueueReply, Unqueue, CrashOut, Exit, Restart, vars
<1>2. IInv /\ [Next]_vars => [\A h \in Handle :
        finished[h] > 0 /\ main # "down" => reports'[h] = reports[h]]_vars
  BY <1>1
<1> QED
  BY <1>2, Inductive, PTL DEF Spec, SilentAfterFinished

-----------------------------------------------------------------------------
(* The refinement: what a client sees of the daemon is ThumbnailService.     *)

\* What Finished leaves nothing to do about: a task that is dead, and one that
\* is neither in priv->tasks nor with a thread.
Accounted ==
  /\ \A h \in dead : finished[h] > 0
  /\ \A h \in (1..num) \ tasks : (\A w \in Thread : cur[w] # h) => finished[h] > 0

Abstraction == IInv /\ Accounted

LEMMA NextAccounted == Abstraction /\ IInv' /\ [Next]_vars => Accounted'
<1> SUFFICES ASSUME Abstraction, IInv', [Next]_vars PROVE Accounted'
  OBVIOUS
<1> USE DEF Abstraction, IInv, TypeOK
<1>1. ASSUME NEW U \in SUBSET Url, NEW h \in 0..MaxTasks, Queue(U, h) PROVE Accounted'
  BY <1>1 DEF Queue, NewHandle, Accounted
<1>2. CASE QueueReply
  BY <1>2 DEF QueueReply, flagVars, Accounted
<1>3. ASSUME NEW h \in Handle, Unqueue(h) PROVE Accounted'
  BY <1>3 DEF Unqueue, mainVars, Accounted
<1>4. CASE CrashOut
  <2>1. \A h \in Handle : finished'[h] \in Nat /\ finished'[h] >= finished[h] /\ (h \in tasks => finished'[h] > 0)
    BY <1>4 DEF CrashOut
  <2>2. dead' = dead \cup tasks /\ UNCHANGED <<num, tasks, cur>>
    BY <1>4 DEF CrashOut, CrashDead
  <2>3. dead \subseteq Handle /\ 1..num \subseteq Handle
    BY BoundsAssumption DEF Handle
  <2> QED
    BY <2>1, <2>2, <2>3 DEF Accounted
<1>5. CASE Exit
  BY <1>5 DEF Exit, flagVars, Accounted
<1>6. CASE Restart
  BY <1>6 DEF Restart, Accounted
<1>7. ASSUME NEW w \in Thread, Start(w) PROVE Accounted'
  <2>1. PICK h \in waiting[PoolOf(w)] : cur' = [cur EXCEPT ![w] = h]
    BY <1>7 DEF Start
  <2>2. h \in tasks /\ cur[w] = 0
    BY <1>7, PoolsExist DEF Start, OnePlace
  <2>3. UNCHANGED <<num, tasks, dead, finished>>
    BY <1>7 DEF Start, mainVars, flagVars
  <2>4. \A k \in (1..num) \ tasks : (\A v \in Thread : cur'[v] # k) => \A v \in Thread : cur[v] # k
    BY <2>1, <2>2
  <2> QED
    BY <2>3, <2>4 DEF Accounted
<1>8. ASSUME NEW w \in Thread, Take(w) PROVE Accounted'
  <2>1. tasks' = tasks \ {cur[w]} /\ UNCHANGED <<num, cur, dead, finished>>
    BY <1>8 DEF Take, Removed, mainVars, flagVars
  <2> QED
    BY <2>1 DEF Accounted
<1>9. ASSUME NEW w \in Thread, Finish(w) PROVE Accounted'
  <2>1. cur[w] \in Handle /\ cur' = [cur EXCEPT ![w] = 0] /\ UNCHANGED <<num, tasks, dead>>
    BY <1>9 DEF Finish, mainVars, flagVars, Working
  <2>2. finished' = [finished EXCEPT ![cur[w]] = @ + IF Emits(w) THEN 1 ELSE 0]
    BY <1>9 DEF Finish
  <2>3. \A h \in Handle : finished'[h] \in Nat /\ finished'[h] >= finished[h]
    BY <2>1, <2>2
  <2>4. finished'[cur[w]] > 0
    <3>1. CASE cur[w] \in dead
      BY <2>1, <2>3, <3>1 DEF Accounted
    <3>2. CASE cur[w] \notin dead
      BY <2>1, <2>2, <3>2 DEF Emits
    <3> QED
      BY <3>1, <3>2
  <2>5. dead \subseteq Handle /\ 1..num \subseteq Handle
    BY BoundsAssumption DEF Handle
  <2>6. \A h \in dead' : finished'[h] > 0
    BY <2>1, <2>3, <2>5 DEF Accounted
  <2>7. \A k \in (1..num) \ tasks :
          (\A v \in Thread : cur'[v] # k) => k = cur[w] \/ \A v \in Thread : cur[v] # k
    BY <2>1
  <2>8. \A k \in (1..num') \ tasks' : (\A v \in Thread : cur'[v] # k) => finished'[k] > 0
    BY <2>1, <2>3, <2>4, <2>5, <2>7 DEF Accounted
  <2> QED
    BY <2>6, <2>8 DEF Accounted
<1>10. CASE UNCHANGED <<num, tasks, cur, dead, finished>>
  BY <1>10 DEF Accounted
<1>11. ASSUME NEW w \in Thread, Work(w), ~Start(w), ~Take(w), ~Finish(w) PROVE Accounted'
  BY <1>10, <1>11 DEF Work, ExamineUnreadable, ExamineCached, ExamineMissing, EmitCached,
     ToSpecialized, ToPlugin, Dispatch, NoHandler, SpecializedAnswer, PluginReturn, mainVars, flagVars
<1>12. CASE UNCHANGED vars
  BY <1>10, <1>12 DEF vars
<1> QED
  BY <1>1, <1>2, <1>3, <1>4, <1>5, <1>6, <1>7, <1>8, <1>9, <1>11, <1>12 DEF Next

\* What the service calls the daemon's state.
Answered(h) == {u \in Url : reports[h][u] > 0}
Up == main \in {"idle", "reply"}

\* A step the service does not see.
LEMMA Unseen ==
  ASSUME TypeOK, \A k \in Handle : Phase(k)' = Phase(k), UNCHANGED <<num, urls, unqueued, reports>>,
         Up' = Up, main' = "exiting" <=> main = "exiting"
  PROVE  UNCHANGED Service!vars
BY DEF Service!vars, Up

\* Ready or Error names the urls U of a running task.
LEMMA Answers ==
  ASSUME TypeOK, NEW h \in Handle, NEW U \in SUBSET Url,
         main # "down", Phase(h) = "running", U \subseteq urls[h] \ Answered(h),
         \A k \in Handle : Phase(k)' = Phase(k),
         Answered(h)' = Answered(h) \cup U,
         \A k \in Handle \ {h} : Answered(k)' = Answered(k),
         UNCHANGED <<num, urls, unqueued, main>>
  PROVE  Service!Answer(h, U)
<1> DEFINE answers == [k \in Handle |-> {u \in Url : reports[k][u] > 0}]
<1>1. answers' = [answers EXCEPT ![h] = @ \cup U]
  <2>1. \A k \in Handle : answers'[k] = Answered(k)' /\ answers[k] = Answered(k)
    BY DEF Answered
  <2>2. \A k \in Handle : answers'[k] = [answers EXCEPT ![h] = @ \cup U][k]
    BY <2>1
  <2> QED
    BY <2>2
<1>2. U \subseteq urls[h] \ answers[h]
  BY DEF Answered
<1>3. [k \in Handle |-> Phase(k)]' = [k \in Handle |-> Phase(k)]
  OBVIOUS
<1>4. [k \in Handle |-> Phase(k)][h] = "running"
  OBVIOUS
<1>5. (IF main \in {"idle", "reply"} THEN "up" ELSE IF main = "exiting" THEN "ending" ELSE "down") # "down"
  BY DEF TypeOK
<1> QED
  BY <1>1, <1>2, <1>3, <1>4, <1>5 DEF Service!Answer

\* The urls of U are answered in r, beside those task h had answers to; and
\* every thread that works goes on working.
Adds(r, h, U) == \A u \in Url : r[u] > 0 <=> reports[h][u] > 0 \/ u \in U
SameWorkers == \A v \in Thread : pc'[v] \in Working <=> pc[v] \in Working

\* A working thread's report: Answer, of the urls U that were pending.
LEMMA WorkingReports ==
  ASSUME Abstraction, NEW w \in Thread, Running, pc[w] \in Working, SameWorkers,
         NEW U, U \subseteq Pending(w), NEW r, r \in [Url -> Nat], Adds(r, cur[w], U),
         reports' = [reports EXCEPT ![cur[w]] = r],
         UNCHANGED <<num, main, urls, unqueued, cur, finished>>
  PROVE  Service!Next
<1> USE DEF Abstraction, IInv, Adds, SameWorkers
<1>0. PICK h \in Handle : h = cur[w]
  BY DEF TypeOK, Working
<1>1. h \in Handle /\ h <= num /\ h \notin unqueued
  BY <1>0, BoundsAssumption DEF OnePlace, TypeOK, FlagsDecideFinished, Working, Handle
<1>2. finished[h] = 0
  BY <1>0, <1>1 DEF FlagsDecideFinished, Working
<1>3. Phase(h) = "running"
  <2>1. ~(h > num) /\ ~(finished[h] > 0)
    BY <1>1, <1>2, BoundsAssumption DEF TypeOK, Handle
  <2>2. \E v \in Thread : cur[v] = h /\ pc[v] \in Working
    BY <1>0
  <2> QED
    BY <2>1, <2>2 DEF Phase
<1>4. U \in SUBSET Url /\ U \subseteq urls[h] /\ \A u \in U : reports[h][u] = 0
  BY <1>0, <1>1 DEF Books, TypeOK, Pending
<1>5. U \subseteq urls[h] \ Answered(h)
  BY <1>4 DEF Answered
<1>6. \A k \in Handle : Phase(k)' = Phase(k)
  <2>1. \A v \in Thread : pc'[v] \in Working <=> pc[v] \in Working
    OBVIOUS
  <2> QED
    BY <2>1 DEF Phase
<1>7. reports'[h] = r /\ \A k \in Handle \ {h} : reports'[k] = reports[k]
  BY <1>0, <1>1 DEF TypeOK
<1>8. Answered(h)' = Answered(h) \cup U
  BY <1>0, <1>4, <1>7 DEF Answered
<1>9. \A k \in Handle \ {h} : Answered(k)' = Answered(k)
  BY <1>7 DEF Answered
<1>10. main # "down"
  BY DEF Running
<1>11. Service!Answer(h, U)
  BY <1>3, <1>4, <1>5, <1>6, <1>8, <1>9, <1>10, Answers
<1> QED
  BY <1>4, <1>11 DEF Service!Next, Service!Handle, Handle

\* One request moves to phase p.
LEMMA PhaseMoves ==
  ASSUME NEW h \in Handle, NEW p, Phase(h)' = p,
         \A k \in Handle \ {h} : Phase(k)' = Phase(k)
  PROVE  [k \in Handle |-> Phase(k)]' = [[k \in Handle |-> Phase(k)] EXCEPT ![h] = p]
<1> DEFINE new == [k \in Handle |-> Phase(k)']
           old == [k \in Handle |-> Phase(k)]
<1>1. \A k \in Handle : new[k] = [old EXCEPT ![h] = p][k]
  <2>1. ASSUME NEW k \in Handle PROVE new[k] = [old EXCEPT ![h] = p][k]
    <3>1. CASE k = h
      BY <3>1
    <3>2. CASE k # h
      BY <3>2
    <3> QED
      BY <3>1, <3>2
  <2> QED
    BY <2>1
<1>2. new = [old EXCEPT ![h] = p]
  <2> HIDE DEF old
  <2>1. DOMAIN old = Handle
    BY DEF old
  <2> QED
    BY <1>1, <2>1 DEF new
<1> QED
  BY <1>2

\* The queued requests of the service include those in priv->tasks.
LEMMA TasksQueued ==
  ASSUME Abstraction, NEW h \in tasks, h \notin dead
  PROVE  h \in Handle /\ Phase(h) = "queued"
<1> USE DEF Abstraction, IInv
<1>1. h \in Handle /\ h <= num /\ finished[h] = 0
  BY BoundsAssumption DEF TypeOK, OnePlace, FlagsDecideFinished, Handle
<1>2. \A w \in Thread : cur[w] = h => pc[w] \notin Working
  BY <1>1 DEF OnePlace, TypeOK, Working, Handle
<1> QED
  BY <1>1, <1>2, BoundsAssumption DEF Phase, TypeOK, Handle

LEMMA QueueAccepts ==
  ASSUME Abstraction, NEW U \in SUBSET Url, NEW h \in 0..MaxTasks, Queue(U, h)
  PROVE  Service!Next
<1> USE DEF Abstraction, IInv, TypeOK
<1> DEFINE phases == [k \in Handle |-> Phase(k)]
<1>0. PICK n \in Handle : n = num + 1
  BY BoundsAssumption DEF Queue, Handle
<1>00. PICK g \in 0..MaxTasks : g = IF h \in tasks THEN h ELSE 0
  BY BoundsAssumption
<1>1. n \in Handle /\ num \in Nat /\ num < MaxTasks /\ main = "idle" /\ num' = n
  BY <1>0 DEF Queue, Handle
<1>2. /\ urls' = [urls EXCEPT ![n] = U] /\ main' = "reply"
      /\ UNCHANGED <<dead, pc, cur, finished, reports>>
  BY <1>0 DEF Queue, NewHandle
<1>3. \A w \in Thread : cur[w] # n
  BY <1>0, <1>1 DEF OnePlace
<1>4. Phase(n)' = "queued"
  <2>1. ~(n > num') /\ ~(finished'[n] > 0)
    BY <1>0, <1>1, <1>2 DEF FlagsDecideFinished
  <2>2. ~(\E w \in Thread : cur'[w] = n /\ pc'[w] \in Working)
    BY <1>2, <1>3
  <2> QED
    BY <2>1, <2>2 DEF Phase
<1>5. ASSUME NEW k \in Handle \ {n} PROVE Phase(k)' = Phase(k)
  <2>1. k > num' <=> k > num
    BY <1>0, <1>1 DEF Handle
  <2> QED
    BY <1>2, <2>1 DEF Phase
<1>6. phases' = [phases EXCEPT ![n] = "queued"]
  BY <1>1, <1>4, <1>5, PhaseMoves
<1>7. dead = {}
  BY <1>1 DEF FlagsDecideFinished
<1>8. h \in tasks => h \in Handle /\ phases[h] = "queued"
  BY <1>7, TasksQueued
<1>9. {g} \cap {k \in Handle : phases[k] = "queued"} = {h} \cap tasks
  BY <1>00, <1>8 DEF Handle
<1>10. unqueued' = unqueued \cup ({g} \cap {k \in Handle : phases[k] = "queued"})
  BY <1>9 DEF Queue, MarkUnqueued
<1>11. Service!Accept(U, g)
  BY <1>0, <1>1, <1>2, <1>6, <1>10 DEF Service!Accept, Service!Queued, Service!Handle, Handle
<1> QED
  BY <1>00, <1>11 DEF Service!Next

LEMMA UnqueueCancels ==
  ASSUME Abstraction, NEW h \in Handle, Unqueue(h)
  PROVE  Service!Next \/ UNCHANGED Service!vars
<1> USE DEF Abstraction, IInv
<1>1. main = "idle" /\ UNCHANGED <<num, main, urls, pc, cur, finished, reports>>
  BY DEF Unqueue, mainVars
<1>2. \A k \in Handle : Phase(k)' = Phase(k)
  BY <1>1 DEF Phase
<1>3. CASE h \in tasks
  <2>1. h \notin dead
    BY <1>1 DEF FlagsDecideFinished
  <2>2. Phase(h) = "queued"
    BY <1>3, <2>1, TasksQueued
  <2>3. unqueued' = unqueued \cup {h}
    BY <1>3 DEF Unqueue, MarkUnqueued
  <2>4. Service!Cancel(h)
    BY <1>1, <1>2, <2>2, <2>3 DEF Service!Cancel, Service!Queued, Service!Handle, Handle
  <2> QED
    BY <2>4 DEF Service!Next, Service!Handle, Handle
<1>4. CASE h \notin tasks
  <2>1. unqueued' = unqueued
    BY <1>4 DEF Unqueue, MarkUnqueued
  <2> QED
    BY <1>1, <1>2, <2>1, Unseen DEF Up
<1> QED
  BY <1>3, <1>4

\* What crash_out leaves queued is cancelled: a thread has only its Finished to send.
LEMMA CrashGivesUp ==
  ASSUME Abstraction, CrashOut
  PROVE  Service!Next
<1> USE DEF Abstraction, IInv, TypeOK
<1> DEFINE phases == [k \in Handle |-> Phase(k)]
<1>1. /\ main = "idle" /\ main' = "exiting" /\ unqueued' = unqueued \cup tasks
      /\ UNCHANGED <<num, tasks, urls, pc, cur, reports>>
      /\ finished' = [h \in Handle |-> finished[h] + IF h \in tasks THEN 1 ELSE 0]
  BY DEF CrashOut, CrashUnqueued
<1>2. dead = {}
  BY <1>1 DEF FlagsDecideFinished
<1>3. \A h \in tasks : h \in Handle /\ phases[h] = "queued"
  BY <1>2, TasksQueued
<1>4. ASSUME NEW h \in Handle, phases[h] = "queued", h \notin tasks
      PROVE  h \in unqueued
  <2>1. h \in (1..num) \ tasks /\ finished[h] = 0 /\ \A w \in Thread : cur[w] = h => pc[w] \notin Working
    BY <1>4, BoundsAssumption DEF Phase, Handle
  <2>2. PICK w \in Thread : cur[w] = h
    BY <2>1 DEF Accounted
  <2>3. pc[w] = "unqueued"
    BY <2>1, <2>2, BoundsAssumption DEF OnePlace, Working, Handle
  <2> QED
    BY <2>2, <2>3 DEF FlagsDecideFinished
<1>5. \A h \in tasks : Phase(h)' = "done"
  <2>1. ASSUME NEW h \in tasks PROVE Phase(h)' = "done"
    <3>1. h \in Handle /\ h <= num /\ num \in Nat
      BY BoundsAssumption DEF OnePlace, Handle
    <3>2. finished'[h] > 0
      BY <1>1, <3>1
    <3> QED
      BY <1>1, <3>1, <3>2 DEF Phase, Handle
  <2> QED
    BY <2>1
<1>6. \A h \in Handle \ tasks : Phase(h)' = Phase(h)
  BY <1>1 DEF Phase
<1>7. phases' = [h \in Handle |-> IF h \in tasks THEN "done" ELSE phases[h]]
  BY <1>5, <1>6
<1>8. tasks \subseteq {k \in Handle : phases[k] = "queued"}
  BY <1>3
<1>9. {k \in Handle : phases[k] = "queued"} \ tasks \subseteq unqueued
  BY <1>4
<1>10. Service!GiveUp(tasks)
  BY <1>1, <1>7, <1>8, <1>9 DEF Service!GiveUp, Service!Queued, Service!Handle, Handle
<1>11. tasks \in SUBSET Service!Handle
  BY DEF Service!Handle, Handle
<1> QED
  BY <1>10, <1>11 DEF Service!Next

\* A step that moves no request to another phase and reports nothing.
LEMMA PhaseKept ==
  ASSUME UNCHANGED <<num, finished, cur>>,
         \A w \in Thread : pc'[w] \in Working <=> pc[w] \in Working
  PROVE  \A h \in Handle : Phase(h)' = Phase(h)
BY DEF Phase

\* Started is no service step; taking the task is Begin, unless the flag is set.
LEMMA StartUnseen ==
  ASSUME Abstraction, NEW w \in Thread, Start(w)
  PROVE  UNCHANGED Service!vars
<1> USE DEF Abstraction, IInv
<1>1. PICK h \in waiting[PoolOf(w)] : cur' = [cur EXCEPT ![w] = h]
  BY DEF Start
<1>2. /\ pc[w] = "idle" /\ pc' = [pc EXCEPT ![w] = "started"]
      /\ UNCHANGED <<num, main, urls, unqueued, dead, finished, reports>>
  BY DEF Start, mainVars, flagVars
<1>3. h \in tasks
  BY PoolsExist DEF OnePlace
<1>4. \A v \in Thread, k \in Handle : cur'[v] = k /\ pc'[v] \in Working <=> cur[v] = k /\ pc[v] \in Working
  <2>1. \A v \in Thread \ {w} : cur'[v] = cur[v] /\ pc'[v] = pc[v]
    BY <1>1, <1>2 DEF TypeOK
  <2>2. pc[w] \notin Working /\ pc'[w] \notin Working
    BY <1>2 DEF TypeOK, Working
  <2> QED
    BY <2>1, <2>2
<1>5. \A k \in Handle : Phase(k)' = Phase(k)
  BY <1>2, <1>4 DEF Phase
<1> QED
  BY <1>2, <1>5, Unseen DEF Up

LEMMA TakeBegins ==
  ASSUME Abstraction, NEW w \in Thread, Take(w)
  PROVE  Service!Next \/ UNCHANGED Service!vars
<1> USE DEF Abstraction, IInv
<1>0. PICK h \in Handle : h = cur[w]
  BY DEF Take, TypeOK
<1>1. /\ pc[w] = "started" /\ main # "down"
      /\ pc' = [pc EXCEPT ![w] = IF h \in unqueued THEN "unqueued" ELSE "examine"]
      /\ UNCHANGED <<num, main, urls, unqueued, dead, cur, finished, reports>>
  BY <1>0 DEF Take, Running, mainVars, flagVars
<1>2. \A v \in Thread \ {w} : pc'[v] = pc[v]
  BY <1>1 DEF TypeOK
<1>3. CASE h \in unqueued
  <2>1. pc[w] \notin Working /\ pc'[w] \notin Working
    BY <1>1, <1>3 DEF TypeOK, Working
  <2>2. \A k \in Handle : Phase(k)' = Phase(k)
    BY <1>1, <1>2, <2>1, PhaseKept
  <2> QED
    BY <1>1, <2>2, Unseen DEF Up
<1>4. CASE h \notin unqueued
  <2>1. h \in tasks /\ h \notin dead
    BY <1>0, <1>1, <1>4 DEF OnePlace, FlagsDecideFinished
  <2>2. Phase(h) = "queued"
    BY <2>1, TasksQueued
  <2>3. pc'[w] \in Working
    BY <1>1, <1>4 DEF TypeOK, Working
  <2>4. Phase(h)' = "running"
    <3>1. ~(h > num') /\ ~(finished'[h] > 0)
      BY <1>1, <2>2 DEF Phase
    <3>2. \E v \in Thread : cur'[v] = h /\ pc'[v] \in Working
      BY <1>0, <1>1, <2>3
    <3> QED
      BY <3>1, <3>2 DEF Phase
  <2>5. \A k \in Handle \ {h} : Phase(k)' = Phase(k)
    <3>1. \A k \in Handle \ {h}, v \in Thread :
            cur'[v] = k /\ pc'[v] \in Working <=> cur[v] = k /\ pc[v] \in Working
      BY <1>0, <1>1, <1>2
    <3> QED
      BY <1>1, <3>1 DEF Phase
  <2>6. [k \in Handle |-> Phase(k)]' = [[k \in Handle |-> Phase(k)] EXCEPT ![h] = "running"]
    BY <2>4, <2>5, PhaseMoves
  <2>7. (IF main \in {"idle", "reply"} THEN "up" ELSE IF main = "exiting" THEN "ending" ELSE "down") # "down"
    BY <1>1 DEF TypeOK
  <2>8. Service!Begin(h)
    BY <1>1, <1>4, <2>2, <2>6, <2>7 DEF Service!Begin, Service!Queued, Service!Handle, Handle
  <2> QED
    BY <2>8 DEF Service!Next, Service!Handle, Handle
<1> QED
  BY <1>3, <1>4

\* Sorting the urls and handing a group over is no service step.
LEMMA WorkUnseen ==
  ASSUME Abstraction, NEW w \in Thread, NEW u \in Url,
         \/ ExamineCached(w, u) \/ ExamineMissing(w, u)
         \/ ToSpecialized(w, u) \/ ToPlugin(w, u)
  PROVE  UNCHANGED Service!vars
<1> USE DEF Abstraction, IInv
<1>1. pc[w] \in Working /\ pc'[w] \in Working /\ \A v \in Thread \ {w} : pc'[v] = pc[v]
  BY DEF ExamineCached, ExamineMissing, ToSpecialized, ToPlugin, Dispatch, TypeOK, Working
<1>2. UNCHANGED <<num, main, urls, unqueued, dead, cur, finished, reports>>
  BY DEF ExamineCached, ExamineMissing, ToSpecialized, ToPlugin, Dispatch, mainVars, flagVars
<1>3. \A k \in Handle : Phase(k)' = Phase(k)
  BY <1>1, <1>2, PhaseKept
<1> QED
  BY <1>2, <1>3, Unseen DEF Up

\* One signal for the urls U, by a thread that goes on working.
LEMMA ReportSeen ==
  ASSUME Abstraction, NEW w \in Thread, Running, pc[w] \in Working, SameWorkers,
         NEW U, U \subseteq Pending(w), Report(cur[w], U),
         UNCHANGED <<num, main, urls, unqueued, cur, finished>>
  PROVE  Service!Next
<1> DEFINE r == Counted(reports[cur[w]], U)
<1>1. cur[w] \in Handle /\ reports[cur[w]] \in [Url -> Nat]
  BY DEF Abstraction, IInv, TypeOK, Working
<1>2. r \in [Url -> Nat] /\ Adds(r, cur[w], U)
  BY <1>1 DEF Counted, Adds
<1>3. reports' = [reports EXCEPT ![cur[w]] = r]
  BY DEF Report
<1> HIDE DEF r
<1> QED
  BY <1>2, <1>3, WorkingReports

LEMMA WorkReports ==
  ASSUME Abstraction, NEW w \in Thread, NEW u \in Url,
         \/ ExamineUnreadable(w, u) \/ EmitCached(w)
         \/ NoHandler(w, u) \/ SpecializedAnswer(w, u)
  PROVE  Service!Next
<1>1. Running /\ pc[w] \in Working /\ SameWorkers
  BY DEF ExamineUnreadable, EmitCached, NoHandler, SpecializedAnswer, Abstraction, IInv, TypeOK, Working, SameWorkers
<1>2. UNCHANGED <<num, main, urls, unqueued, cur, finished>>
  BY DEF ExamineUnreadable, EmitCached, NoHandler, SpecializedAnswer, mainVars, flagVars
<1>3. \/ {u} \subseteq Pending(w) /\ Report(cur[w], {u})
      \/ cached[w] \subseteq Pending(w) /\ Report(cur[w], cached[w])
      \/ Group(w, u) \subseteq Pending(w) /\ Report(cur[w], Group(w, u))
  BY DEF ExamineUnreadable, EmitCached, NoHandler, SpecializedAnswer, Group, Pending
<1> QED
  BY <1>1, <1>2, <1>3, ReportSeen

\* Ready and Error of one do_create name disjoint parts of the group.
LEMMA PluginReports ==
  ASSUME Abstraction, NEW w \in Thread, NEW failed \in SUBSET Url, PluginReturn(w, failed)
  PROVE  Service!Next
<1> DEFINE r == Counted(Counted(reports[cur[w]], Subtract(batch[w], failed)), failed)
<1>1. Running /\ pc[w] \in Working /\ SameWorkers
  BY DEF PluginReturn, Abstraction, IInv, TypeOK, Working, SameWorkers
<1>2. UNCHANGED <<num, main, urls, unqueued, cur, finished>>
  BY DEF PluginReturn, mainVars, flagVars
<1>3. cur[w] \in Handle /\ reports[cur[w]] \in [Url -> Nat]
  BY <1>1 DEF Abstraction, IInv, TypeOK, Working
<1>4. failed \subseteq batch[w] /\ batch[w] \subseteq Pending(w)
  BY DEF PluginReturn, Pending
<1>5. r \in [Url -> Nat] /\ Adds(r, cur[w], batch[w])
  BY <1>3, <1>4 DEF Counted, Subtract, Adds
<1>6. reports' = [reports EXCEPT ![cur[w]] = r]
  BY DEF PluginReturn
<1> HIDE DEF r
<1> QED
  BY <1>1, <1>2, <1>4, <1>5, <1>6, WorkingReports

\* Finished closes the request, unless the unmount handler sent it: then the
\* service closed it when it gave up.
LEMMA FinishCloses ==
  ASSUME Abstraction, NEW w \in Thread, Finish(w)
  PROVE  Service!Next \/ UNCHANGED Service!vars
<1> USE DEF Abstraction, IInv
<1>0. PICK h \in Handle : h = cur[w]
  BY DEF Finish, TypeOK, Working
<1>1. /\ main # "down" /\ pc[w] # "idle"
      /\ pc' = [pc EXCEPT ![w] = "idle"] /\ cur' = [cur EXCEPT ![w] = 0]
      /\ finished' = [finished EXCEPT ![h] = @ + IF h \notin dead THEN 1 ELSE 0]
      /\ UNCHANGED <<num, main, urls, unqueued, dead, reports>>
  BY <1>0 DEF Finish, Running, Emits, mainVars, flagVars
<1>2. h <= num /\ num \in Nat /\ \A v \in Thread \ {w} : cur[v] # h
  BY <1>0, <1>1, BoundsAssumption DEF OnePlace, TypeOK
<1>3. /\ \A v \in Thread \ {w} : cur'[v] = cur[v] /\ pc'[v] = pc[v]
      /\ cur'[w] = 0 /\ pc'[w] = "idle"
  BY <1>1 DEF TypeOK
<1>4. \A k \in Handle \ {h} : Phase(k)' = Phase(k)
  <2>1. \A k \in Handle \ {h}, v \in Thread :
          cur'[v] = k /\ pc'[v] \in Working <=> cur[v] = k /\ pc[v] \in Working
    <3>1. pc'[w] \notin Working
      BY <1>3 DEF Working
    <3> QED
      BY <1>0, <1>3, <3>1
  <2>2. \A k \in Handle \ {h} : finished'[k] = finished[k]
    BY <1>1 DEF TypeOK
  <2> QED
    BY <1>1, <2>1, <2>2 DEF Phase
<1>5. ~(h > num)
  BY <1>2 DEF Handle
<1>6. CASE h \in dead
  <2>1. finished' = finished /\ finished[h] > 0
    BY <1>1, <1>6 DEF Accounted, TypeOK
  <2>2. Phase(h)' = Phase(h)
    BY <1>1, <1>5, <2>1 DEF Phase
  <2> QED
    BY <1>1, <1>4, <2>2, Unseen DEF Up
<1>7. CASE h \notin dead
  <2>1. finished[h] = 0 /\ finished'[h] = 1
    BY <1>0, <1>1, <1>7 DEF FlagsDecideFinished, TypeOK
  <2>2. Phase(h)' = "done"
    BY <1>1, <1>5, <2>1 DEF Phase
  <2>3. [k \in Handle |-> Phase(k)]' = [[k \in Handle |-> Phase(k)] EXCEPT ![h] = "done"]
    BY <1>4, <2>2, PhaseMoves
  <2>4. \/ Phase(h) = "queued" /\ h \in unqueued
        \/ Phase(h) = "running" /\ {u \in Url : reports[h][u] > 0} = urls[h]
    <3>1. CASE pc[w] = "unqueued"
      <4>1. h \in unqueued
        BY <1>0, <3>1 DEF FlagsDecideFinished
      <4>2. \A v \in Thread : ~(cur[v] = h /\ pc[v] \in Working)
        BY <1>2, <3>1 DEF Working
      <4>3. Phase(h) = "queued"
        BY <1>5, <2>1, <4>2 DEF Phase
      <4> QED
        BY <4>1, <4>3
    <3>2. CASE pc[w] = "groups" /\ fresh[w] = {}
      <4>1. Pending(w) = {}
        BY <3>2 DEF Books, Pending
      <4>2. urls[h] \in SUBSET Url /\ \A u \in Url : reports[h][u] = IF u \in urls[h] THEN 1 ELSE 0
        BY <1>0, <3>2, <4>1 DEF Books, Working, TypeOK
      <4>3. {u \in Url : reports[h][u] > 0} = urls[h]
        BY <4>2
      <4>4. \E v \in Thread : cur[v] = h /\ pc[v] \in Working
        BY <1>0, <3>2 DEF Working
      <4>5. Phase(h) = "running"
        BY <1>5, <2>1, <4>4 DEF Phase
      <4> QED
        BY <4>3, <4>5
    <3> QED
      BY <3>1, <3>2 DEF Finish
  <2>5. (IF main \in {"idle", "reply"} THEN "up" ELSE IF main = "exiting" THEN "ending" ELSE "down") # "down"
    BY <1>1 DEF TypeOK
  <2>6. Service!Close(h)
    BY <1>1, <2>3, <2>4, <2>5 DEF Service!Close, Service!Queued, Service!Handle, Handle
  <2> QED
    BY <2>6 DEF Service!Next, Service!Handle, Handle
<1> QED
  BY <1>6, <1>7

LEMMA WorkImplements ==
  ASSUME Abstraction, NEW w \in Thread, Work(w)
  PROVE  Service!Next \/ UNCHANGED Service!vars
<1>1. CASE Start(w)
  BY <1>1, StartUnseen
<1>2. CASE Take(w)
  BY <1>2, TakeBegins
<1>3. ASSUME NEW u \in Url,
             \/ ExamineCached(w, u) \/ ExamineMissing(w, u)
             \/ ToSpecialized(w, u) \/ ToPlugin(w, u)
      PROVE  UNCHANGED Service!vars
  BY <1>3, WorkUnseen
<1>4. ASSUME NEW u \in Url,
             \/ ExamineUnreadable(w, u) \/ NoHandler(w, u) \/ SpecializedAnswer(w, u)
      PROVE  Service!Next
  BY <1>4, WorkReports
<1>5. CASE EmitCached(w)
  <2>1. Running /\ pc[w] \in Working /\ SameWorkers
    BY <1>5 DEF EmitCached, Abstraction, IInv, TypeOK, Working, SameWorkers
  <2>2. UNCHANGED <<num, main, urls, unqueued, cur, finished>>
    BY <1>5 DEF EmitCached, mainVars, flagVars
  <2>3. cached[w] \subseteq Pending(w) /\ Report(cur[w], cached[w])
    BY <1>5 DEF EmitCached, Pending
  <2> QED
    BY <2>1, <2>2, <2>3, ReportSeen
<1>6. ASSUME NEW failed \in SUBSET Url, PluginReturn(w, failed) PROVE Service!Next
  BY <1>6, PluginReports
<1>7. CASE Finish(w)
  BY <1>7, FinishCloses
<1> QED
  BY <1>1, <1>2, <1>3, <1>4, <1>5, <1>6, <1>7 DEF Work

LEMMA ServiceStep == Abstraction /\ [Next]_vars => [Service!Next]_(Service!vars)
<1> SUFFICES ASSUME Abstraction, [Next]_vars
             PROVE  Service!Next \/ UNCHANGED Service!vars
  OBVIOUS
<1>1. ASSUME NEW U \in SUBSET Url, NEW h \in 0..MaxTasks, Queue(U, h) PROVE Service!Next
  BY <1>1, QueueAccepts
<1>2. CASE QueueReply
  <2>1. /\ main = "reply" /\ main' = "idle"
        /\ UNCHANGED <<num, unqueued, dead, urls, pc, cur, finished, reports>>
    BY <1>2 DEF QueueReply, flagVars
  <2>2. \A k \in Handle : Phase(k)' = Phase(k)
    BY <2>1, PhaseKept
  <2> QED
    BY <2>1, <2>2, Unseen DEF Up, Abstraction, IInv
<1>3. ASSUME NEW h \in Handle, Unqueue(h) PROVE Service!Next \/ UNCHANGED Service!vars
  BY <1>3, UnqueueCancels
<1>4. CASE CrashOut
  BY <1>4, CrashGivesUp
<1>5. CASE Exit
  <2>1. /\ main = "exiting" /\ main' = "down"
        /\ UNCHANGED <<num, unqueued, dead, urls, pc, cur, finished, reports>>
    BY <1>5 DEF Exit, flagVars
  <2>2. \A k \in Handle : Phase(k)' = Phase(k)
    BY <2>1, PhaseKept
  <2>3. Service!End
    BY <2>1, <2>2 DEF Service!End
  <2> QED
    BY <2>3 DEF Service!Next
<1>6. CASE Restart
  <2>1. \A h \in Handle : Phase(h)' = "new"
    BY <1>6 DEF Restart, Phase, Handle
  <2>2. [h \in Handle |-> {u \in Url : reports[h][u] > 0}]' = [h \in Handle |-> {}]
    BY <1>6 DEF Restart
  <2>3. Service!Revive
    BY <1>6, <2>1, <2>2 DEF Restart, Service!Revive, Service!Handle, Handle
  <2> QED
    BY <2>3 DEF Service!Next
<1>7. ASSUME NEW w \in Thread, Work(w) PROVE Service!Next \/ UNCHANGED Service!vars
  BY <1>7, WorkImplements
<1>8. CASE UNCHANGED vars
  <2>1. UNCHANGED <<num, main, unqueued, dead, urls, pc, cur, finished, reports>>
    BY <1>8 DEF vars
  <2>2. \A k \in Handle : Phase(k)' = Phase(k)
    BY <2>1, PhaseKept
  <2> QED
    BY <2>1, <2>2, Unseen DEF Up, Abstraction, IInv
<1> QED
  BY <1>1, <1>2, <1>3, <1>4, <1>5, <1>6, <1>7, <1>8 DEF Next

\* The daemon implements the abstract service for every number of threads,
\* requests and urls: whatever the queue, the threads and the unmount handler
\* do, a request is accepted, begun unless it was cancelled, has urls answered
\* that were not, and is closed once, with all answered or none.
THEOREM Implements == Spec => ImplementsService
<1>1. Init => Abstraction /\ Service!Init
  <2>1. ASSUME Init PROVE \A h \in Handle : Phase(h) = "new"
    BY <2>1 DEF Init, Phase, Handle
  <2>2. ASSUME Init PROVE [h \in Handle |-> {u \in Url : reports[h][u] > 0}] = [h \in Handle |-> {}]
    BY <2>2 DEF Init
  <2>3. ASSUME Init PROVE Service!Init
    BY <2>1, <2>2, <2>3 DEF Init, Service!Init, Service!Handle, Handle
  <2>4. ASSUME Init PROVE Accounted
    BY <2>4 DEF Init, Accounted
  <2>5. Init => IInv
    BY InitType, InitOnePlace, InitFlags, InitBooks DEF IInv
  <2> QED
    BY <2>3, <2>4, <2>5 DEF Abstraction
<1>2. Abstraction /\ IInv' /\ [Next]_vars => Abstraction'
  BY NextAccounted DEF Abstraction
<1>3. Abstraction => IInv
  BY DEF Abstraction
<1> QED
  BY <1>1, <1>2, <1>3, ServiceStep, Inductive, PTL DEF Spec, ImplementsService, Service!Spec

-----------------------------------------------------------------------------
(* The order of the pools.                                                   *)

\* A thread emits Started when it gets its task.
Begun == \A w \in Thread : pc[w] # "idle" => cur[w] \in started

LEMMA NextBegun == TypeOK /\ Begun /\ [Next]_vars => Begun'
<1> SUFFICES ASSUME TypeOK, Begun, [Next]_vars
             PROVE  Begun'
  OBVIOUS
<1> USE DEF TypeOK, Begun
<1>1. CASE UNCHANGED <<pc, cur, started>>
  BY <1>1
<1>2. CASE Restart
  BY <1>2 DEF Restart
<1>3. ASSUME NEW w \in Thread, Start(w) PROVE Begun'
  BY <1>3 DEF Start
<1>4. ASSUME NEW w \in Thread, pc[w] # "idle", UNCHANGED <<cur, started>>,
             \A v \in Thread \ {w} : pc'[v] = pc[v]
      PROVE  Begun'
  BY <1>4
<1>5. ASSUME NEW w \in Thread, Finish(w) PROVE Begun'
  BY <1>5 DEF Finish
<1>6. ASSUME NEW w \in Thread, Work(w), ~Start(w), ~Finish(w)
      PROVE  pc[w] # "idle" /\ UNCHANGED <<cur, started>> /\ \A v \in Thread \ {w} : pc'[v] = pc[v]
  BY <1>6 DEF Work, Take, ExamineUnreadable, ExamineCached, ExamineMissing, EmitCached,
              ToSpecialized, ToPlugin, Dispatch, NoHandler, SpecializedAnswer, PluginReturn
<1> QED
  BY <1>1, <1>2, <1>3, <1>4, <1>5, <1>6 DEF Next, vars, Queue, QueueReply, Unqueue, CrashOut, Exit

LEMMA NewestTaken ==
  ASSUME IInv, Begun, [Next]_vars, NEW h \in started' \ started,
         NEW k \in tasks \ started, PoolFor(urls[k]) = PoolFor(urls[h])
  PROVE  k <= h
<1>1. PICK w \in Thread : Start(w)
  BY DEF Next, vars, Queue, QueueReply, Unqueue, CrashOut, Exit, Restart, Work, Take,
         ExamineUnreadable, ExamineCached, ExamineMissing, EmitCached, ToSpecialized,
         ToPlugin, Dispatch, NoHandler, SpecializedAnswer, PluginReturn, Finish
<1>2. h \in waiting[PoolOf(w)] /\ First(waiting[PoolOf(w)], h)
  BY <1>1 DEF Start
<1>3. PoolFor(urls[h]) = PoolOf(w)
  BY <1>2, PoolsExist DEF IInv, OnePlace
<1>4. \A v \in Thread : ~(pc[v] = "started" /\ cur[v] = k)
  BY DEF Begun
<1>5. PICK p \in Pool : k \in waiting[p]
  BY <1>4 DEF IInv, OnePlace
<1>6. p = PoolOf(w)
  BY <1>3, <1>5 DEF IInv, OnePlace
<1> QED
  BY <1>2, <1>5, <1>6 DEF First

\* A request overtakes every older one of its pool that no thread had begun,
\* for any number of requests and threads: the ones Unqueue marked too.
THEOREM NewestTakenFirst == Spec => NewestFirst
<1>1. Init => Begun
  BY DEF Init, Begun
<1>2. IInv /\ Begun /\ [Next]_vars =>
        [\A h \in started' \ started :
           \A k \in tasks \ started : PoolFor(urls[k]) = PoolFor(urls[h]) => k <= h]_vars
  BY NewestTaken
<1>3. IInv => TypeOK
  BY DEF IInv
<1> QED
  BY <1>1, <1>2, <1>3, NextBegun, Inductive, PTL DEF Spec, NewestFirst

-----------------------------------------------------------------------------
(* The gate.                                                                 *)

LEMMA LargeThread == large \in LargeThreads /\ large \notin NormalThreads /\ large \in Thread
<1>1. LargeThreads # {}
  BY OneLargeThread, FS_EmptySet
<1> QED
  BY <1>1, ThreadsAssumption DEF large, Thread

\* What the gate adds leaves the queue alone, and the rest is the queue's.
LEMMA GatedStep == [GatedNext]_gatedVars => [Next]_vars
<1>1. TakeLarge => Work(large)
  BY DEF TakeLarge, Work
<1>2. ExamineLarge => Work(large)
  BY DEF ExamineLarge, Examine, Work
<1>3. BesideGate(large) => Work(large)
  BY DEF BesideGate, Work
<1>4. WorkLarge => [Next]_vars
  BY <1>1, <1>2, <1>3, LargeThread DEF WorkLarge, AtGate, Next
<1>5. \A w \in NormalThreads : WorkNormal(w) => Next
  BY DEF WorkNormal, Next, Thread
<1> QED
  BY <1>4, <1>5 DEF GatedNext, Method, Completes, TrackerSignal, TrackerHandled, Spurious,
                    RestartGated, Next, gatedVars

\* The daemon with the gate is a daemon: all that is proved of Spec holds of it.
THEOREM GatedIsThumbnailer == GatedSpec => Spec
<1>1. GatedInit => Init
  BY DEF GatedInit
<1> QED
  BY <1>1, GatedStep, PTL DEF GatedSpec, Spec

\* So it keeps the service's promises too, whenever and as often as Tracker
\* holds the large pool back.
THEOREM GatedImplements == GatedSpec => ImplementsService
BY GatedIsThumbnailer, Implements

\* A step of one thread leaves the others where they are.
LEMMA OthersStay ==
  ASSUME TypeOK, NEW w \in Thread, Work(w)
  PROVE  \A v \in Thread \ {w} : pc'[v] = pc[v] /\ todo'[v] = todo[v]
BY DEF TypeOK, Work, Start, Take, ExamineUnreadable, ExamineCached, ExamineMissing, EmitCached,
       ToSpecialized, ToPlugin, Dispatch, NoHandler, SpecializedAnswer, PluginReturn, Finish, workVars

LEMMA UrlsCounted ==
  /\ Cardinality(Url) \in Nat
  /\ \A S \in SUBSET Url : /\ IsFiniteSet(S)
                           /\ Cardinality(S) \in 0..Cardinality(Url)
                           /\ Cardinality(S) = 0 <=> S = {}
                           /\ \A u \in S : Cardinality(S \ {u}) = Cardinality(S) - 1
<1>1. \A S \in SUBSET Url : IsFiniteSet(S) /\ Cardinality(S) \in Nat /\ Cardinality(S) <= Cardinality(Url)
  BY FiniteUrls, FS_Subset, FS_CardinalityType
<1>2. Cardinality(Url) \in Nat
  BY FiniteUrls, FS_CardinalityType
<1> QED
  BY <1>1, <1>2, FS_EmptySet, FS_RemoveElement

\* The part of SleeperIsKnown that types the gate.
GateTyped ==
  /\ gate \in {"check", "lock", "wait", "work"}
  /\ left \in 0..Cardinality(Url)
  /\ mustWait \in BOOLEAN
  /\ announced \in BOOLEAN
  /\ handler \in {"none", "idle", "clear"}

LEMMA GateParts ==
  SleeperIsKnown <=>
    /\ GateTyped
    /\ gate = "wait" => announced
    /\ gate # "work" => pc[large] = "examine" /\ left < Cardinality(todo[large])
    /\ pc[large] = "examine" =>
         left \in {Cardinality(todo[large]) - 1, Cardinality(todo[large])}
BY DEF SleeperIsKnown, GateTyped, Gate!TypeOK, Gate!State, Gate!SleeperIsKnown

LEMMA GatePartsAfter == SleeperIsKnown' <=>
    /\ GateTyped'
    /\ gate' = "wait" => announced'
    /\ gate' # "work" => pc'[large] = "examine" /\ left' < Cardinality(todo'[large])
    /\ pc'[large] = "examine" =>
         left' \in {Cardinality(todo'[large]) - 1, Cardinality(todo'[large])}
BY DEF SleeperIsKnown, GateTyped, Gate!TypeOK, Gate!State, Gate!SleeperIsKnown

\* The gate's own steps.
LEMMA AtGateKeeps ==
  ASSUME IInv, SleeperIsKnown, AtGate PROVE SleeperIsKnown'
<1> USE GateParts, GatePartsAfter
<1>1. UNCHANGED <<pc, todo>>
  BY DEF AtGate, vars, workVars
<1>2. GateTyped
  OBVIOUS
<1>3. CASE Gate!NextUrl /\ left = Cardinality(todo[large])
  <2>1. pc[large] = "examine"
    BY <1>2, <1>3, UrlsCounted, LargeThread DEF Gate!NextUrl, Gate!MoreUrls, IInv, Books, GateTyped, TypeOK
  <2>2. left' = left - 1 /\ left > 0 /\ gate' = "check" /\ UNCHANGED <<mustWait, announced, handler>>
    BY <1>3 DEF Gate!NextUrl, Gate!MoreUrls
  <2>3. Cardinality(todo'[large]) = left /\ pc'[large] = "examine"
    BY <1>1, <1>3, <2>1
  <2>4. GateTyped'
    BY <1>2, <2>2, UrlsCounted DEF GateTyped
  <2> QED
    BY <1>2, <2>2, <2>3, <2>4 DEF GateTyped
<1>4. CASE Gate!CheckMustWait
  <2>1. gate = "check" /\ gate' \in {"lock", "work"} /\ UNCHANGED <<left, mustWait, announced, handler>>
    BY <1>4 DEF Gate!CheckMustWait
  <2>2. GateTyped'
    BY <1>2, <2>1 DEF GateTyped
  <2> QED
    BY <1>1, <2>1, <2>2
<1>5. CASE Gate!Sleep
  <2>1. gate = "lock" /\ gate' = "wait" /\ announced' = TRUE /\ UNCHANGED <<left, mustWait, handler>>
    BY <1>5 DEF Gate!Sleep, Gate!Announced
  <2>2. GateTyped'
    BY <1>2, <2>1 DEF GateTyped
  <2> QED
    BY <1>1, <2>1, <2>2
<1> QED
  BY <1>3, <1>4, <1>5 DEF AtGate

\* Tracker's signals, and a wakeup that nobody sent.
LEMMA SignalsKeep ==
  ASSUME SleeperIsKnown, TrackerSignal \/ TrackerHandled \/ Spurious
  PROVE  SleeperIsKnown'
<1> USE GateParts, GatePartsAfter
<1>1. UNCHANGED <<pc, todo, left>>
  BY DEF TrackerSignal, TrackerHandled, Spurious, vars, workVars, Gate!HandleSignal,
         Gate!Release, Gate!ClearMustWait, Gate!WakeSpuriously
<1>2. gate' \in {gate, "work"} /\ (gate' = "wait" => announced' = announced)
  BY DEF TrackerSignal, TrackerHandled, Spurious, Gate!HandleSignal,
         Gate!Release, Gate!ClearMustWait, Gate!WakeSpuriously
<1>3. /\ mustWait' \in {mustWait, TRUE, FALSE} /\ announced' \in {announced, FALSE}
      /\ handler' \in {handler, "none", "idle", "clear"}
  BY DEF TrackerSignal, TrackerHandled, Spurious, Gate!HandleSignal,
         Gate!Release, Gate!ClearMustWait, Gate!WakeSpuriously
<1>4. GateTyped'
  BY <1>1, <1>2, <1>3 DEF GateTyped
<1> QED
  BY <1>1, <1>2, <1>4

\* The large pool's thread goes on with its request.
LEMMA LargeKeeps ==
  ASSUME IInv, IInv', SleeperIsKnown, TakeLarge \/ ExamineLarge \/ (BesideGate(large) /\ UNCHANGED gateVars)
  PROVE  SleeperIsKnown'
<1> USE GateParts, GatePartsAfter
<1>1. UNCHANGED <<gate, mustWait, announced, handler>>
  BY DEF TakeLarge, ExamineLarge, gateVars
<1>2. TypeOK /\ TypeOK' /\ GateTyped
  BY DEF IInv
<1>3. CASE TakeLarge
  <2>1. pc[large] = "started" /\ left' = Cardinality(todo'[large])
    BY <1>3 DEF TakeLarge, Take
  <2>2. gate' = "work" /\ left' \in 0..Cardinality(Url)
    BY <1>1, <1>2, <2>1, UrlsCounted, LargeThread DEF TypeOK
  <2>3. GateTyped'
    BY <1>1, <1>2, <2>2 DEF GateTyped
  <2> QED
    BY <1>1, <2>1, <2>2, <2>3
<1>4. CASE ExamineLarge
  <2>1. PICK u \in todo[large] : todo'[large] = todo[large] \ {u}
    BY <1>2, <1>4, LargeThread DEF ExamineLarge, Examine, ExamineUnreadable, ExamineCached,
                                   ExamineMissing, TypeOK
  <2>2. gate = "work" /\ left < Cardinality(todo[large]) /\ left' = left /\ UNCHANGED pc
    BY <1>4 DEF ExamineLarge, Passed, gateVars, Examine, ExamineUnreadable, ExamineCached, ExamineMissing
  <2>3. pc[large] = "examine"
    BY <1>4 DEF ExamineLarge, Examine, ExamineUnreadable, ExamineCached, ExamineMissing
  <2>4. left = Cardinality(todo[large]) - 1
    BY <1>2, <2>2, <2>3, UrlsCounted, LargeThread DEF GateTyped, TypeOK
  <2>5. Cardinality(todo'[large]) = Cardinality(todo[large]) - 1
    BY <1>2, <2>1, UrlsCounted, LargeThread DEF TypeOK
  <2>6. GateTyped'
    BY <1>1, <1>2, <2>2 DEF GateTyped
  <2> QED
    BY <1>1, <2>2, <2>4, <2>5, <2>6
<1>5. CASE BesideGate(large) /\ UNCHANGED gateVars
  <2>1. UNCHANGED left
    BY <1>5 DEF gateVars
  <2>2. pc[large] # "examine" \/ todo[large] = {}
    BY <1>5 DEF BesideGate, Start, EmitCached, ToSpecialized, ToPlugin, Dispatch, NoHandler,
                SpecializedAnswer, PluginReturn, Finish
  <2>3. pc'[large] # "examine"
    BY <1>2, <1>5, LargeThread DEF BesideGate, Start, EmitCached, ToSpecialized, ToPlugin, Dispatch, NoHandler,
                SpecializedAnswer, PluginReturn, Finish, TypeOK
  <2>4. gate = "work"
    <3>1. Cardinality({}) = 0
      BY FS_EmptySet
    <3> QED
      BY <1>2, <2>2, <3>1 DEF GateTyped
  <2>5. GateTyped'
    BY <1>1, <1>2, <2>1 DEF GateTyped
  <2> QED
    BY <1>1, <2>3, <2>4, <2>5
<1> QED
  BY <1>3, <1>4, <1>5

LEMMA NextSleeper == IInv /\ IInv' /\ SleeperIsKnown /\ [GatedNext]_gatedVars => SleeperIsKnown'
<1> SUFFICES ASSUME IInv, IInv', SleeperIsKnown, [GatedNext]_gatedVars
             PROVE  SleeperIsKnown'
  OBVIOUS
<1>1. ASSUME UNCHANGED gateVars, pc'[large] = pc[large], todo'[large] = todo[large]
      PROVE  SleeperIsKnown'
  BY <1>1, GateParts, GatePartsAfter DEF gateVars, GateTyped
<1>2. CASE Method \/ Completes
  BY <1>1, <1>2 DEF Method, Completes, Queue, Unqueue, CrashOut, QueueReply, Exit, workVars
<1>3. CASE RestartGated
  <2>1. /\ gate' = "work" /\ left' = 0 /\ mustWait' = FALSE /\ announced' = FALSE
        /\ UNCHANGED handler /\ pc'[large] = "idle"
    BY <1>3, LargeThread DEF RestartGated, Restart
  <2>2. GateTyped'
    BY <2>1, UrlsCounted, GateParts DEF GateTyped
  <2> QED
    BY <2>1, <2>2, GatePartsAfter
<1>4. ASSUME NEW w \in NormalThreads, WorkNormal(w) PROVE SleeperIsKnown'
  BY <1>1, <1>4, OthersStay, LargeThread DEF WorkNormal, Thread, IInv
<1>5. CASE UNCHANGED gatedVars
  BY <1>1, <1>5 DEF gatedVars, vars, workVars
<1> QED
  BY <1>2, <1>3, <1>4, <1>5, AtGateKeeps, SignalsKeep, LargeKeeps DEF GatedNext, WorkLarge

\* The thread of the large pool sleeps only where the next Idle signal finds
\* it, and the gate is never a url behind or ahead of the examination, for any
\* urls, threads and limit, whatever Tracker sends.
THEOREM SleeperAlwaysKnown == GatedSpec => []SleeperIsKnown
<1>1. GatedInit => SleeperIsKnown
  <2> SUFFICES ASSUME GatedInit PROVE SleeperIsKnown
    OBVIOUS
  <2>1. gate = "work" /\ left = 0 /\ mustWait = FALSE /\ announced = FALSE /\ handler = "none"
        /\ pc[large] = "idle" /\ TypeOK
    BY LargeThread, InitType DEF GatedInit, Init
  <2>2. GateTyped
    BY <2>1, UrlsCounted, LargeThread DEF GateTyped, TypeOK
  <2> QED
    BY <2>1, <2>2, GateParts
<1> QED
  BY <1>1, NextSleeper, GatedIsThumbnailer, Inductive, PTL DEF GatedSpec
=============================================================================
