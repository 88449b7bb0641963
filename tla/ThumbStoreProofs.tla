-------------------------- MODULE ThumbStoreProofs --------------------------
(***************************************************************************)
(* Proofs about ThumbStore, for any workers, files, tolerance and bounds.  *)
(* The inductive invariant follows a thumbnail on its way: a worker's time *)
(* is never later than the bytes it read (Reading), what it saves and      *)
(* renames shows those bytes (Making), a file that has its time shows      *)
(* bytes no older than that time (Kept), and so does what is reported      *)
(* (ReadyIsFresh).  The mutex (Locking) keeps the makers apart.  Recorded  *)
(* follows the row of meta.db in the same way (RowsMatchFiles).            *)
(***************************************************************************)
EXTENDS ThumbStore, TLAPS

InMutex == {"saved", "renamed", "recorded", "marked"}

\* The mutex is held by the one worker that is in do_out or put_error.
Locking == \A w \in Worker : work[w].at \in InMutex <=> lock = w

\* A time read is not later than the original's
\* present one; the bytes read are not older than the time read.
Reading ==
  /\ \A u \in Uri : orig[u] # None => orig[u] <= now
  /\ \A w \in Worker :
       /\ work[w].mtime <= now
       /\ work[w].at \in {"ask", "opened", "decode"} =>
            (orig[work[w].uri] # None =>
               work[w].mtime <= orig[work[w].uri])
       /\ work[w].at \in {"opened", "decode", "out", "saved", "renamed", "recorded"} =>
            work[w].mtime <= work[w].shows

\* What a worker has saved or renamed shows the bytes it read.
Making ==
  \A w \in Worker : LET u == work[w].uri IN
    /\ work[w].at = "saved" =>
         tmp[u] # None /\ work[w].mtime <= tmp[u].shows
    /\ work[w].at \in {"renamed", "recorded"} =>
         /\ ~work[w].disturbed => thumb[u] # None
         /\ (thumb[u] # None /\ ~thumb[u].torn) =>
              /\ work[w].mtime <= thumb[u].shows
              /\ copying # None => copying.to # u

\* A thumbnail that has its time shows bytes no older than it.
Kept ==
  \A u \in Uri : (thumb[u] # None /\ ~thumb[u].torn) =>
    /\ Settled(u) => thumb[u].mtime <= thumb[u].shows
    /\ (copying # None /\ copying.to = u) =>
         copying.mtime <= thumb[u].shows

IInv == TypeOK /\ Locking /\ Reading /\ Making /\ Kept /\ ReadyIsFresh

-----------------------------------------------------------------------------

\* Interference only sets the flag.
LEMMA DisturbAllFacts ==
  ASSUME NEW W \in [Worker -> Work], NEW S
  PROVE  /\ DisturbAll(W, S) \in [Worker -> Work]
         /\ \A x \in Worker :
              /\ DisturbAll(W, S)[x].at = W[x].at
              /\ DisturbAll(W, S)[x].uri = W[x].uri
              /\ DisturbAll(W, S)[x].mtime = W[x].mtime
              /\ DisturbAll(W, S)[x].shows = W[x].shows
              /\ W[x].disturbed => DisturbAll(W, S)[x].disturbed
              /\ W[x].uri \in S => DisturbAll(W, S)[x].disturbed
              /\ W[x].uri \notin S => DisturbAll(W, S)[x] = W[x]
BY DEF DisturbAll, Work

\* ... and only that of the other workers.
LEMMA DisturbOthersFacts ==
  ASSUME NEW W \in [Worker -> Work], NEW S, NEW w \in Worker
  PROVE  /\ DisturbOthers(w, W, S) \in [Worker -> Work]
         /\ DisturbOthers(w, W, S)[w] = W[w]
         /\ \A x \in Worker :
              /\ DisturbOthers(w, W, S)[x].at = W[x].at
              /\ DisturbOthers(w, W, S)[x].uri = W[x].uri
              /\ DisturbOthers(w, W, S)[x].mtime = W[x].mtime
              /\ DisturbOthers(w, W, S)[x].shows = W[x].shows
              /\ W[x].disturbed => DisturbOthers(w, W, S)[x].disturbed
              /\ (x # w /\ W[x].uri \in S) => DisturbOthers(w, W, S)[x].disturbed
              /\ W[x].uri \notin S => DisturbOthers(w, W, S)[x] = W[x]
BY DisturbAllFacts DEF DisturbOthers

\* Setting a file's time keeps it a thumbnail.
LEMMA SetTimeType ==
  ASSUME NEW u \in Uri, NEW t \in Time, SetTime(u, t),
         thumb \in [Uri -> Thumbnail \cup {None}]
  PROVE  thumb' \in [Uri -> Thumbnail \cup {None}]
<1>1. CASE thumb[u] = None /\ UNCHANGED thumb
  BY <1>1
<1>2. CASE thumb[u] # None /\ thumb' = [thumb EXCEPT ![u].mtime = t]
  <2>1. [thumb[u] EXCEPT !.mtime = t] \in Thumbnail
    BY <1>2 DEF Thumbnail
  <2> QED
    BY <1>2, <2>1
<1> QED
  BY <1>1, <1>2 DEF SetTime

\* A file under another name is a file.
LEMMA PlacedType ==
  ASSUME NEW t \in Thumbnail, NEW x \in BOOLEAN, NEW y \in BOOLEAN
  PROVE  /\ Placed(t, x, y) \in Thumbnail
         /\ Placed(t, x, y).mtime = t.mtime
         /\ Placed(t, x, y).shows = t.shows
         /\ Placed(t, x, y).torn = x
         /\ Placed(t, x, y).here = y
BY DEF Placed, Thumbnail

\* Init satisfies the type invariant.
LEMMA InitType == Init => TypeOK
BY StoreAssumption DEF Init, TypeOK, Time, Work, At, NoWork

\* Every step keeps the type invariant.
LEMMA NextType == TypeOK /\ [Next]_vars => TypeOK'
<1> SUFFICES ASSUME TypeOK, [Next]_vars
             PROVE  TypeOK'
  OBVIOUS
<1> USE StoreAssumption DEF TypeOK, bounds, files, main
<1> DEFINE WorkOK == /\ work' \in [Worker -> Work]
                     /\ \A x \in Worker : work'[x].at # "idle" => work'[x].uri \in Uri
<1>2. \A S : work' = DisturbAll(work, S) => WorkOK
  BY DisturbAllFacts
<1>7. \A w \in Worker, to \in At : Goto(w, to) /\ work[w].at # "idle" => WorkOK
  BY DEF Goto, Work
<1> HIDE DEF WorkOK
<1>1. ASSUME NEW w \in Worker, WorkerStep(w)
      PROVE  TypeOK'
  <2>1. ASSUME NEW u \in Uri, Take(w, u)
        PROVE  TypeOK'
    <3>1. /\ work' \in [Worker -> Work]
          /\ \A x \in Worker : work'[x].at # "idle" => work'[x].uri \in Uri
      BY <2>1 DEF Take, Work, At
    <3>2. takes' \in 0..MaxTakes
      BY <2>1 DEF Take
    <3> QED
      BY <2>1, <3>1, <3>2 DEF Take
  <2>2. CASE CheckThumb(w)
    <3>1. WorkOK
      BY <2>2, <1>7 DEF CheckThumb, Step, At
    <3> QED
      BY <2>2, <3>1 DEF CheckThumb, WorkOK
  <2>3. CASE Stat(w)
    <3>1. WorkOK
      BY <2>3, <1>7, SMTT(30) DEF Stat, StatMtime, Work, At, WorkOK
    <3> QED
      BY <2>3, <3>1 DEF Stat, WorkOK
  <2>4. CASE Ask(w)
    <3>1. WorkOK
      BY <2>4, <1>7 DEF Ask, Verdict, Work, At, WorkOK
    <3> QED
      BY <2>4, <3>1 DEF Ask, WorkOK
  <2>15. CASE Cropped(w)
    <3>1. WorkOK
      BY <2>15, <1>7 DEF Cropped, Step, At
    <3> QED
      BY <2>15, <3>1 DEF Cropped, WorkOK
  <2>5. CASE Decode(w)
    <3>1. WorkOK
      BY <2>5, <1>7 DEF Decode, Verdict, Bytes, Work, At, WorkOK
    <3> QED
      BY <2>5, <3>1 DEF Decode, WorkOK
  <2>6. CASE Save(w)
    <3>1. WorkOK
      BY <2>6, <1>7 DEF Save, Step, At
    <3> QED
      BY <2>6, <3>1 DEF Save, WorkOK, Step, Work, Thumbnail
  <2>7. CASE SaveFails(w)
    <3>1. WorkOK
      BY <2>7, <1>7 DEF SaveFails, Step, At
    <3> QED
      BY <2>7, <3>1 DEF SaveFails, WorkOK, Step, Work
  <2>8. CASE Rename(w)
    <3> DEFINE W == [work EXCEPT ![w].at = "renamed"]
    <3>1. W \in [Worker -> Work] /\ \A x \in Worker : W[x].uri \in Uri \/ W[x].at = "idle"
      BY <2>8 DEF Rename, Work, At
    <3>2. work' = DisturbOthers(w, W, {work[w].uri})
      BY <2>8 DEF Rename
    <3> HIDE DEF W
    <3>3. /\ work' \in [Worker -> Work]
          /\ \A x \in Worker : work'[x].uri = W[x].uri /\ work'[x].at = W[x].at
      BY <3>1, <3>2, DisturbAllFacts, DisturbOthersFacts
    <3>4. thumb' \in [Uri -> Thumbnail \cup {None}]
      <4> DEFINE x == copying # None /\ copying.to = work[w].uri
                 t == tmp[work[w].uri]
      <4>1. x \in BOOLEAN
        OBVIOUS
      <4>2. t # None => t \in Thumbnail
        BY <2>8 DEF Rename
      <4>3. t # None => Placed(t, x, TRUE) \in Thumbnail
        BY <4>1, <4>2, PlacedType
      <4>4. \/ thumb' = thumb
            \/ t # None /\ thumb' = [thumb EXCEPT ![work[w].uri] = Placed(t, x, TRUE)]
        BY <2>8 DEF Rename
      <4> HIDE DEF x, t
      <4> QED
        <5>1. CASE thumb' = thumb
          BY <5>1
        <5>2. CASE t # None /\ thumb' = [thumb EXCEPT ![work[w].uri] = Placed(t, x, TRUE)]
          <6>1. Placed(t, x, TRUE) \in Thumbnail \cup {None}
            BY <4>3, <5>2
          <6> HIDE DEF TypeOK
          <6>2. thumb \in [Uri -> Thumbnail \cup {None}]
            BY DEF TypeOK
          <6> QED
            BY <5>2, <6>1, <6>2
        <5> QED
          BY <4>4, <5>1, <5>2
    <3>5. tmp' \in [Uri -> Thumbnail \cup {None}]
      BY <2>8 DEF Rename
    <3> QED
      BY <2>8, <3>1, <3>3, <3>4, <3>5 DEF Rename
  <2>9. CASE Record(w)
    <3>1. WorkOK
      BY <2>9, <1>7 DEF Record, Step, At
    <3> QED
      BY <2>9, <3>1 DEF Record, WorkOK, NewRow, Step, Work
  <2>10. CASE Utime(w)
    <3> DEFINE W == [work EXCEPT ![w].at = "ready"]
    <3>1. W \in [Worker -> Work] /\ \A x \in Worker : W[x].uri \in Uri \/ W[x].at = "idle"
      BY <2>10 DEF Utime, Work, At
    <3>2. work' = DisturbOthers(w, W, {work[w].uri})
      BY <2>10 DEF Utime
    <3> HIDE DEF W
    <3>3. /\ work' \in [Worker -> Work]
          /\ \A x \in Worker : work'[x].uri = W[x].uri /\ work'[x].at = W[x].at
      BY <3>1, <3>2, DisturbAllFacts, DisturbOthersFacts
    <3>4. thumb' \in [Uri -> Thumbnail \cup {None}]
      <4>1. work[w].uri \in Uri /\ work[w].mtime \in Time
        BY <2>10 DEF Utime, Work
      <4> QED
        BY <2>10, <4>1, SetTimeType DEF Utime
    <3> QED
      BY <2>10, <3>1, <3>3, <3>4 DEF Utime
  <2>11. CASE FailStat(w)
    <3>1. WorkOK
      BY <2>11, <1>7, SMTT(30) DEF FailStat, Work, At, WorkOK
    <3> QED
      BY <2>11, <3>1 DEF FailStat, WorkOK
  <2>12. CASE Mark(w)
    <3>1. WorkOK
      BY <2>12, <1>7 DEF Mark, Step, At
    <3> QED
      BY <2>12, <3>1 DEF Mark, WorkOK, Step
  <2>13. CASE MarkTime(w)
    <3>1. WorkOK
      BY <2>13, <1>7 DEF MarkTime, Step, At
    <3> QED
      BY <2>13, <3>1 DEF MarkTime, WorkOK, Step, Work
  <2>14. CASE Report(w)
    <3>1. WorkOK
      BY <2>14, <1>7 DEF Report, NoWork, Work, Time, At, WorkOK
    <3> QED
      BY <2>14, <3>1 DEF Report, WorkOK
  <2> QED
    BY <1>1, <2>1, <2>2, <2>3, <2>4, <2>5, <2>6, <2>7, <2>8, <2>9, <2>10,
       <2>11, <2>12, <2>13, <2>14, <2>15 DEF WorkerStep
<1>6. Called => calls' \in 0..MaxCalls
  BY DEF Called
<1>3. CASE Call
  <2>1. ASSUME NEW u \in Uri, NEW v \in Uri, Move(u, v)
        PROVE  TypeOK'
    <3>1. thumb' \in [Uri -> Thumbnail \cup {None}]
      BY <2>1 DEF Move, Placed, Parted, Thumbnail
    <3>9. WorkOK /\ calls' \in 0..MaxCalls
      BY <2>1, <1>2, <1>6 DEF Move
    <3> QED
      BY <2>1, <3>1, <3>9 DEF Move, WorkOK
  <2>2. ASSUME NEW u \in Uri, NEW v \in Uri, Copy(u, v)
        PROVE  TypeOK'
    <3>1. thumb' \in [Uri -> Thumbnail \cup {None}]
      BY <2>2 DEF Copy, Placed, Parted, Thumbnail
    <3>2. copying' \in [to : Uri, mtime : Time]
      BY <2>2 DEF Copy, Thumbnail
    <3>9. WorkOK /\ calls' \in 0..MaxCalls
      BY <2>2, <1>2, <1>6 DEF Copy
    <3> QED
      BY <2>2, <3>1, <3>2, <3>9 DEF Copy, WorkOK
  <2>3. CASE CopyTime
    <3>1. thumb' \in [Uri -> Thumbnail \cup {None}]
      BY <2>3, SetTimeType DEF CopyTime
    <3>9. WorkOK
      BY <2>3, <1>2 DEF CopyTime
    <3> QED
      BY <2>3, <3>1, <3>9 DEF CopyTime, WorkOK
  <2>4. ASSUME NEW u \in Uri, Delete(u)
        PROVE  TypeOK'
    <3>9. WorkOK /\ calls' \in 0..MaxCalls
      BY <2>4, <1>2, <1>6 DEF Delete
    <3> QED
      BY <2>4, <3>9 DEF Delete, WorkOK
  <2>5. ASSUME NEW U \in SUBSET Uri, NEW since \in Time, Cleanup(U, since)
        PROVE  TypeOK'
    <3>1. rows' \in [Uri -> SUBSET Time]
      BY <2>5 DEF Cleanup, RowsKept
    <3>2. thumb' \in [Uri -> Thumbnail \cup {None}]
      BY <2>5 DEF Cleanup
    <3>9. WorkOK /\ calls' \in 0..MaxCalls
      BY <2>5, <1>2, <1>6 DEF Cleanup
    <3> QED
      BY <2>5, <3>1, <3>2, <3>9 DEF Cleanup, WorkOK
  <2>6. CASE ReloadConfig
    BY <2>6, <1>6 DEF ReloadConfig
  <2> QED
    BY <1>3, <2>1, <2>2, <2>3, <2>4, <2>5, <2>6 DEF Call
<1>4. CASE Environment
  <2>1. CASE Exit
    <3>1. thumb' \in [Uri -> Thumbnail \cup {None}]
      BY <2>1 DEF Exit, Placed, Thumbnail
    <3>2. /\ work' \in [Worker -> Work]
          /\ \A x \in Worker : work'[x].at = "idle"
      BY <2>1 DEF Exit, NoWork, Work, At, Time
    <3>3. calls' \in 0..MaxCalls
      BY <2>1, <1>6 DEF Exit
    <3> QED
      BY <2>1, <3>1, <3>2, <3>3 DEF Exit
  <2>2. ASSUME NEW u \in Original, Write(u) \/ Remove(u)
        PROVE  TypeOK'
    BY <2>2 DEF Write, Remove
  <2>3. CASE Tick
    BY <2>3 DEF Tick, Time
  <2> QED
    BY <1>4, <2>1, <2>2, <2>3 DEF Environment
<1>5. CASE UNCHANGED vars
  BY <1>5 DEF vars
<1> QED
  BY <1>1, <1>3, <1>4, <1>5 DEF Next

\* Every reachable state is well typed.
THEOREM StoreTypeCorrect == Spec => []TypeOK
BY InitType, NextType, PTL DEF Spec

-----------------------------------------------------------------------------

\* Init satisfies the invariant.
LEMMA InitIInv == Init => IInv
<1> SUFFICES ASSUME Init
             PROVE  IInv
  OBVIOUS
<1>1. \A w \in Worker : /\ work[w].at = "idle" /\ work[w].mtime = 0
                         /\ lock # w
  BY StoreAssumption DEF Init, NoWork
<1>2. Locking
  BY <1>1 DEF Locking, InMutex
<1>3. Reading
  BY <1>1, StoreAssumption DEF Init, Reading
<1>4. Making /\ ReadyIsFresh
  BY <1>1 DEF Making, ReadyIsFresh
<1>5. Kept
  BY DEF Init, Kept
<1> QED
  BY <1>2, <1>3, <1>4, <1>5, InitType DEF IInv

\* The mutex is held by at most one worker.
LEMMA NextLocking == TypeOK /\ Locking /\ [Next]_vars => Locking'
<1> SUFFICES ASSUME TypeOK, Locking, [Next]_vars
             PROVE  Locking'
  OBVIOUS
<1> USE StoreAssumption DEF Locking, InMutex
<1>1. work \in [Worker -> Work] /\ lock \in Worker \cup {None}
  BY DEF TypeOK
<1>2. ASSUME NEW w \in Worker, WorkerStep(w)
      PROVE  Locking'
  <2>1. CASE \/ \E u \in Uri : Take(w, u)
             \/ CheckThumb(w) \/ Stat(w) \/ Ask(w) \/ Cropped(w) \/ Decode(w)
             \/ SaveFails(w) \/ FailStat(w) \/ Report(w)
    <3>1. lock' = lock /\ work[w].at \notin InMutex
      BY <2>1 DEF Take, CheckThumb, Stat, Ask, Cropped, Decode, SaveFails, FailStat,
         Report, Step
    <3>2. /\ work'[w].at \notin InMutex
          /\ \A x \in Worker \ {w} : work'[x] = work[x]
      <4>2. CASE CheckThumb(w) \/ Cropped(w) \/ SaveFails(w)
        BY <4>2, <1>1 DEF CheckThumb, Cropped, SaveFails, Step, Goto, Work, At
      <4>3. CASE Stat(w) \/ FailStat(w)
        BY <4>3, <1>1 DEF Stat, FailStat, Goto, Work
      <4>4. CASE Ask(w)
        BY <4>4, <1>1 DEF Ask, Verdict, Goto, Work
      <4>5. CASE Decode(w)
        <5>1. Goto(w, "ready") \/ Goto(w, "error") \/ Goto(w, "failed") =>
                /\ work'[w].at \notin InMutex
                /\ \A x \in Worker \ {w} : work'[x] = work[x]
          BY <1>1 DEF Goto, Work
        <5>2. ASSUME NEW t, work' = [work EXCEPT ![w].at = "out", ![w].shows = t]
              PROVE  /\ work'[w].at \notin InMutex
                     /\ \A x \in Worker \ {w} : work'[x] = work[x]
          BY <5>2, <1>1 DEF Work
        <5> QED
          BY <4>5, <5>1, <5>2 DEF Decode, Verdict
      <4>6. ASSUME NEW u \in Uri, Take(w, u)
            PROVE  /\ work'[w].at \notin InMutex
                   /\ \A x \in Worker \ {w} : work'[x] = work[x]
        BY <4>6, <1>1 DEF Take, Work
      <4>7. CASE Report(w)
        BY <4>7, <1>1 DEF Report, NoWork, Work
      <4> QED
        BY <2>1, <4>2, <4>3, <4>4, <4>5, <4>6, <4>7
    <3> QED
      BY <3>1, <3>2
  <2>2. CASE Save(w) \/ Record(w) \/ Mark(w) \/ MarkTime(w)
    BY <2>2, <1>1 DEF Save, LockFree, Record, Mark, MarkTime, Step, Goto, Work
  <2>3. CASE Rename(w)
    <3> DEFINE W == [work EXCEPT ![w].at = "renamed"]
    <3>1. W \in [Worker -> Work] /\ \A x \in Worker : W[x].at \in InMutex <=> work[x].at \in InMutex
      BY <2>3, <1>1 DEF Rename, Work, At
    <3>2. work' = DisturbOthers(w, W, {work[w].uri}) /\ lock' = lock
      BY <2>3 DEF Rename
    <3> HIDE DEF W
    <3> QED
      BY <3>1, <3>2, DisturbAllFacts, DisturbOthersFacts
  <2>4. CASE Utime(w)
    <3> DEFINE W == [work EXCEPT ![w].at = "ready"]
    <3>1. /\ W \in [Worker -> Work] /\ lock = w
          /\ W[w].at \notin InMutex
          /\ \A x \in Worker \ {w} : W[x].at = work[x].at
      BY <2>4, <1>1 DEF Utime, Work, At
    <3>2. work' = DisturbOthers(w, W, {work[w].uri}) /\ lock' = None
      BY <2>4 DEF Utime
    <3> HIDE DEF W
    <3> QED
      BY <3>1, <3>2, DisturbAllFacts, DisturbOthersFacts
  <2> QED
    BY <1>2, <2>1, <2>2, <2>3, <2>4 DEF WorkerStep
<1>3. CASE Call
  <2>1. \/ lock' = lock /\ \E S : work' = DisturbAll(work, S)
        \/ UNCHANGED <<lock, work>>
    BY <1>3 DEF Call, Move, Copy, CopyTime, Delete, Cleanup, ReloadConfig
  <2> QED
    BY <1>1, <2>1, DisturbAllFacts
<1>4. CASE Environment
  <2>1. CASE Exit
    BY <2>1 DEF Exit, NoWork
  <2>2. CASE lock' = lock /\ work' = work
    BY <2>2
  <2> QED
    BY <1>4, <2>1, <2>2 DEF Environment, Write, Remove, Tick
<1>5. CASE UNCHANGED vars
  BY <1>5 DEF vars
<1> QED
  BY <1>2, <1>3, <1>4, <1>5 DEF Next

\* No worker ever read a time that is later than the bytes it then read.
LEMMA NextReading == TypeOK /\ Reading /\ [Next]_vars => Reading'
<1> SUFFICES ASSUME TypeOK, Reading, [Next]_vars
             PROVE  Reading'
  OBVIOUS
<1> USE StoreAssumption DEF Reading
<1>1. /\ work \in [Worker -> Work]
      /\ orig \in [Uri -> Time \cup {None}] /\ now \in Time
      /\ \A x \in Worker : work[x].at # "idle" => work[x].uri \in Uri
  BY DEF TypeOK
<1> DEFINE R(W) == /\ W.mtime <= now
                   /\ W.at \in {"ask", "opened", "decode"} =>
                        (orig[W.uri] # None => W.mtime <= orig[W.uri])
                   /\ W.at \in {"opened", "decode", "out", "saved", "renamed", "recorded"}
                        => W.mtime <= W.shows
<1>2. ASSUME NEW w \in Worker, WorkerStep(w)
      PROVE  Reading'
  <2>1. UNCHANGED <<now, orig>>
    BY <1>2 DEF WorkerStep, Take, CheckThumb, Stat, Ask, Cropped, Decode, Save,
       SaveFails, Rename, Record, Utime, FailStat, Mark, MarkTime, Report
  <2>2. SUFFICES \A x \in Worker : R(work'[x])
    BY <2>1, <1>1
  <2>3. ASSUME NEW u \in Uri, Take(w, u)
        PROVE  \A x \in Worker : R(work'[x])
    BY <2>3, <1>1 DEF Take, Work, Time
  <2>4. CASE \E from, to \in At : /\ Step(w, from, to)
                                  /\ to \in {"ask", "opened"} => FALSE
                                  /\ to = "decode" => from = "opened"
                                  /\ to \in {"saved", "recorded"} => from \in {"out", "renamed"}
                                  /\ to \notin {"out", "renamed"}
    BY <2>4, <1>1 DEF Step, Goto, Work, At
  <2>5. CASE Stat(w)
    BY <2>5, <1>1 DEF Stat, StatMtime, Goto, Work, Time
  <2>6. CASE Ask(w)
    BY <2>6, <1>1 DEF Ask, Verdict, Goto, Work, Time
  <2>7. CASE Decode(w)
    BY <2>7, <1>1 DEF Decode, Verdict, Bytes, Goto, Work, Time
  <2>8. CASE Rename(w)
    <3> DEFINE W == [work EXCEPT ![w].at = "renamed"]
    <3>1. W \in [Worker -> Work] /\ \A x \in Worker : R(W[x])
      BY <2>8, <1>1 DEF Rename, Work, At, Time
    <3>2. work' = DisturbOthers(w, W, {work[w].uri})
      BY <2>8 DEF Rename
    <3> HIDE DEF W
    <3> QED
      BY <3>1, <3>2, DisturbOthersFacts
  <2>9. CASE Utime(w)
    <3> DEFINE W == [work EXCEPT ![w].at = "ready"]
    <3>1. W \in [Worker -> Work] /\ \A x \in Worker : R(W[x])
      BY <2>9, <1>1 DEF Utime, Work, At, Time
    <3>2. work' = DisturbOthers(w, W, {work[w].uri})
      BY <2>9 DEF Utime
    <3> HIDE DEF W
    <3> QED
      BY <3>1, <3>2, DisturbOthersFacts
  <2>10. CASE FailStat(w)
    BY <2>10, <1>1 DEF FailStat, Goto, Work, Time
  <2>11. CASE Report(w)
    BY <2>11, <1>1 DEF Report, NoWork, Work, Time
  <2> QED
    BY <1>2, <2>3, <2>4, <2>5, <2>6, <2>7, <2>8, <2>9, <2>10, <2>11
       DEF WorkerStep, CheckThumb, Cropped, Save, SaveFails, Record, Mark, MarkTime, At, Step
<1>3. CASE Call
  <2>1. UNCHANGED <<now, orig>> /\ (work' = work \/ \E S : work' = DisturbAll(work, S))
    BY <1>3 DEF Call, Move, Copy, CopyTime, Delete, Cleanup, ReloadConfig
  <2> QED
    BY <1>1, <2>1, DisturbAllFacts
<1>4. CASE Exit
  BY <1>4, <1>1 DEF Exit, NoWork, Time
<1>5. ASSUME NEW u \in Original, Write(u) \/ Remove(u)
      PROVE  Reading'
  BY <1>5, <1>1 DEF Write, Remove, Work, Time
<1>6. CASE Tick
  BY <1>6, <1>1 DEF Tick, Work, Time
<1>7. CASE UNCHANGED vars
  BY <1>7 DEF vars
<1> QED
  BY <1>2, <1>3, <1>4, <1>5, <1>6, <1>7 DEF Next, Environment

-----------------------------------------------------------------------------

InMaking == {"saved", "renamed", "recorded"}

\* A step of w that leaves the thumbnails and the makers alone.
Quiet(w) ==
  /\ UNCHANGED <<thumb, tmp, rows, copying>>
  /\ \A x \in Worker \ {w} : work'[x] = work[x]
  /\ work[w].at \notin InMaking /\ work'[w].at \notin InMaking

\* A worker's step is quiet unless it saves, renames, records or sets a time.
LEMMA WorkerStepQuiet ==
  ASSUME TypeOK, NEW w \in Worker, WorkerStep(w)
  PROVE  Quiet(w) \/ Save(w) \/ Rename(w) \/ Record(w) \/ Utime(w)
<1> USE DEF Quiet, InMaking
<1>1. work \in [Worker -> Work]
  BY DEF TypeOK
<1>2. ASSUME NEW u \in Uri, Take(w, u)
      PROVE  Quiet(w)
  BY <1>2, <1>1 DEF Take, files, main, Work
<1>3. \A to \in At \ InMaking : Goto(w, to) =>
        /\ work'[w].at \notin InMaking
        /\ \A x \in Worker \ {w} : work'[x] = work[x]
  BY <1>1 DEF Goto, Work
<1>4. CASE CheckThumb(w)
  BY <1>4, <1>3 DEF CheckThumb, Step, files, main, At
<1>5. CASE Stat(w)
  BY <1>5, <1>1 DEF Stat, Goto, files, main, Work
<1>6. CASE Ask(w)
  BY <1>6, <1>1 DEF Ask, Verdict, Goto, files, main, Work
<1>7. CASE Decode(w)
  <2>1. ASSUME NEW t, work' = [work EXCEPT ![w].at = "out", ![w].shows = t]
        PROVE  /\ work'[w].at \notin InMaking
               /\ \A x \in Worker \ {w} : work'[x] = work[x]
    BY <2>1, <1>1 DEF Work
  <2> QED
    BY <1>7, <1>3, <2>1 DEF Decode, Verdict, files, main, At
<1>8. CASE SaveFails(w)
  BY <1>8, <1>3 DEF SaveFails, Step, main, At
<1>13. CASE Cropped(w)
  BY <1>13, <1>3 DEF Cropped, Step, files, main, At
<1>9. CASE FailStat(w)
  BY <1>9, <1>1 DEF FailStat, Goto, files, main, Work
<1>10. CASE Mark(w)
  BY <1>10, <1>3 DEF Mark, Step, main, At
<1>11. CASE MarkTime(w)
  BY <1>11, <1>3 DEF MarkTime, Step, main, At
<1>12. CASE Report(w)
  BY <1>12, <1>1 DEF Report, NoWork, files, main, Work
<1> QED
  BY <1>2, <1>4, <1>5, <1>6, <1>7, <1>8, <1>9, <1>10, <1>11, <1>12, <1>13
     DEF WorkerStep

\* What every step leaves of a worker's record, and what it takes from it:
\* a call only ever sets the flag.
Same(x) == /\ work'[x].at = work[x].at /\ work'[x].uri = work[x].uri
           /\ work'[x].mtime = work[x].mtime /\ work'[x].shows = work[x].shows
           /\ work[x].disturbed => work'[x].disturbed

LEMMA RenameWork ==
  ASSUME TypeOK, NEW w \in Worker, Rename(w)
  PROVE  /\ work'[w].at = "renamed" /\ work'[w].uri = work[w].uri
         /\ work'[w].mtime = work[w].mtime
         /\ \A x \in Worker \ {w} :
              /\ Same(x)
              /\ work[x].uri = work[w].uri => work'[x].disturbed
<1> DEFINE W == [work EXCEPT ![w].at = "renamed"]
<1>1. /\ W \in [Worker -> Work]
      /\ W[w].at = "renamed" /\ W[w].uri = work[w].uri
      /\ W[w].mtime = work[w].mtime
      /\ \A x \in Worker \ {w} : W[x] = work[x]
  BY DEF TypeOK, Work, At
<1>2. work' = DisturbOthers(w, W, {work[w].uri})
  BY DEF Rename
<1> HIDE DEF W
<1> QED
  BY <1>1, <1>2, DisturbOthersFacts DEF Same

LEMMA UtimeWork ==
  ASSUME TypeOK, NEW w \in Worker, Utime(w)
  PROVE  /\ work'[w].at = "ready" /\ work'[w].uri = work[w].uri
         /\ work'[w].mtime = work[w].mtime
         /\ work'[w].disturbed = work[w].disturbed
         /\ \A x \in Worker \ {w} :
              /\ Same(x)
              /\ work[x].uri = work[w].uri => work'[x].disturbed
<1> DEFINE W == [work EXCEPT ![w].at = "ready"]
<1>1. /\ W \in [Worker -> Work]
      /\ W[w].at = "ready" /\ W[w].uri = work[w].uri
      /\ W[w].mtime = work[w].mtime
      /\ W[w].disturbed = work[w].disturbed
      /\ \A x \in Worker \ {w} : W[x] = work[x]
  BY DEF TypeOK, Work, At
<1>2. work' = DisturbOthers(w, W, {work[w].uri})
  BY DEF Utime
<1> HIDE DEF W
<1> QED
  BY <1>1, <1>2, DisturbOthersFacts DEF Same

LEMMA CallWork ==
  ASSUME TypeOK, NEW S, work' = DisturbAll(work, S)
  PROVE  /\ \A x \in Worker : /\ Same(x)
                              /\ work[x].uri \in S => work'[x].disturbed
         /\ \A u : Window(u)' = Window(u)
<1>1. \A x \in Worker : /\ Same(x)
                        /\ work[x].uri \in S => work'[x].disturbed
  BY DisturbAllFacts DEF TypeOK, Same
<1> QED
  BY <1>1 DEF Same, Window

\* What is saved and renamed shows the bytes that were read.
LEMMA NextMaking ==
  TypeOK /\ Locking /\ Reading /\ Making /\ [Next]_vars => Making'
<1> SUFFICES ASSUME TypeOK, Locking, Reading, Making, [Next]_vars
             PROVE  Making'
  OBVIOUS
<1> DEFINE M(x) ==
      /\ work[x].at = "saved" =>
           tmp[work[x].uri] # None /\ work[x].mtime <= tmp[work[x].uri].shows
      /\ work[x].at \in {"renamed", "recorded"} =>
           LET u == work[x].uri IN
           /\ ~work[x].disturbed => thumb[u] # None
           /\ (thumb[u] # None /\ ~thumb[u].torn) =>
                /\ work[x].mtime <= thumb[u].shows
                /\ copying # None => copying.to # u
<1> SUFFICES ASSUME NEW x \in Worker
             PROVE  M(x)'
  BY DEF Making
<1>1. M(x)
  BY DEF Making
<1>2. \A w \in Worker : w # x /\ work[w].at \in InMutex =>
        work[x].at \notin InMutex
  BY DEF Locking
<1>3. ASSUME NEW w \in Worker, WorkerStep(w)
      PROVE  M(x)'
  <2>1. CASE Quiet(w)
    BY <2>1, <1>1 DEF Quiet, InMaking
  <2>2. CASE Save(w)
    <3>1. CASE x = w
      <4>1. /\ work'[w].at = "saved" /\ work'[w].uri = work[w].uri
            /\ work'[w].mtime = work[w].mtime /\ work[w].uri \in Uri
            /\ work[w].mtime <= work[w].shows
        BY <2>2 DEF Save, Step, Goto, TypeOK, Work, Reading
      <4>2. tmp'[work[w].uri] \in Thumbnail
        BY <2>2, <4>1 DEF Save, TypeOK, Work, Thumbnail
      <4>3. tmp'[work[w].uri].shows = work[w].shows
        BY <2>2, <4>1 DEF Save, TypeOK
      <4> QED
        BY <3>1, <4>1, <4>2, <4>3, NoneAssumption
    <3>2. CASE x # w
      <4>1. work'[x] = work[x] /\ work[x].at \notin InMutex
        BY <2>2, <3>2, StoreAssumption DEF Save, LockFree, Step, Goto, TypeOK, Locking
      <4> QED
        BY <4>1 DEF InMutex
    <3> QED
      BY <3>1, <3>2
  <2>3. CASE Rename(w)
    <3>1. CASE x = w
      <4> DEFINE u == work[w].uri
                 y == copying # None /\ copying.to = u
      <4>1. /\ work[w].at = "saved" /\ u \in Uri
            /\ tmp[u] # None /\ work[w].mtime <= tmp[u].shows
        BY <2>3, <3>1, <1>1 DEF Rename, TypeOK
      <4>2. tmp[u] \in Thumbnail /\ y \in BOOLEAN
        BY <4>1 DEF TypeOK
      <4>3. thumb'[u] = Placed(tmp[u], y, TRUE) /\ copying' = copying
        BY <2>3, <4>1 DEF Rename, TypeOK, main
      <4>4. /\ thumb'[u] # None /\ thumb'[u].shows = tmp[u].shows
            /\ thumb'[u].torn = y
        <5> HIDE DEF y
        <5>1. /\ Placed(tmp[u], y, TRUE) \in Thumbnail
              /\ Placed(tmp[u], y, TRUE).shows = tmp[u].shows
              /\ Placed(tmp[u], y, TRUE).torn = y
          BY <4>2, PlacedType
        <5> QED
          BY <4>3, <5>1, NoneAssumption
      <4> QED
        BY <2>3, <3>1, <4>1, <4>3, <4>4, RenameWork
    <3>2. CASE x # w
      BY <2>3, <3>2, <1>2, RenameWork DEF Rename, InMutex, Same
    <3> QED
      BY <3>1, <3>2
  <2>4. CASE Record(w)
    <3>1. /\ UNCHANGED <<thumb, tmp, copying>> /\ work[w].at = "renamed"
          /\ work' = [work EXCEPT ![w].at = "recorded"]
      BY <2>4 DEF Record, Step, Goto, main
    <3>2. CASE x # w
      <4>1. work'[x] = work[x]
        BY <3>1, <3>2 DEF TypeOK
      <4> QED
        BY <3>1, <4>1, <1>1
    <3>3. CASE x = w
      <4>1. /\ work'[w].uri = work[w].uri /\ work'[w].mtime = work[w].mtime
            /\ work'[w].disturbed = work[w].disturbed
            /\ work'[w].at = "recorded"
        BY <3>1 DEF TypeOK, Work
      <4> QED
        BY <3>1, <3>3, <4>1, <1>1
    <3> QED
      BY <3>2, <3>3
  <2>5. CASE Utime(w)
    <3>1. work[w].at \in InMutex
      BY <2>5 DEF Utime, InMutex
    <3>2. work'[x].at \notin InMaking
      BY <2>5, <3>1, <1>2, UtimeWork DEF InMaking, InMutex, Same
    <3> QED
      BY <3>2 DEF InMaking
  <2> QED
    BY <1>3, <2>1, <2>2, <2>3, <2>4, <2>5, WorkerStepQuiet
<1>4. ASSUME NEW u \in Uri, NEW v \in Uri, Move(u, v)
      PROVE  M(x)'
  <2>1. Same(x) /\ (work[x].uri \in {u, v} => work'[x].disturbed)
    BY <1>4, CallWork DEF Move
  <2>2. /\ u # v /\ copying' = None /\ tmp' = tmp /\ thumb'[u] = None
        /\ \A z \in Uri \ {u, v} : thumb'[z] = thumb[z]
        /\ thumb'[v] = Placed(thumb[u], Parted(u, v), FALSE)
    BY <1>4 DEF Move, Called, TypeOK, main
  <2>3. CASE work[x].at \in {"renamed", "recorded"} /\ work[x].uri = v
    <3>1. Parted(u, v) = TRUE
      BY <2>3 DEF Parted, Window
    <3>2. thumb'[v].torn
      BY <2>2, <3>1 DEF Placed
    <3> QED
      BY <2>1, <2>2, <2>3, <3>2 DEF Same
  <2>4. CASE ~(work[x].at \in {"renamed", "recorded"} /\ work[x].uri = v)
    <3>1. work[x].at # "idle" => work[x].uri \in Uri
      BY DEF TypeOK
    <3> QED
      BY <1>1, <2>1, <2>2, <2>4, <3>1 DEF Same
  <2> QED
    BY <2>3, <2>4
<1>5. ASSUME NEW u \in Uri, NEW v \in Uri, Copy(u, v)
      PROVE  M(x)'
  <2>1. Same(x) /\ (work[x].uri = v => work'[x].disturbed)
    BY <1>5, CallWork DEF Copy
  <2>2. /\ u # v /\ copying'.to = v /\ tmp' = tmp
        /\ \A z \in Uri \ {v} : thumb'[z] = thumb[z]
        /\ thumb'[v] = [Placed(thumb[u], Parted(u, v), FALSE) EXCEPT !.mtime = now]
    BY <1>5 DEF Copy, Called, TypeOK
  <2>3. CASE work[x].at \in {"renamed", "recorded"} /\ work[x].uri = v
    <3>1. Parted(u, v) = TRUE
      BY <2>3 DEF Parted, Window
    <3>2. thumb'[v].torn
      BY <2>2, <3>1 DEF Placed
    <3> QED
      BY <2>1, <2>2, <2>3, <3>2, <1>5, CallWork DEF Same, Copy
  <2>4. CASE ~(work[x].at \in {"renamed", "recorded"} /\ work[x].uri = v)
    <3>1. work[x].at # "idle" => work[x].uri \in Uri
      BY DEF TypeOK
    <3>2. copying = None /\ Same(x)
      BY <1>5, CallWork DEF Copy, Called
    <3> QED
      BY <1>1, <2>2, <2>4, <3>1, <3>2 DEF Same
  <2> QED
    BY <2>3, <2>4
<1>6. CASE CopyTime
  <2>1. Same(x) /\ copying' = None /\ tmp' = tmp
    BY <1>6, CallWork DEF CopyTime
  <2>2. \A z \in Uri : /\ thumb[z] # None <=> thumb'[z] # None
                       /\ thumb[z] # None => /\ thumb'[z].torn = thumb[z].torn
                                             /\ thumb'[z].shows = thumb[z].shows
    BY <1>6, NextType, NoneAssumption, SMTT(30) DEF CopyTime, SetTime, TypeOK, Thumbnail, Next, Call
  <2>3. work[x].at # "idle" => work[x].uri \in Uri
    BY DEF TypeOK
  <2> QED
    BY <1>1, <2>1, <2>2, <2>3 DEF Same
<1>7. ASSUME NEW u \in Uri, Delete(u)
      PROVE  M(x)'
  <2>1. Same(x) /\ (work[x].uri = u => work'[x].disturbed)
    BY <1>7, CallWork DEF Delete
  <2>2. Same(x) /\ tmp' = tmp /\ copying' = copying /\ thumb'[u] = None
        /\ \A z \in Uri \ {u} : thumb'[z] = thumb[z]
    BY <1>7, CallWork DEF Delete, TypeOK, main
  <2>3. work[x].at # "idle" => work[x].uri \in Uri
    BY DEF TypeOK
  <2> QED
    BY <1>1, <2>1, <2>2, <2>3 DEF Same
<1>8. ASSUME NEW U \in SUBSET Uri, NEW since \in Time, Cleanup(U, since)
      PROVE  M(x)'
  <2>1. lock = None /\ work' = DisturbAll(work, {u \in Uri : thumb'[u] # thumb[u]})
    BY <1>8 DEF Cleanup
  <2>2. Same(x) /\ work[x].at \notin InMutex
    BY <2>1, StoreAssumption, CallWork DEF Locking
  <2> QED
    BY <2>2 DEF Same, InMutex
<1>9. CASE Exit
  BY <1>9 DEF Exit, NoWork
<1>10. CASE UNCHANGED <<thumb, tmp, copying, work>>
  BY <1>10, <1>1
<1> QED
  BY <1>3, <1>4, <1>5, <1>6, <1>7, <1>8, <1>9, <1>10
     DEF Next, Environment, Call, ReloadConfig, Write, Remove, Tick, vars, files, main

\* A thumbnail that has its time shows bytes no older than it.
LEMMA NextKept ==
  TypeOK /\ Locking /\ Reading /\ Making /\ Kept /\ [Next]_vars => Kept'
<1> SUFFICES ASSUME TypeOK, Locking, Reading, Making, Kept, [Next]_vars
             PROVE  Kept'
  OBVIOUS
<1>t. TypeOK'
  BY NextType
<1> DEFINE K(u) == (thumb[u] # None /\ ~thumb[u].torn) =>
                     /\ Settled(u) => thumb[u].mtime <= thumb[u].shows
                     /\ (copying # None /\ copying.to = u) =>
                          copying.mtime <= thumb[u].shows
<1> SUFFICES ASSUME NEW y \in Uri
             PROVE  K(y)'
  BY DEF Kept
<1>1. K(y)
  BY DEF Kept
<1>2. CASE UNCHANGED <<thumb, copying>> /\ Window(y)' = Window(y)
  BY <1>1, <1>2 DEF Settled
<1>3. ASSUME NEW w \in Worker, WorkerStep(w)
      PROVE  K(y)'
  <2>1. CASE Quiet(w)
    <3>1. Window(y)' = Window(y)
      BY <2>1 DEF Quiet, Window, InMaking
    <3> QED
      BY <2>1, <3>1, <1>2 DEF Quiet
  <2>2. CASE Save(w)
    <3>1. Window(y)' = Window(y)
      BY <2>2 DEF Save, Step, Goto, TypeOK, Work, Window
    <3> QED
      BY <2>2, <3>1, <1>2 DEF Save, main
  <2>3. CASE Record(w)
    <3>1. Window(y)' = Window(y)
      BY <2>3 DEF Record, Step, Goto, TypeOK, Work, Window
    <3> QED
      BY <2>3, <3>1, <1>2 DEF Record, main
  <2>4. CASE Rename(w)
    <3>1. CASE y = work[w].uri
      <4>1. Window(y)'
        BY <2>4, <3>1, RenameWork DEF Window
      <4>2. work[w].at = "saved" /\ copying' = copying /\ tmp[y] # None
        BY <2>4, <3>1 DEF Rename, Making, main
      <4> DEFINE b == copying # None /\ copying.to = y
      <4>3. thumb'[y] = Placed(tmp[y], b, TRUE)
        BY <2>4, <3>1, <4>2 DEF Rename, TypeOK
      <4>4. thumb'[y].torn = b
        BY <4>3 DEF Placed
      <4> QED
        BY <4>1, <4>2, <4>4 DEF Settled
    <3>2. CASE y # work[w].uri
      <4>1. thumb'[y] = thumb[y] /\ copying' = copying
        BY <2>4, <3>2 DEF Rename, TypeOK, main
      <4>2. Window(y)' = Window(y)
        <5>1. \A x \in Worker : /\ work'[x].uri = work[x].uri
                                /\ x # w => work'[x].at = work[x].at
          BY <2>4, RenameWork DEF Same
        <5> QED
          BY <3>2, <5>1 DEF Window
      <4> QED
        BY <4>1, <4>2, <1>1 DEF Settled
    <3> QED
      BY <3>1, <3>2
  <2>5. CASE Utime(w)
    <3>1. CASE y = work[w].uri
      <4>1. /\ work[w].at = "recorded" /\ copying' = copying
            /\ \/ thumb[y] = None /\ thumb' = thumb
               \/ thumb[y] # None /\ thumb' = [thumb EXCEPT ![y].mtime = work[w].mtime]
        BY <2>5, <3>1 DEF Utime, SetTime, main
      <4>2. CASE thumb[y] = None
        BY <4>1, <4>2
      <4>3. CASE thumb[y] # None
        <5>1. thumb[y] \in Thumbnail
          BY <4>3 DEF TypeOK
        <5>2. /\ thumb'[y].mtime = work[w].mtime
              /\ thumb'[y].shows = thumb[y].shows
              /\ thumb'[y].torn = thumb[y].torn
          BY <4>1, <4>3, <5>1 DEF TypeOK, Thumbnail
        <5> QED
          BY <3>1, <4>1, <4>3, <5>2 DEF Making
      <4> QED
        BY <4>2, <4>3
    <3>2. CASE y # work[w].uri
      <4>1. thumb'[y] = thumb[y] /\ copying' = copying
        BY <2>5, <3>2 DEF Utime, SetTime, TypeOK, main
      <4>2. Window(y)' = Window(y)
        <5>1. \A x \in Worker : /\ work'[x].uri = work[x].uri
                                /\ x # w => work'[x].at = work[x].at
          BY <2>5, UtimeWork DEF Same
        <5> QED
          BY <3>2, <5>1 DEF Window
      <4> QED
        BY <4>1, <4>2, <1>1 DEF Settled
    <3> QED
      BY <3>1, <3>2
  <2> QED
    BY <1>3, <2>1, <2>2, <2>3, <2>4, <2>5, WorkerStepQuiet
<1>4. ASSUME NEW u \in Uri, NEW v \in Uri, Move(u, v)
      PROVE  K(y)'
  <2>1. Window(y)' = Window(y)
    BY <1>4, CallWork DEF Move
  <2>2. /\ u # v /\ copying = None /\ copying' = None /\ thumb'[u] = None
        /\ \A z \in Uri \ {u, v} : thumb'[z] = thumb[z]
        /\ thumb'[v] = Placed(thumb[u], Parted(u, v), FALSE)
    BY <1>4 DEF Move, Called, TypeOK, main
  <2>3. CASE y = v
    <3>1. ~thumb'[v].torn => ~Parted(u, v)
      BY <2>2 DEF Placed
    <3>2. ~thumb'[v].torn => thumb[u].mtime <= thumb[u].shows
      BY <2>2, <3>1, <1>4 DEF Parted, Kept, Settled, Move
    <3> QED
      BY <2>2, <2>3, <3>2 DEF Placed
  <2> QED
    BY <2>1, <2>2, <2>3, <1>1 DEF Settled
<1>5. ASSUME NEW u \in Uri, NEW v \in Uri, Copy(u, v)
      PROVE  K(y)'
  <2>1. Window(y)' = Window(y)
    BY <1>5, CallWork DEF Copy
  <2>2. /\ u # v /\ copying = None /\ thumb[u] # None
        /\ copying' = [to |-> v, mtime |-> thumb[u].mtime]
        /\ \A z \in Uri \ {v} : thumb'[z] = thumb[z]
        /\ thumb'[v] = [Placed(thumb[u], Parted(u, v), FALSE) EXCEPT !.mtime = now]
    BY <1>5 DEF Copy, Called, TypeOK
  <2>3. copying' # None
    BY <2>2, NoneAssumption DEF TypeOK, Thumbnail
  <2>4. CASE y = v
    <3>1. /\ thumb'[v].torn = Parted(u, v)
          /\ thumb'[v].shows = thumb[u].shows
      BY <2>2 DEF Placed
    <3>2. ~thumb'[v].torn => thumb[u].mtime <= thumb[u].shows
      BY <2>2, <3>1 DEF Parted, Kept, Settled
    <3> QED
      BY <2>2, <2>3, <2>4, <3>1, <3>2 DEF Settled
  <2>5. CASE y # v
    BY <2>1, <2>2, <2>5, <1>1 DEF Settled
  <2> QED
    BY <2>4, <2>5
<1>6. CASE CopyTime
  <2>1. Window(y)' = Window(y)
    BY <1>6, CallWork DEF CopyTime
  <2>2. /\ copying' = None /\ copying # None
        /\ \/ thumb[copying.to] = None /\ thumb' = thumb
           \/ /\ thumb[copying.to] # None
              /\ thumb' = [thumb EXCEPT ![copying.to].mtime = copying.mtime]
    BY <1>6 DEF CopyTime, SetTime
  <2>3. CASE y = copying.to
    <3>1. CASE thumb[y] = None
      BY <2>2, <2>3, <3>1
    <3>2. CASE thumb[y] # None
      <4>1. thumb[y] \in Thumbnail
        BY <3>2 DEF TypeOK
      <4>2. /\ thumb'[y].mtime = copying.mtime
            /\ thumb'[y].shows = thumb[y].shows
            /\ thumb'[y].torn = thumb[y].torn
        BY <2>2, <2>3, <3>2, <4>1 DEF TypeOK, Thumbnail
      <4> QED
        BY <2>2, <2>3, <3>2, <4>2, <1>1
    <3> QED
      BY <3>1, <3>2
  <2>4. CASE y # copying.to
    <3>1. thumb'[y] = thumb[y]
      BY <2>2, <2>4 DEF TypeOK
    <3> QED
      BY <2>1, <2>2, <2>4, <3>1, <1>1 DEF Settled
  <2> QED
    BY <2>3, <2>4
<1>7. ASSUME NEW u \in Uri, Delete(u)
      PROVE  K(y)'
  <2>1. Window(y)' = Window(y)
    BY <1>7, CallWork DEF Delete
  <2>2. /\ copying' = copying
        /\ thumb'[y] = thumb[y] \/ thumb'[y] = None
    BY <1>7 DEF Delete, TypeOK, main
  <2> QED
    BY <2>1, <2>2, <1>1 DEF Settled
<1>8. ASSUME NEW U \in SUBSET Uri, NEW since \in Time, Cleanup(U, since)
      PROVE  K(y)'
  <2>1. Window(y)' = Window(y)
    BY <1>8, CallWork DEF Cleanup
  <2>2. /\ copying' = copying
        /\ thumb'[y] = thumb[y] \/ thumb'[y] = None
    BY <1>8 DEF Cleanup, main
  <2> QED
    BY <2>1, <2>2, <1>1 DEF Settled
<1>9. CASE Exit
  <2>1. copying = None /\ copying' = None
    BY <1>9 DEF Exit, Called
  <2>2. \/ thumb'[y] = thumb[y] /\ (thumb[y] # None => ~Window(y))
        \/ thumb'[y] = Placed(thumb[y], TRUE, thumb[y].here)
    BY <1>9 DEF Exit
  <2> QED
    BY <2>1, <2>2, <1>1 DEF Settled, Placed
<1>10. CASE UNCHANGED <<thumb, copying, work>>
  BY <1>10, <1>2 DEF Window
<1> QED
  BY <1>3, <1>4, <1>5, <1>6, <1>7, <1>8, <1>9, <1>10
     DEF Next, Environment, Call, ReloadConfig, Write, Remove, Tick, vars, files, main

\* A thumbnail that passes a test of times and has its own shows what it says.
LEMMA NearIsFresh ==
  ASSUME TypeOK, Kept, NEW u \in Uri, NEW m \in Time,
         thumb[u] # None, Near(thumb[u].mtime, m), Settled(u), ~thumb[u].torn
  PROVE  thumb[u].shows > m - Tolerance
<1>1. thumb[u] \in Thumbnail
  BY DEF TypeOK
<1>2. thumb[u].mtime <= thumb[u].shows
  BY DEF Kept
<1> QED
  BY <1>1, <1>2, StoreAssumption DEF Near, Thumbnail, Time

\* What is reported ready is there and shows what the original was.
LEMMA NextReady == IInv /\ [Next]_vars => ReadyIsFresh'
<1> SUFFICES ASSUME TypeOK, Locking, Reading, Making, Kept, ReadyIsFresh,
                    [Next]_vars
             PROVE  ReadyIsFresh'
  BY DEF IInv
<1> DEFINE F(x) ==
      (work[x].at = "ready" /\ ~work[x].disturbed) =>
        LET u == work[x].uri IN
        /\ thumb[u] # None
        /\ Settled(u) /\ ~thumb[u].torn =>
             thumb[u].shows > work[x].mtime - Tolerance
<1> SUFFICES ASSUME NEW x \in Worker
             PROVE  F(x)'
  BY DEF ReadyIsFresh
<1>1. F(x)
  BY DEF ReadyIsFresh
<1>u. work[x].at # "idle" => work[x].uri \in Uri
  BY DEF TypeOK
<1>2. ASSUME /\ UNCHANGED <<thumb, copying>> /\ work'[x] = work[x]
             /\ \A u \in Uri : Window(u)' = Window(u)
      PROVE  F(x)'
  BY <1>1, <1>2, <1>u DEF Settled
<1>3. ASSUME NEW w \in Worker, WorkerStep(w)
      PROVE  F(x)'
  <2>1. CASE Quiet(w)
    <3>1. \A u \in Uri : Window(u)' = Window(u)
      BY <2>1 DEF Quiet, Window, InMaking
    <3>2. CASE x # w
      BY <2>1, <3>1, <3>2, <1>2 DEF Quiet
    <3>3. CASE x = w
      <4>1. work'[w].at = "ready" =>
              /\ work'[w].uri = work[w].uri /\ work'[w].mtime = work[w].mtime
              /\ work[w].uri \in Uri /\ work[w].mtime \in Time
              /\ thumb[work[w].uri] # None
              /\ Near(thumb[work[w].uri].mtime, work[w].mtime)
        <5>1. ASSUME Goto(w, "ready"), work[w].at # "idle"
              PROVE  /\ work'[w].uri = work[w].uri /\ work'[w].mtime = work[w].mtime
                     /\ work[w].uri \in Uri /\ work[w].mtime \in Time
          BY <5>1 DEF Goto, TypeOK, Work
        <5>2. ASSUME NEW to, Goto(w, to), work'[w].at = "ready"
              PROVE  to = "ready"
          BY <5>2 DEF Goto, TypeOK, Work
        <5>3. CASE CheckThumb(w)
          BY <5>1, <5>2, <5>3 DEF CheckThumb, Step, Valid
        <5>4. \A u : Verdict(u) = "ready" => mark[u] = None
          BY DEF Verdict
        <5>5. CASE Ask(w)
          <6>1. work'[w].at = "ready" => /\ ~NeedsOut(work[w].uri, work[w].mtime)
                                         /\ Goto(w, Verdict(work[w].uri))
            BY <5>5, <5>2 DEF Ask, TypeOK, Work
          <6> QED
            BY <6>1, <5>1, <5>2, <5>4, <5>5 DEF Ask, NeedsOut, Believed
        <5>6. CASE Decode(w)
          <6>1. work'[w].at = "ready" => /\ ~NeedsOut(work[w].uri, work[w].mtime)
                                         /\ Goto(w, Verdict(work[w].uri))
            BY <5>6, <5>2 DEF Decode, TypeOK, Work
          <6> QED
            BY <6>1, <5>1, <5>2, <5>4, <5>6 DEF Decode, NeedsOut, Believed
        <5>7. CASE Cropped(w) \/ SaveFails(w) \/ Mark(w) \/ MarkTime(w)
          BY <5>2, <5>7 DEF Cropped, SaveFails, Mark, MarkTime, Step
        <5>8. CASE Stat(w) \/ FailStat(w)
          BY <5>8 DEF Stat, FailStat, Goto, TypeOK, Work
        <5>9. CASE Report(w)
          BY <5>9 DEF Report, NoWork, TypeOK
        <5>10. ASSUME NEW u \in Uri, Take(w, u)
               PROVE  work'[w].at # "ready"
          BY <5>10 DEF Take, TypeOK, Work
        <5>11. ~Save(w) /\ ~Record(w) /\ ~Rename(w) /\ ~Utime(w)
          <6>1. ~Record(w) /\ ~Rename(w) /\ ~Utime(w)
            BY <2>1 DEF Quiet, InMaking, Record, Rename, Utime, Step
          <6>2. ~Save(w)
            BY <2>1 DEF Quiet, InMaking, Save, Step, Goto, TypeOK, Work
          <6> QED
            BY <6>1, <6>2
        <5> QED
          BY <1>3, <5>3, <5>5, <5>6, <5>7, <5>8, <5>9, <5>10, <5>11 DEF WorkerStep
      <4> QED
        BY <2>1, <3>1, <3>3, <4>1, NearIsFresh DEF Quiet, Settled
    <3> QED
      BY <3>2, <3>3
  <2>2. CASE Save(w)
    <3>1. \A u \in Uri : Window(u)' = Window(u)
      BY <2>2 DEF Save, Step, Goto, TypeOK, Work, Window
    <3>2. x = w => work'[x].at # "ready"
      BY <2>2 DEF Save, Step, Goto, TypeOK, Work
    <3>3. x # w => work'[x] = work[x]
      BY <2>2 DEF Save, Step, Goto, TypeOK
    <3> QED
      BY <2>2, <3>1, <3>2, <3>3, <1>2 DEF Save, main
  <2>3. CASE Record(w)
    <3>1. \A u \in Uri : Window(u)' = Window(u)
      BY <2>3 DEF Record, Step, Goto, TypeOK, Work, Window
    <3>2. x = w => work'[x].at # "ready"
      BY <2>3 DEF Record, Step, Goto, TypeOK, Work
    <3>3. x # w => work'[x] = work[x]
      BY <2>3 DEF Record, Step, Goto, TypeOK
    <3> QED
      BY <2>3, <3>1, <3>2, <3>3, <1>2 DEF Record, main
  <2>4. CASE Rename(w)
    <3>1. x = w => work'[x].at # "ready"
      BY <2>4, RenameWork
    <3>2. x # w => Same(x) /\ (work[x].uri = work[w].uri => work'[x].disturbed)
      BY <2>4, RenameWork
    <3>3. ASSUME x # w, work[x].at = "ready", work[x].uri # work[w].uri
          PROVE  Settled(work[x].uri)' = Settled(work[x].uri)
      <4>1. \A z \in Worker : /\ work'[z].uri = work[z].uri
                              /\ z # w => work'[z].at = work[z].at
        BY <2>4, RenameWork DEF Same
      <4>2. Window(work[x].uri)' = Window(work[x].uri)
        BY <3>3, <4>1 DEF Window
      <4> QED
        BY <2>4, <3>2, <3>3, <4>2 DEF Settled, Same, Rename, main
    <3>4. \A u \in Uri : u # work[w].uri => thumb'[u] = thumb[u]
      BY <2>4 DEF Rename, TypeOK
    <3> QED
      BY <1>1, <1>u, <3>1, <3>2, <3>3, <3>4 DEF Same
  <2>5. CASE Utime(w)
    <3>1. CASE x = w
      <4> DEFINE u == work[w].uri
      <4>1. /\ work[w].at = "recorded" /\ copying' = copying /\ u \in Uri
            /\ SetTime(u, work[w].mtime)
        BY <2>5 DEF Utime, TypeOK, main
      <4>2. /\ work'[w].uri = u /\ work'[w].mtime = work[w].mtime
            /\ work'[w].disturbed = work[w].disturbed
        BY <2>5, UtimeWork
      <4>3. CASE work[w].disturbed
        BY <3>1, <4>2, <4>3
      <4>4. CASE ~work[w].disturbed
        <5>1. thumb[u] # None
          BY <4>1, <4>4 DEF Making
        <5>2. thumb[u] \in Thumbnail /\ work[w].mtime \in Time
          BY <5>1, <4>1 DEF TypeOK, Work
        <5>3. /\ thumb'[u] \in Thumbnail /\ thumb'[u].shows = thumb[u].shows
              /\ thumb'[u].torn = thumb[u].torn
          BY <4>1, <5>1, <5>2 DEF SetTime, TypeOK, Thumbnail
        <5>4. ~thumb[u].torn => work[w].mtime - Tolerance < thumb[u].shows
          BY <4>1, <5>1, <5>2, StoreAssumption DEF Making, Thumbnail, Time
        <5> QED
          BY <3>1, <4>2, <5>2, <5>3, <5>4, NoneAssumption, StoreAssumption
             DEF Thumbnail, Time
      <4> QED
        BY <4>3, <4>4
    <3>2. CASE x # w
      <4>1. Same(x) /\ (work[x].uri = work[w].uri => work'[x].disturbed)
        BY <2>5, <3>2, UtimeWork
      <4>2. ASSUME work[x].at = "ready", work[x].uri # work[w].uri
            PROVE  Settled(work[x].uri)' = Settled(work[x].uri)
        <5>1. \A z \in Worker : /\ work'[z].uri = work[z].uri
                                /\ z # w => work'[z].at = work[z].at
          BY <2>5, UtimeWork DEF Same
        <5>2. Window(work[x].uri)' = Window(work[x].uri)
          BY <4>2, <5>1 DEF Window
        <5> QED
          BY <2>5, <4>1, <4>2, <5>2 DEF Settled, Same, Utime, main
      <4>3. \A u \in Uri : u # work[w].uri => thumb'[u] = thumb[u]
        BY <2>5 DEF Utime, SetTime, TypeOK
      <4> QED
        BY <1>1, <1>u, <4>1, <4>2, <4>3 DEF Same
    <3> QED
      BY <3>1, <3>2
  <2> QED
    BY <1>3, <2>1, <2>2, <2>3, <2>4, <2>5, WorkerStepQuiet
<1>4. ASSUME NEW S, work' = DisturbAll(work, S),
             \A u \in Uri \ S : thumb'[u] = thumb[u] /\ Settled(u)' = Settled(u)
      PROVE  F(x)'
  <2>1. Same(x) /\ (work[x].uri \in S => work'[x].disturbed)
    BY <1>4, CallWork
  <2> QED
    BY <1>1, <1>u, <1>4, <2>1 DEF Same
<1>5. CASE Call
  <2>1. ASSUME NEW u \in Uri, NEW v \in Uri, Move(u, v)
        PROVE  F(x)'
    <3>1. \A z \in Uri \ {u, v} : thumb'[z] = thumb[z] /\ Settled(z)' = Settled(z)
      BY <2>1, CallWork DEF Move, Settled, TypeOK, main
    <3> QED
      BY <2>1, <3>1, <1>4 DEF Move
  <2>2. ASSUME NEW u \in Uri, NEW v \in Uri, Copy(u, v)
        PROVE  F(x)'
    <3>1. \A z \in Uri \ {v} : thumb'[z] = thumb[z] /\ Settled(z)' = Settled(z)
      BY <2>2, CallWork DEF Copy, Called, Settled, TypeOK
    <3> QED
      BY <2>2, <3>1, <1>4 DEF Copy
  <2>3. CASE CopyTime
    <3>1. \A z \in Uri \ {copying.to} : thumb'[z] = thumb[z] /\ Settled(z)' = Settled(z)
      BY <2>3, CallWork DEF CopyTime, SetTime, Settled, TypeOK
    <3> QED
      BY <2>3, <3>1, <1>4 DEF CopyTime
  <2>4. ASSUME NEW u \in Uri, Delete(u)
        PROVE  F(x)'
    <3>1. \A z \in Uri \ {u} : thumb'[z] = thumb[z] /\ Settled(z)' = Settled(z)
      BY <2>4, CallWork DEF Delete, Settled, TypeOK, main
    <3> QED
      BY <2>4, <3>1, <1>4 DEF Delete
  <2>5. ASSUME NEW U \in SUBSET Uri, NEW since \in Time, Cleanup(U, since)
        PROVE  F(x)'
    <3> DEFINE S == {u \in Uri : thumb'[u] # thumb[u]}
    <3>1. work' = DisturbAll(work, S) /\ copying' = copying
      BY <2>5 DEF Cleanup, main
    <3>2. \A z \in Uri : Settled(z)' = Settled(z)
      BY <3>1, CallWork DEF Settled
    <3> QED
      BY <3>1, <3>2, <1>4
  <2>6. CASE ReloadConfig
    BY <2>6, <1>2 DEF ReloadConfig, files, Window
  <2> QED
    BY <1>5, <2>1, <2>2, <2>3, <2>4, <2>5, <2>6 DEF Call
<1>6. CASE Exit
  BY <1>6 DEF Exit, NoWork
<1>7. CASE UNCHANGED <<thumb, copying, work>>
  BY <1>7, <1>2 DEF Window
<1> QED
  BY <1>3, <1>5, <1>6, <1>7
     DEF Next, Environment, Write, Remove, Tick, vars, files, main

\* The invariant is inductive.
LEMMA StoreInductive == IInv /\ [Next]_vars => IInv'
BY NextType, NextLocking, NextReading, NextMaking, NextKept, NextReady DEF IInv

LEMMA StoreInvariant == Spec => []IInv
BY InitIInv, StoreInductive, PTL DEF Spec

\* A thumbnail that passes the test of times is not older than the original
\* less the tolerance, whatever threads, files, calls and exits there are.
THEOREM StoreValidIsFresh == Spec => []ValidIsFresh
<1>1. IInv => ValidIsFresh
  <2> SUFFICES ASSUME IInv, NEW u \in Uri, orig[u] # None, Valid(u, orig[u]),
                      Settled(u), ~thumb[u].torn
               PROVE  thumb[u].shows > orig[u] - Tolerance
    BY DEF ValidIsFresh
  <2>1. orig[u] \in Time
    BY DEF IInv, TypeOK
  <2> QED
    BY <2>1, NearIsFresh DEF IInv, Valid
<1> QED
  BY <1>1, StoreInvariant, PTL

\* What is reported ready, and was left alone, is there and is not older than
\* the original was when its time was last read.
THEOREM StoreReadyIsFresh == Spec => []ReadyIsFresh
<1>1. IInv => ReadyIsFresh
  BY DEF IInv
<1> QED
  BY <1>1, StoreInvariant, PTL

-----------------------------------------------------------------------------
(* The rows of meta.db.                                                      *)

\* A worker sets the time it has just recorded, and a Copy never sets the time
\* of a file that was made for its path.
Recorded ==
  /\ \A w \in Worker : work[w].at = "recorded" => rows[work[w].uri] = {work[w].mtime}
  /\ (copying # None /\ thumb[copying.to] # None) =>
       thumb[copying.to].torn \/ ~thumb[copying.to].here

LEMMA OneMaker ==
  ASSUME Locking, NEW w \in Worker, work[w].at \in InMutex
  PROVE  /\ lock = w
         /\ \A x \in Worker \ {w} : work[x].at \notin InMutex
         /\ \A u : Window(u) => work[w].uri = u
BY StoreAssumption DEF Locking, InMutex, Window

LEMMA NextRecorded == TypeOK /\ Locking /\ Recorded /\ [Next]_vars => Recorded'
<1> SUFFICES ASSUME TypeOK, Locking, Recorded, [Next]_vars
             PROVE  Recorded'
  OBVIOUS
<1> DEFINE R(x) == work[x].at = "recorded" => rows[work[x].uri] = {work[x].mtime}
           C == (copying # None /\ thumb[copying.to] # None) =>
                  thumb[copying.to].torn \/ ~thumb[copying.to].here
<1>0. (\A x \in Worker : R(x)) /\ C
  BY DEF Recorded
<1> SUFFICES (\A x \in Worker : R(x)') /\ C'
  BY DEF Recorded
<1>k. copying # None => copying.to \in Uri /\ copying.mtime \in Time
  BY DEF TypeOK
<1>r. \A x \in Worker : work[x].at = "recorded" => work[x].uri \in Uri
  BY DEF TypeOK
<1>1. ASSUME NEW w \in Worker, WorkerStep(w)
      PROVE  (\A x \in Worker : R(x)') /\ C'
  <2>1. CASE Quiet(w)
    BY <2>1, <1>0 DEF Quiet, InMaking
  <2>2. CASE Save(w)
    <3>1. UNCHANGED <<rows, thumb, copying>> /\ work' = [work EXCEPT ![w].at = "saved"]
      BY <2>2 DEF Save, Step, Goto, main
    <3> QED
      BY <3>1, <1>0 DEF TypeOK, Work
  <2>3. CASE Record(w)
    <3>1. /\ UNCHANGED <<thumb, copying>> /\ work[w].at = "renamed"
          /\ work' = [work EXCEPT ![w].at = "recorded"]
          /\ rows' = [rows EXCEPT ![work[w].uri] = {work[w].mtime}]
      BY <2>3 DEF Record, Step, Goto, NewRow, main
    <3>2. \A x \in Worker \ {w} : work'[x] = work[x] /\ work[x].at # "recorded"
      BY <3>1, OneMaker DEF InMutex, TypeOK
    <3>3. work'[w].uri = work[w].uri /\ work'[w].mtime = work[w].mtime /\ work[w].uri \in Uri
      BY <3>1 DEF TypeOK, Work
    <3>4. rows'[work[w].uri] = {work[w].mtime}
      BY <3>1, <3>3 DEF TypeOK
    <3> QED
      BY <3>1, <3>2, <3>3, <3>4, <1>0
  <2>4. CASE Rename(w)
    <3>1. work[w].at = "saved" /\ UNCHANGED <<rows, copying>> /\ work[w].uri \in Uri
      BY <2>4 DEF Rename, TypeOK, main
    <3>2. \A x \in Worker : work'[x].at # "recorded"
      BY <2>4, <3>1, RenameWork, OneMaker DEF Same, InMutex
    <3>3. C'
      <4> DEFINE u == work[w].uri
      <4>1. CASE tmp[u] # None /\ thumb' = [thumb EXCEPT ![u] =
                     Placed(tmp[u], copying # None /\ copying.to = u, TRUE)]
        <5>1. \A z \in Uri \ {u} : thumb'[z] = thumb[z]
          BY <4>1 DEF TypeOK
        <5>2. thumb'[u].torn = (copying # None /\ copying.to = u)
          BY <3>1, <4>1 DEF TypeOK, Placed
        <5> QED
          BY <3>1, <5>1, <5>2, <1>0, <1>k
      <4> QED
        BY <2>4, <4>1, <3>1, <1>0 DEF Rename
    <3> QED
      BY <3>2, <3>3
  <2>5. CASE Utime(w)
    <3>1. work[w].at = "recorded" /\ UNCHANGED <<rows, copying>> /\ SetTime(work[w].uri, work[w].mtime)
      BY <2>5 DEF Utime, main
    <3>2. \A x \in Worker : work'[x].at # "recorded"
      BY <2>5, <3>1, UtimeWork, OneMaker DEF Same, InMutex
    <3>3. C'
      <4>1. \A z \in Uri : thumb[z] # None => thumb'[z].torn = thumb[z].torn /\ thumb'[z].here = thumb[z].here
        BY <3>1 DEF SetTime, TypeOK, Thumbnail
      <4>2. \A z \in Uri : thumb[z] = None => thumb'[z] = None
        BY <3>1 DEF SetTime, TypeOK
      <4> QED
        BY <3>1, <4>1, <4>2, <1>0, <1>k
    <3> QED
      BY <3>2, <3>3
  <2> QED
    BY <1>1, <2>1, <2>2, <2>3, <2>4, <2>5, WorkerStepQuiet
<1>2. ASSUME NEW u \in Uri, NEW v \in Uri, Move(u, v) \/ Copy(u, v)
      PROVE  (\A x \in Worker : R(x)') /\ C'
  <2>1. \A x \in Worker : R(x)'
    <3>1. rows' = rows /\ \E S : work' = DisturbAll(work, S)
      BY <1>2 DEF Move, Copy
    <3> QED
      BY <3>1, <1>0, CallWork DEF Same
  <2>2. CASE Move(u, v)
    BY <2>1, <2>2 DEF Move, Called, main
  <2>3. CASE Copy(u, v)
    <3>1. copying'.to = v
      BY <2>3 DEF Copy
    <3>2. thumb'[v].here = FALSE
      BY <2>3 DEF Copy, Placed, TypeOK
    <3> QED
      BY <2>1, <3>1, <3>2
  <2> QED
    BY <1>2, <2>2, <2>3
<1>3. CASE CopyTime
  <2>1. rows' = rows /\ copying' = None /\ work' = DisturbAll(work, {copying.to})
    BY <1>3 DEF CopyTime
  <2> QED
    BY <2>1, <1>0, CallWork DEF Same
<1>4. ASSUME NEW u \in Uri, Delete(u)
      PROVE  (\A x \in Worker : R(x)') /\ C'
  <2>1. rows' = rows /\ work' = DisturbAll(work, {u}) /\ copying = None /\ copying' = None
    BY <1>4 DEF Delete, Called, main
  <2> QED
    BY <2>1, <1>0, CallWork DEF Same
<1>5. ASSUME NEW U \in SUBSET Uri, NEW since \in Time, Cleanup(U, since)
      PROVE  (\A x \in Worker : R(x)') /\ C'
  <2>1. lock = None /\ copying = None /\ copying' = None
    BY <1>5 DEF Cleanup, Called, main
  <2>2. \A x \in Worker : work[x].at # "recorded"
    BY <2>1, StoreAssumption DEF Locking, InMutex
  <2>3. \E S : work' = DisturbAll(work, S)
    BY <1>5 DEF Cleanup
  <2> QED
    BY <2>1, <2>2, <2>3, CallWork DEF Same
<1>6. CASE Exit
  BY <1>6 DEF Exit, Called, NoWork
<1>7. CASE UNCHANGED <<thumb, copying, work, rows>>
  BY <1>7, <1>0
<1> QED
  BY <1>1, <1>2, <1>3, <1>4, <1>5, <1>6, <1>7
     DEF Next, Environment, Call, ReloadConfig, Write, Remove, Tick, vars, files, main

LEMMA NextRowsMatch == TypeOK /\ Locking /\ Recorded /\ RowsMatchFiles /\ [Next]_vars => RowsMatchFiles'
<1> SUFFICES ASSUME TypeOK, Locking, Recorded, RowsMatchFiles, [Next]_vars
             PROVE  RowsMatchFiles'
  OBVIOUS
<1> DEFINE M(u) == (thumb[u] # None /\ thumb[u].here /\ ~thumb[u].torn /\ Settled(u)) =>
                      rows[u] = {thumb[u].mtime}
<1> SUFFICES ASSUME NEW y \in Uri
             PROVE  M(y)'
  BY DEF RowsMatchFiles
<1>0. M(y)
  BY DEF RowsMatchFiles
<1>a. ASSUME thumb'[y] = thumb[y], rows'[y] = rows[y], Window(y)' = Window(y), UNCHANGED copying
      PROVE  M(y)'
  BY <1>0, <1>a DEF Settled
<1>1. ASSUME NEW w \in Worker, WorkerStep(w)
      PROVE  M(y)'
  <2>1. CASE Quiet(w)
    <3>1. Window(y)' = Window(y)
      BY <2>1 DEF Quiet, Window, InMaking
    <3> QED
      BY <2>1, <3>1, <1>a DEF Quiet
  <2>2. CASE Save(w)
    <3>1. Window(y)' = Window(y)
      BY <2>2 DEF Save, Step, Goto, TypeOK, Work, Window
    <3> QED
      BY <2>2, <3>1, <1>a DEF Save, main
  <2>3. CASE Record(w)
    <3>1. Window(y)' = Window(y)
      BY <2>3 DEF Record, Step, Goto, TypeOK, Work, Window
    <3>2. CASE y = work[w].uri
      <4>1. Window(y)
        BY <2>3, <3>2 DEF Record, Step, Window
      <4> QED
        BY <3>1, <4>1 DEF Settled
    <3>3. CASE y # work[w].uri
      <4>1. rows'[y] = rows[y]
        BY <2>3, <3>3 DEF Record, TypeOK
      <4> QED
        BY <2>3, <3>1, <4>1, <1>a DEF Record, main
    <3> QED
      BY <3>2, <3>3
  <2>4. CASE Rename(w)
    <3>1. \A x \in Worker : /\ work'[x].uri = work[x].uri
                            /\ x # w => work'[x].at = work[x].at
      BY <2>4, RenameWork DEF Same
    <3>2. CASE y = work[w].uri
      BY <2>4, <3>2, RenameWork DEF Window, Settled
    <3>3. CASE y # work[w].uri
      <4>1. Window(y)' = Window(y)
        BY <3>1, <3>3 DEF Window
      <4>2. thumb'[y] = thumb[y] /\ rows' = rows /\ copying' = copying
        BY <2>4, <3>3 DEF Rename, TypeOK, main
      <4> QED
        BY <4>1, <4>2, <1>a
    <3> QED
      BY <3>2, <3>3
  <2>5. CASE Utime(w)
    <3>1. \A x \in Worker : /\ work'[x].uri = work[x].uri
                            /\ x # w => work'[x].at = work[x].at
      BY <2>5, UtimeWork DEF Same
    <3>2. /\ work[w].at = "recorded" /\ UNCHANGED <<rows, copying>>
          /\ SetTime(work[w].uri, work[w].mtime)
      BY <2>5 DEF Utime, main
    <3>3. CASE y = work[w].uri
      <4>1. rows'[y] = {work[w].mtime}
        BY <3>2, <3>3 DEF Recorded
      <4>2. thumb'[y] # None => thumb'[y].mtime = work[w].mtime
        BY <3>2, <3>3 DEF SetTime, TypeOK, Thumbnail
      <4> QED
        BY <4>1, <4>2
    <3>4. CASE y # work[w].uri
      <4>1. Window(y)' = Window(y)
        BY <3>1, <3>4 DEF Window
      <4>2. thumb'[y] = thumb[y]
        BY <3>2, <3>4 DEF SetTime, TypeOK
      <4> QED
        BY <3>2, <4>1, <4>2, <1>a
    <3> QED
      BY <3>3, <3>4
  <2> QED
    BY <1>1, <2>1, <2>2, <2>3, <2>4, <2>5, WorkerStepQuiet
<1>2. ASSUME NEW u \in Uri, NEW v \in Uri, Move(u, v)
      PROVE  M(y)'
  <2>1. Window(y)' = Window(y)
    BY <1>2, CallWork DEF Move
  <2>2. /\ thumb'[u] = None /\ thumb'[v].here = FALSE /\ UNCHANGED <<rows, copying>>
        /\ \A z \in Uri \ {u, v} : thumb'[z] = thumb[z]
    BY <1>2 DEF Move, TypeOK, Placed, main
  <2> QED
    BY <2>1, <2>2, <1>a
<1>3. ASSUME NEW u \in Uri, NEW v \in Uri, Copy(u, v)
      PROVE  M(y)'
  <2>1. Window(y)' = Window(y)
    BY <1>3, CallWork DEF Copy
  <2>2. /\ thumb'[v].here = FALSE /\ UNCHANGED rows /\ copying = None /\ copying'.to = v
        /\ \A z \in Uri \ {v} : thumb'[z] = thumb[z]
    BY <1>3 DEF Copy, Called, TypeOK, Placed
  <2> QED
    BY <2>1, <2>2, <1>0 DEF Settled
<1>4. CASE CopyTime
  <2>1. Window(y)' = Window(y)
    BY <1>4, CallWork DEF CopyTime
  <2>2. /\ copying # None /\ copying' = None /\ SetTime(copying.to, copying.mtime) /\ UNCHANGED rows
        /\ copying.to \in Uri
    BY <1>4 DEF CopyTime, TypeOK
  <2>3. CASE y = copying.to
    <3>1. thumb'[y] # None => thumb[y] # None /\ thumb'[y].torn = thumb[y].torn /\ thumb'[y].here = thumb[y].here
      BY <2>2, <2>3 DEF SetTime, TypeOK, Thumbnail
    <3> QED
      BY <2>2, <2>3, <3>1 DEF Recorded
  <2>4. CASE y # copying.to
    <3>1. thumb'[y] = thumb[y]
      BY <2>2, <2>4 DEF SetTime, TypeOK
    <3> QED
      BY <2>1, <2>2, <2>4, <3>1, <1>0 DEF Settled
  <2> QED
    BY <2>3, <2>4
<1>5. ASSUME NEW u \in Uri, Delete(u)
      PROVE  M(y)'
  <2>1. Window(y)' = Window(y)
    BY <1>5, CallWork DEF Delete
  <2>2. UNCHANGED <<rows, copying>> /\ (thumb'[y] = thumb[y] \/ thumb'[y] = None)
    BY <1>5 DEF Delete, TypeOK, main
  <2> QED
    BY <2>1, <2>2, <1>a
<1>6. ASSUME NEW U \in SUBSET Uri, NEW since \in Time, Cleanup(U, since)
      PROVE  M(y)'
  <2>1. Window(y)' = Window(y)
    BY <1>6, CallWork DEF Cleanup
  <2>2. UNCHANGED copying /\ (thumb'[y] = None \/ (thumb'[y] = thumb[y] /\ rows'[y] = rows[y]))
    BY <1>6 DEF Cleanup, main
  <2> QED
    BY <2>1, <2>2, <1>a
<1>7. CASE Exit
  <2>1. copying = None /\ copying' = None /\ UNCHANGED rows
    BY <1>7 DEF Exit, Called
  <2>2. \/ thumb'[y] = thumb[y] /\ (thumb[y] # None => ~Window(y))
        \/ thumb'[y].torn
    BY <1>7 DEF Exit, Placed
  <2> QED
    BY <2>1, <2>2, <1>0 DEF Settled
<1>8. CASE UNCHANGED <<thumb, copying, work, rows>>
  BY <1>8, <1>a DEF Window
<1> QED
  BY <1>1, <1>2, <1>3, <1>4, <1>5, <1>6, <1>7, <1>8
     DEF Next, Environment, Call, ReloadConfig, Write, Remove, Tick, vars, files, main

\* Cleanup can find what the workers made: whatever was moved, copied, deleted
\* or interrupted meanwhile, a thumbnail made for its path has exactly one row,
\* with the time the file has.
THEOREM StoreRowsMatch == Spec => []RowsMatchFiles
<1>1. Init => Recorded /\ RowsMatchFiles
  BY DEF Init, Recorded, RowsMatchFiles, NoWork
<1>2. IInv => TypeOK /\ Locking
  BY DEF IInv
<1> QED
  BY <1>1, <1>2, StoreInvariant, NextRecorded, NextRowsMatch, PTL DEF Spec
=============================================================================
