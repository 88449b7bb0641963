-------------------------- MODULE PoolThreadProofs --------------------------
(***************************************************************************)
(* Proofs about a pool thread with one url: it has a specialized           *)
(* thumbnailer make the thumbnail (SpecializedCall), for any threads, uris *)
(* and calls, or a plugin, which asks the output plugins of two formats    *)
(* (Formats), for any times, tolerances, requests, changes of the          *)
(* configuration and cleanings.                                            *)
(*                                                                         *)
(* ReadyIsBacked is not inductive.  Between a signal and the result there  *)
(* are three places where the answer is kept: the callback that is about   *)
(* to lock the record, had_callback, and what the thread read of it.       *)
(* AnswersBacked says of each that it is backed.                           *)
(*                                                                         *)
(* Nor is ReadyMeansMade.  It needs what the loops over the output plugins *)
(* have established of those they have passed (Working), and, since all of *)
(* it is told by the times of files, that a file's time is no later than   *)
(* what it shows (Truthful).  ShownIsFresh needs the same of the request,  *)
(* from the moment it is answered or found in the cache until the          *)
(* application looks (Answers).                                            *)
(***************************************************************************)
EXTENDS SpecializedCall, Formats, FiniteSetTheorems, TLAPS

-----------------------------------------------------------------------------
(* The call of a specialized thumbnailer.                                    *)

\* A signal named the uri of the call, or the call is one that was straddled.
Backed(c) == readySaid[c] \/ err[c] \/ straddled[c]

\* The callback that runs is on a thread's record, of the current call unless
\* that was begun under it.
CallbackRuns ==
  /\ main.at # "idle" => bus # <<>>
  /\ main.at \in {"callback", "locking"} =>
       /\ main.on \in Caller
       /\ main.call # calls[main.on] => straddled[main.on]

AnswersBacked ==
  /\ main.at = "locking" => Backed(main.on)
  /\ \A c \in Caller : had[c] => Backed(c)
  /\ \A c \in Caller : pc[c] = "judging" /\ saw[c] => Backed(c)

CallIInv == CallTypeOK /\ NoMissedAnswer /\ CallbackRuns /\ AnswersBacked /\ ReadyIsBacked

LEMMA SignalsTyped ==
  ASSUME NEW s \in Seq(Signal)
  PROVE  /\ \A kind \in {"ready", "error"}, u \in Uri :
              Append(s, [kind |-> kind, uri |-> u]) \in Seq(Signal)
         /\ \A x \in Signal : Append(s, x) # <<>>
         /\ s # <<>> => /\ Head(s).kind \in {"ready", "error"}
                        /\ Tail(s) \in Seq(Signal)
<1>1. \A kind \in {"ready", "error"}, u \in Uri : [kind |-> kind, uri |-> u] \in Signal
  BY DEF Signal
<1>2. \A x \in Signal : Append(s, x) \in Seq(Signal) /\ Append(s, x) # <<>>
  <2>1. \A x \in Signal : Append(s, x) \in Seq(Signal) /\ Len(Append(s, x)) = Len(s) + 1
    OBVIOUS
  <2>2. Len(s) \in Nat
    OBVIOUS
  <2> QED
    BY <2>1, <2>2
<1>3. s # <<>> => Head(s) \in Signal /\ Tail(s) \in Seq(Signal)
  OBVIOUS
<1>4. \A x \in Signal : x.kind \in {"ready", "error"}
  BY DEF Signal
<1> QED
  BY <1>1, <1>2, <1>3, <1>4

\* A step of a thread that touches neither its record nor the main loop, but for
\* what the thread read and concluded.
LEMMA ThreadSteps ==
  ASSUME CallIInv, NEW c \in Caller, InCall(c)
  PROVE  CallIInv'
<1> USE DEF CallIInv, CallTypeOK, InCall
<1>1. UNCHANGED <<calls, uri, had, err, bus, main, readySaid, straddled>>
  BY DEF Create, Check, WakeAlone, ReadHadCallback, ReadError, Disconnect, frame
<1>2. /\ pc' \in [Caller -> {"idle", "connected", "called", "waiting", "woken",
                             "judging", "disconnecting"}]
      /\ \A d \in Caller \ {c} : pc'[d] = pc[d]
  BY DEF Create, Check, WakeAlone, ReadHadCallback, ReadError, Disconnect, Goto
<1>3. /\ saw' \in [Caller -> BOOLEAN]
      /\ \A d \in Caller \ {c} : saw'[d] = saw[d]
  BY DEF Create, Check, WakeAlone, ReadHadCallback, ReadError, Disconnect
<1>4. /\ result' \in [Caller -> {"none", "ready", "error"}]
      /\ \A d \in Caller \ {c} : result'[d] = result[d]
  BY DEF Create, Check, WakeAlone, ReadHadCallback, ReadError, Disconnect
<1>5. asked' \in [Uri -> Nat]
  <2>1. CASE Create(c)
    <3>1. asked' = [asked EXCEPT ![uri[c]] = @ + 1] /\ asked \in [Uri -> Nat]
      BY <2>1 DEF Create
    <3>2. \A u \in Uri : asked'[u] \in Nat
      BY <3>1
    <3> QED
      BY <3>1, <3>2
  <2>2. CASE ~Create(c)
    BY <2>2 DEF Check, WakeAlone, ReadHadCallback, ReadError, Disconnect
  <2> QED
    BY <2>1, <2>2
<1>6. CallTypeOK'
  BY <1>1, <1>2, <1>3, <1>4, <1>5
<1>7. pc'[c] = "waiting" => ~had[c]
  BY DEF Create, Check, Sleeps, WakeAlone, ReadHadCallback, ReadError, Disconnect, Goto
<1>8. NoMissedAnswer'
  BY <1>1, <1>2, <1>7 DEF NoMissedAnswer
<1>9. CallbackRuns'
  BY <1>1 DEF CallbackRuns
<1>10. pc'[c] = "judging" /\ saw'[c] => had[c]
  BY DEF Create, Check, WakeAlone, ReadHadCallback, ReadError, Disconnect, Goto
<1>11. AnswersBacked'
  BY <1>1, <1>2, <1>3, <1>10 DEF AnswersBacked, Backed
<1>12. result'[c] = "ready" => readySaid[c] \/ straddled[c]
  <2>1. CASE ReadError(c)
    BY <2>1 DEF ReadError, Goto, AnswersBacked, Backed
  <2>2. CASE ~ReadError(c)
    BY <2>2 DEF Create, Check, WakeAlone, ReadHadCallback, Disconnect, ReadyIsBacked
  <2> QED
    BY <2>1, <2>2
<1>13. ReadyIsBacked'
  BY <1>1, <1>4, <1>12 DEF ReadyIsBacked
<1> QED
  BY <1>6, <1>8, <1>9, <1>11, <1>13

\* A call begins: its record is new, unless a callback is still running on the
\* one that was at its place.
LEMMA ConnectStep ==
  ASSUME CallIInv, NEW c \in Caller, NEW u \in Uri, Connect(c, u)
  PROVE  CallIInv'
<1> USE DEF CallIInv, CallTypeOK
<1>1. /\ pc' \in [Caller -> {"idle", "connected", "called", "waiting", "woken",
                             "judging", "disconnecting"}]
      /\ pc'[c] = "connected" /\ \A d \in Caller \ {c} : pc'[d] = pc[d]
  BY DEF Connect, Goto
<1>2. /\ calls' \in [Caller -> Nat] /\ calls'[c] <= MaxCalls[c]
      /\ \A d \in Caller \ {c} : calls'[d] = calls[d]
  <2>1. /\ calls[c] \in Nat /\ MaxCalls[c] \in Nat /\ calls[c] < MaxCalls[c]
        /\ calls' = [calls EXCEPT ![c] = @ + 1]
    BY CallsAssumption DEF Connect
  <2> QED
    BY <2>1
<1>3. /\ had' \in [Caller -> BOOLEAN] /\ ~had'[c] /\ \A d \in Caller \ {c} : had'[d] = had[d]
      /\ err' \in [Caller -> BOOLEAN] /\ \A d \in Caller \ {c} : err'[d] = err[d]
      /\ readySaid' \in [Caller -> BOOLEAN]
      /\ \A d \in Caller \ {c} : readySaid'[d] = readySaid[d]
  BY DEF Connect
<1>4. /\ result' \in [Caller -> {"none", "ready", "error"}] /\ result'[c] = "none"
      /\ \A d \in Caller \ {c} : result'[d] = result[d]
  BY DEF Connect
<1>5. /\ straddled' \in [Caller -> BOOLEAN]
      /\ straddled'[c] = (main.at \in {"callback", "locking"} /\ main.on = c)
      /\ \A d \in Caller \ {c} : straddled'[d] = straddled[d]
  BY DEF Connect
<1>6. uri' \in [Caller -> Uri \cup {Nothing}] /\ UNCHANGED <<saw, asked, bus, main>>
  BY DEF Connect
<1>7. CallTypeOK'
  BY <1>1, <1>2, <1>3, <1>4, <1>5, <1>6
<1>8. NoMissedAnswer'
  BY <1>1, <1>3 DEF NoMissedAnswer
<1>9. CallbackRuns'
  BY <1>2, <1>5, <1>6 DEF CallbackRuns
<1>10. main.at = "locking" => Backed(main.on)'
  BY <1>3, <1>5, <1>6 DEF AnswersBacked, Backed, CallbackRuns
<1>11. AnswersBacked'
  BY <1>1, <1>3, <1>5, <1>6, <1>10 DEF AnswersBacked, Backed
<1>12. ReadyIsBacked'
  BY <1>3, <1>4, <1>5 DEF ReadyIsBacked
<1> QED
  BY <1>7, <1>8, <1>9, <1>11, <1>12

\* The main loop's steps change no thread's place but to wake it.
LEMMA MainLoopSteps ==
  ASSUME CallIInv, MainLoop
  PROVE  CallIInv'
<1> USE DEF CallIInv, CallTypeOK
<1>1. CASE Dispatch
  <2>1. /\ bus # <<>> /\ main'.at = "emit"
        /\ main' \in [at : {"idle", "emit", "callback", "locking"}, callees : SUBSET Caller,
                      on : Caller \cup {Nothing}, call : Nat]
        /\ UNCHANGED <<pc, calls, uri, had, err, saw, result, asked, bus, readySaid, straddled>>
    BY <1>1 DEF Dispatch, NotRunning, frame
  <2> QED
    BY <2>1 DEF NoMissedAnswer, CallbackRuns, AnswersBacked, Backed, ReadyIsBacked
<1>2. ASSUME NEW c \in Caller, Enter(c) PROVE CallIInv'
  <2>1. /\ main.at = "emit"
        /\ \/ main'.at = "emit"
           \/ main'.at = "callback" /\ main'.on = c /\ main'.call = calls[c]
        /\ main' \in [at : {"idle", "emit", "callback", "locking"}, callees : SUBSET Caller,
                      on : Caller \cup {Nothing}, call : Nat]
        /\ UNCHANGED <<pc, calls, uri, had, err, saw, result, asked, bus, readySaid, straddled>>
    BY <1>2 DEF Enter, frame
  <2> QED
    BY <2>1 DEF NoMissedAnswer, CallbackRuns, AnswersBacked, Backed, ReadyIsBacked
<1>3. CASE Match
  <2> DEFINE c == main.on
             matches == uri[c] = Head(bus).uri
  <2>1. c \in Caller /\ bus # <<>> /\ main.at = "callback"
    BY <1>3 DEF Match, CallbackRuns
  <2>2. Head(bus).kind \in {"ready", "error"}
    BY <2>1, SignalsTyped
  <2>3. /\ main' = [main EXCEPT !.at = IF matches THEN "locking" ELSE "emit"]
        /\ err' = [err EXCEPT ![c] = IF matches THEN Head(bus).kind = "error" ELSE @]
        /\ readySaid' = [readySaid EXCEPT ![c] = @ \/ (matches /\ Head(bus).kind = "ready")]
        /\ UNCHANGED <<pc, calls, uri, had, saw, result, asked, bus, straddled>>
    BY <1>3 DEF Match, frame
  <2>4. /\ main' \in [at : {"idle", "emit", "callback", "locking"}, callees : SUBSET Caller,
                      on : Caller \cup {Nothing}, call : Nat]
        /\ main'.on = c /\ main'.call = main.call
        /\ main'.at = "locking" <=> matches
        /\ main'.at \in {"locking", "emit"}
    BY <2>3
  <2>5. /\ err' \in [Caller -> BOOLEAN] /\ readySaid' \in [Caller -> BOOLEAN]
        /\ \A d \in Caller \ {c} : err'[d] = err[d] /\ readySaid'[d] = readySaid[d]
    BY <2>1, <2>3
  <2>6. readySaid[c] => readySaid'[c]
    BY <2>1, <2>3
  <2>7. matches => readySaid'[c] \/ err'[c]
    BY <2>1, <2>2, <2>3
  <2>8. ~matches => err'[c] = err[c]
    BY <2>1, <2>3
  <2>9. \A d \in Caller : Backed(d) => readySaid'[d] \/ err'[d] \/ straddled[d]
    BY <2>5, <2>6, <2>7, <2>8 DEF Backed
  <2>10. CallTypeOK'
    BY <2>3, <2>4, <2>5
  <2>11. NoMissedAnswer' /\ CallbackRuns'
    BY <2>1, <2>3, <2>4 DEF NoMissedAnswer, CallbackRuns
  <2>12. AnswersBacked'
    BY <2>3, <2>4, <2>7, <2>9 DEF AnswersBacked, Backed
  <2>13. ReadyIsBacked'
    BY <2>1, <2>3, <2>5, <2>6 DEF ReadyIsBacked
  <2> QED
    BY <2>10, <2>11, <2>12, <2>13
<1>4. CASE Complete
  <2> DEFINE c == main.on
  <2>1. c \in Caller /\ main.at = "locking" /\ Backed(c)
    BY <1>4 DEF Complete, CallbackRuns, AnswersBacked
  <2>2. /\ main' \in [at : {"idle", "emit", "callback", "locking"}, callees : SUBSET Caller,
                      on : Caller \cup {Nothing}, call : Nat]
        /\ main'.at = "emit"
    BY <1>4 DEF Complete
  <2>3. UNCHANGED <<calls, uri, err, saw, result, asked, bus, readySaid, straddled>>
    BY <1>4 DEF Complete, frame
  <2>4. \/ /\ had' = [had EXCEPT ![c] = TRUE]
           /\ pc' = [pc EXCEPT ![c] = IF @ = "waiting" THEN "woken" ELSE @]
        \/ UNCHANGED <<had, pc>>
    BY <1>4 DEF Complete
  <2>5. /\ had' \in [Caller -> BOOLEAN]
        /\ \A d \in Caller \ {c} : had'[d] = had[d]
    BY <2>4
  <2>6. /\ pc' \in [Caller -> {"idle", "connected", "called", "waiting", "woken",
                               "judging", "disconnecting"}]
        /\ \A d \in Caller : pc'[d] = pc[d] \/ (pc[d] = "waiting" /\ pc'[d] = "woken")
        /\ \A d \in Caller \ {c} : pc'[d] = pc[d]
    <3>1. CASE pc' = pc
      BY <3>1
    <3>2. CASE pc' = [pc EXCEPT ![c] = IF @ = "waiting" THEN "woken" ELSE @]
      <4>1. pc'[c] = pc[c] \/ (pc[c] = "waiting" /\ pc'[c] = "woken")
        BY <2>1, <3>2
      <4> QED
        BY <2>1, <3>2, <4>1
    <3> QED
      BY <2>4, <3>1, <3>2
  <2>7. pc'[c] = "waiting" => had'[c] = had[c]
    BY <2>1, <2>4
  <2>8. CallTypeOK'
    BY <2>2, <2>3, <2>5, <2>6
  <2>9. NoMissedAnswer'
    BY <2>5, <2>6, <2>7 DEF NoMissedAnswer
  <2>10. CallbackRuns'
    BY <2>1, <2>2, <2>3 DEF CallbackRuns
  <2>11. AnswersBacked'
    BY <2>1, <2>2, <2>3, <2>5, <2>6 DEF AnswersBacked, Backed
  <2>12. ReadyIsBacked'
    BY <2>3 DEF ReadyIsBacked
  <2> QED
    BY <2>8, <2>9, <2>10, <2>11, <2>12
<1>5. CASE Dispatched
  <2>1. /\ main.at = "emit" /\ main' = NotRunning
        /\ UNCHANGED <<pc, calls, uri, had, err, saw, result, asked, readySaid, straddled>>
    BY <1>5 DEF Dispatched, frame
  <2>2. bus' \in Seq(Signal)
    BY <1>5, <2>1, SignalsTyped DEF Dispatched, CallbackRuns
  <2>3. main'.at = "idle"
        /\ main' \in [at : {"idle", "emit", "callback", "locking"}, callees : SUBSET Caller,
                      on : Caller \cup {Nothing}, call : Nat]
    BY <2>1 DEF NotRunning
  <2>4. CallTypeOK'
    BY <2>1, <2>2, <2>3
  <2>5. NoMissedAnswer' /\ ReadyIsBacked'
    BY <2>1 DEF NoMissedAnswer, ReadyIsBacked
  <2>6. CallbackRuns' /\ AnswersBacked'
    BY <2>1, <2>3 DEF CallbackRuns, AnswersBacked, Backed
  <2> QED
    BY <2>4, <2>5, <2>6
<1> QED
  BY <1>1, <1>2, <1>3, <1>4, <1>5 DEF MainLoop

LEMMA AnswerStep ==
  ASSUME CallIInv, NEW kind \in {"ready", "error"}, NEW u \in Uri, Answer(kind, u)
  PROVE  CallIInv'
<1> USE DEF CallIInv, CallTypeOK
<1>1. UNCHANGED <<pc, calls, uri, had, err, saw, result, main, readySaid, straddled>>
  BY DEF Answer, frame
<1>2. asked' \in [Uri -> Nat]
  <2>1. asked[u] \in Nat /\ asked[u] > 0 /\ asked' = [asked EXCEPT ![u] = @ - 1]
    BY DEF Answer
  <2> QED
    BY <2>1
<1>3. bus' \in Seq(Signal) /\ bus' # <<>>
  <2>1. [kind |-> kind, uri |-> u] \in Signal
    BY DEF Signal
  <2> QED
    BY <2>1, SignalsTyped DEF Answer
<1> QED
  BY <1>1, <1>2, <1>3 DEF NoMissedAnswer, CallbackRuns, AnswersBacked, Backed, ReadyIsBacked

LEMMA InitCallIInv == CallInit => CallIInv
<1> SUFFICES ASSUME CallInit PROVE CallIInv
  OBVIOUS
<1>1. bus \in Seq(Signal)
  <2>1. bus = <<>>
    BY DEF CallInit
  <2> QED
    BY <2>1
<1>2. CallTypeOK
  <2>1. /\ \A c \in Caller : calls[c] <= MaxCalls[c]
        /\ calls \in [Caller -> Nat]
    BY CallsAssumption DEF CallInit
  <2>2. main \in [at : {"idle", "emit", "callback", "locking"}, callees : SUBSET Caller,
                  on : Caller \cup {Nothing}, call : Nat]
    BY DEF CallInit, NotRunning
  <2> QED
    BY <1>1, <2>1, <2>2 DEF CallInit, CallTypeOK
<1>3. NoMissedAnswer /\ CallbackRuns /\ AnswersBacked /\ ReadyIsBacked
  BY DEF CallInit, NotRunning, NoMissedAnswer, CallbackRuns, AnswersBacked, ReadyIsBacked
<1> QED
  BY <1>2, <1>3 DEF CallIInv

LEMMA NextCallIInv == CallIInv /\ [CallNext]_callVars => CallIInv'
<1> SUFFICES ASSUME CallIInv, [CallNext]_callVars PROVE CallIInv'
  OBVIOUS
<1>1. CASE UNCHANGED callVars
  BY <1>1 DEF callVars, CallIInv, CallTypeOK, NoMissedAnswer, CallbackRuns, AnswersBacked,
              Backed, ReadyIsBacked
<1> QED
  BY <1>1, ThreadSteps, ConnectStep, MainLoopSteps, AnswerStep DEF CallNext

\* The record, the signals and the main loop's walk keep their types.
THEOREM CallTypeCorrect == CallSpec => []CallTypeOK
<1>1. CallIInv => CallTypeOK
  BY DEF CallIInv
<1> QED
  BY <1>1, InitCallIInv, NextCallIInv, PTL DEF CallSpec

\* had_callback is tested and set under the mutex of the wait: no thread of
\* do_the_work sleeps on an answer that specialized_ready or specialized_error
\* has recorded.
THEOREM NeverMissed == CallSpec => []NoMissedAnswer
<1>1. CallIInv => NoMissedAnswer
  BY DEF CallIInv
<1> QED
  BY <1>1, InitCallIInv, NextCallIInv, PTL DEF CallSpec

\* A url is reported Ready by do_the_work only if a Ready for it came while it was
\* being waited for, but for a call that began under an older callback.
THEOREM ReadyBacked == CallSpec => []ReadyIsBacked
<1>1. CallIInv => ReadyIsBacked
  BY DEF CallIInv
<1> QED
  BY <1>1, InitCallIInv, NextCallIInv, PTL DEF CallSpec

-----------------------------------------------------------------------------
(* A thumbnail in two formats.                                               *)

\* There is a file, and its time agrees with t.
Made(f, t) == thumb[f] # None /\ Near(thumb[f].mtime, t)

\* A file shows bytes no older than its time.
Truthful == \A f \in Format : thumb[f] # None => thumb[f].mtime <= thumb[f].shows

\* A plugin that was passed needs nothing, or wrote its file, or an error is known.
Passed(known) ==
  \A i \in 1..2 :
    i < work.pos /\ plugs[i] \in active /\ ~known => Made(plugs[i], work.mtime)

Working ==
  /\ IF work.at = "idle" THEN work = NoWork ELSE client.at = "asked"
  /\ work.at = "stat" => work.pos = 1 /\ ~work.need /\ ~work.nerror
  /\ work.at \in {"ask", "again"} =>
       /\ client.since <= work.mtime /\ work.mtime <= orig
       /\ ~work.nerror
       /\ client.stable /\ ~work.need => Passed(work.errFile)
  /\ work.at = "out" =>
       /\ client.since <= work.mtime
       /\ work.shows # None /\ work.mtime <= work.shows
       /\ client.stable => Passed(work.nerror)

Answers ==
  /\ client.at # "idle" => client.since <= orig
  /\ client.at \in {"idle", "cached", "asked"} => client.answer = "none"
  /\ client.at = "cached" /\ client.stable =>
       /\ thumb[client.path] # None
       /\ thumb[client.path].mtime = client.since
  /\ client.at = "answered" /\ client.answer # "error" /\ client.stable =>
       /\ client.since <= client.mtime /\ client.by # "nobody"
       /\ client.by = "gate" => Made("jpeg", client.mtime)
       /\ client.by = "plugin" => \A f \in active : Made(f, client.mtime)

FilesIInv == TypeOK /\ Truthful /\ Working /\ Answers /\ ShownIsFresh

-----------------------------------------------------------------------------
(* Lemmas.                                                                   *)

LEMMA Bounds ==
  /\ MaxTime \in Nat /\ Tolerance \in Nat /\ Tolerance > 0 /\ FailAge \in Nat
  /\ MaxAsks \in Nat /\ MaxTurns \in Nat /\ None \notin Nat
  /\ Time \subseteq Nat /\ 0 \in Time
<1>1. /\ MaxTime \in Nat /\ Tolerance \in Nat \ {0} /\ FailAge \in Nat
      /\ MaxAsks \in Nat /\ MaxTurns \in Nat /\ None \notin Nat
  BY FormatsAssumption, Zenon
<1>2. Time \subseteq Nat /\ 0 \in Time
  BY <1>1 DEF Time
<1> QED
  BY <1>1, <1>2

LEMMA ListTyped ==
  ASSUME TypeOK
  PROVE  /\ Len(plugs) = 2 /\ plugs[1] \in Format /\ plugs[2] \in Format
         /\ \A f \in Format : f = plugs[1] \/ f = plugs[2]
<1>1. plugs \in [1..2 -> Format] /\ IsInjective(plugs)
  BY DEF TypeOK
<1>2. plugs = [i \in 1..2 |-> plugs[i]]
  BY <1>1
<1>3. Len(plugs) = 2
  <2>1. Len([i \in 1..2 |-> plugs[i]]) = 2
    OBVIOUS
  <2> QED
    BY <1>2, <2>1
<1>4. plugs[1] \in Format /\ plugs[2] \in Format /\ plugs[1] # plugs[2]
  BY <1>1 DEF IsInjective
<1> QED
  BY <1>3, <1>4 DEF Format

\* What the types say of the times.
LEMMA Times ==
  ASSUME TypeOK
  PROVE  /\ now \in Nat /\ orig \in Nat /\ orig <= now /\ orig \in Time
         /\ work.at \in At /\ work.pos \in 1..3 /\ work.mtime \in Nat /\ work.mtime \in Time
         /\ work.shows # None => work.shows \in Nat /\ work.shows \in Time
         /\ work.need \in BOOLEAN /\ work.errFile \in BOOLEAN /\ work.nerror \in BOOLEAN
         /\ client.since \in Nat /\ client.mtime \in Nat
         /\ client.kind \in {"load", "request"} /\ client.path \in Format
         /\ \A f \in Format : thumb[f] # None =>
              /\ thumb[f] \in File
              /\ thumb[f].mtime \in Nat /\ thumb[f].shows \in Nat
         /\ \A f \in Format : mark[f] # None => mark[f] \in Nat
<1>1. now \in Nat /\ orig \in Nat /\ orig <= now /\ orig \in Time
  BY Bounds DEF TypeOK, Time
<1>2. /\ work.at \in At /\ work.pos \in 1..3 /\ work.mtime \in Nat /\ work.mtime \in Time
      /\ work.shows # None => work.shows \in Nat /\ work.shows \in Time
      /\ work.need \in BOOLEAN /\ work.errFile \in BOOLEAN /\ work.nerror \in BOOLEAN
  BY Bounds DEF TypeOK, Work
<1>3. /\ client.since \in Nat /\ client.mtime \in Nat
      /\ client.kind \in {"load", "request"} /\ client.path \in Format
  BY Bounds DEF TypeOK, Client
<1>4. \A f \in Format : thumb[f] # None =>
        thumb[f] \in File /\ thumb[f].mtime \in Nat /\ thumb[f].shows \in Nat
  BY Bounds DEF TypeOK, File
<1>5. \A f \in Format : mark[f] # None => mark[f] \in Nat
  BY Bounds DEF TypeOK
<1> QED
  BY <1>1, <1>2, <1>3, <1>4, <1>5

LEMMA TheOther == Other("png") = "jpeg" /\ Other("jpeg") = "png"
BY DEF Other, Format

\* A file made near t, or stamped with t, shows the original of s or later.
LEMMA MadeIsFresh ==
  ASSUME TypeOK, Truthful, NEW f \in Format, NEW t \in Nat, NEW s \in Nat, s <= t,
         Made(f, t) \/ (thumb[f] # None /\ thumb[f].mtime = t)
  PROVE  Fresh(thumb[f], s)
<1>1. thumb[f] # None /\ thumb[f].mtime \in Nat /\ thumb[f].shows \in Nat
  BY Times DEF Made
<1>2. thumb[f].mtime <= thumb[f].shows
  BY <1>1 DEF Truthful
<1>3. t - thumb[f].mtime < Tolerance
  BY <1>1, Bounds DEF Made, Near
<1>4. thumb[f].shows > s - Tolerance
  BY <1>1, <1>2, <1>3, Bounds
<1> QED
  BY <1>1, <1>4 DEF Fresh

\* What holds of the files and of the request is left alone by a step that leaves
\* them alone.
LEMMA FilesStay ==
  ASSUME FilesIInv, UNCHANGED <<thumb, active, client>>, orig' \in Nat, orig <= orig'
  PROVE  Truthful' /\ Answers' /\ ShownIsFresh'
<1>1. Truthful'
  BY DEF FilesIInv, Truthful
<1>2. Answers'
  <2>1. client.since <= orig => client.since <= orig'
    BY Times DEF FilesIInv
  <2> QED
    BY <2>1 DEF FilesIInv, Answers, Made, Near
<1>3. ShownIsFresh'
  BY DEF FilesIInv, ShownIsFresh, Fresh
<1> QED
  BY <1>1, <1>2, <1>3

LEMMA InitFilesIInv == Init => FilesIInv
<1> SUFFICES ASSUME Init PROVE FilesIInv
  OBVIOUS
<1>1. plugs \in [1..2 -> Format] /\ IsInjective(plugs)
  <2>1. Cardinality(Format) = 2
    <3>1. IsFiniteSet({"png"}) /\ Cardinality({"png"}) = 1
      BY FS_Singleton
    <3>2. Cardinality({"png"} \cup {"jpeg"}) = Cardinality({"png"}) + 1
      BY <3>1, FS_AddElement
    <3>3. Format = {"png"} \cup {"jpeg"}
      BY DEF Format
    <3> QED
      BY <3>1, <3>2, <3>3
  <2> QED
    BY <2>1 DEF Init, SetToSeqs, IsInjective
<1>2. work \in Work /\ client \in Client
  BY Bounds DEF Init, NoWork, Work, At, NoRequest, Client, Format
<1>3. now \in Time /\ orig \in 0..now /\ asks \in 0..MaxAsks /\ turns \in 0..MaxTurns
  BY Bounds DEF Init
<1>4. TypeOK
  BY <1>1, <1>2, <1>3 DEF Init, TypeOK
<1>5. Truthful /\ Working /\ Answers /\ ShownIsFresh
  BY DEF Init, Truthful, Working, Answers, ShownIsFresh, NoWork, NoRequest
<1> QED
  BY <1>4, <1>5 DEF FilesIInv

-----------------------------------------------------------------------------
(* The steps of the thread.                                                  *)

\* A step that only moves the thread.
LEMMA WorkKeeps ==
  ASSUME FilesIInv, work' \in Work, Working', UNCHANGED <<world, files, client, asks>>
  PROVE  FilesIInv'
<1>1. UNCHANGED <<thumb, active, client>> /\ orig' = orig
  BY DEF world, clock, files
<1>2. orig' \in Nat /\ orig <= orig'
  BY <1>1, Times DEF FilesIInv
<1>3. Truthful' /\ Answers' /\ ShownIsFresh'
  BY <1>1, <1>2, FilesStay
<1>4. TypeOK'
  BY DEF FilesIInv, TypeOK, world, clock, files
<1> QED
  BY <1>3, <1>4 DEF FilesIInv

\* The end of a url, with what must be known to say ready.
LEMMA AnsweredKeeps ==
  ASSUME FilesIInv, client.at = "asked",
         NEW answer \in {"ready", "error"}, NEW by \in {"gate", "plugin", "uncropped"}, NEW m \in Time,
         answer = "ready" /\ client.stable =>
           /\ client.since <= m
           /\ by = "gate" => Made("jpeg", m)
           /\ by = "plugin" => \A f \in active : Made(f, m),
         Answered(answer, by, m),
         UNCHANGED <<world, files, asks>>
  PROVE  FilesIInv'
<1>1. UNCHANGED <<thumb, mark, others, active, do_cropped, now, orig, plugs, turns, asks>>
  BY DEF world, clock, files
<1>2. client \in Client
  BY DEF FilesIInv, TypeOK
<1>3. client' = [client EXCEPT !.at = "answered", !.answer = answer, !.by = by, !.mtime = m]
  BY DEF Answered
<1>4. client' \in Client
  BY <1>2, <1>3 DEF Client
<1>5. work' = NoWork /\ NoWork \in Work
  BY Bounds DEF Answered, NoWork, Work, At
<1>6. TypeOK'
  BY <1>1, <1>4, <1>5 DEF FilesIInv, TypeOK
<1>7. Truthful'
  BY <1>1 DEF FilesIInv, Truthful
<1>8. Working'
  BY <1>5 DEF Working, NoWork
<1>9. /\ client'.at = "answered" /\ client'.answer = answer /\ client'.by = by
      /\ client'.mtime = m /\ client'.since = client.since
      /\ client'.stable = client.stable
  BY <1>2, <1>3 DEF Client
<1>10. Answers'
  <2>1. client'.since <= orig'
    BY <1>1, <1>9 DEF FilesIInv, Answers
  <2> QED
    BY <2>1, <1>1, <1>9 DEF Answers, Made, Near
<1>11. ShownIsFresh'
  BY <1>9 DEF ShownIsFresh
<1> QED
  BY <1>6, <1>7, <1>8, <1>10, <1>11 DEF FilesIInv

LEMMA TakeStep == ASSUME FilesIInv, Take PROVE FilesIInv'
<1>1. client.at = "asked" /\ work.at = "idle" /\ client.since <= orig
  BY DEF Take, FilesIInv, Answers
<1>2. CASE Gate
  <2>1. Answered("ready", "gate", orig) /\ UNCHANGED <<world, files, asks>>
    BY <1>2 DEF Take
  <2>2. Made("jpeg", orig)
    BY <1>2 DEF Gate, Made
  <2>3. orig \in Time
    BY Times DEF FilesIInv
  <2> QED
    BY <1>1, <2>1, <2>2, <2>3, AnsweredKeeps
<1>3. CASE ~Gate
  <2>1. work' = [work EXCEPT !.at = "stat"] /\ UNCHANGED <<world, files, client, asks>>
    BY <1>3 DEF Take
  <2>2. work = NoWork
    BY <1>1 DEF FilesIInv, Working
  <2>3. work' \in Work
    BY <2>1 DEF FilesIInv, TypeOK, Work, At
  <2>4. Working'
    BY <1>1, <2>1, <2>2 DEF Working, NoWork
  <2> QED
    BY <2>1, <2>3, <2>4, WorkKeeps
<1> QED
  BY <1>2, <1>3

\* A url that is given up.
LEMMA FailedKeeps ==
  ASSUME FilesIInv, work.at # "idle", work' = [work EXCEPT !.at = "failed", !.nerror = TRUE],
         UNCHANGED <<world, files, client, asks>>
  PROVE  FilesIInv'
<1>1. work' \in Work /\ work'.at = "failed"
  BY DEF FilesIInv, TypeOK, Work, At
<1>2. Working'
  BY <1>1 DEF FilesIInv, Working
<1> QED
  BY <1>1, <1>2, WorkKeeps

LEMMA StatStep == ASSUME FilesIInv, Stat PROVE FilesIInv'
<1>1. work.at = "stat" /\ UNCHANGED <<world, files, client, asks>>
  BY DEF Stat
<1>2. CASE work' = [work EXCEPT !.at = "ask", !.mtime = orig]
  <2>1. client.at = "asked" /\ work.pos = 1 /\ ~work.need /\ ~work.nerror
    BY <1>1 DEF FilesIInv, Working
  <2>2. client.since <= orig /\ orig' = orig
    BY <1>1, <2>1 DEF FilesIInv, Answers, world, clock
  <2>3. orig \in Time /\ orig \in Nat /\ work \in Work
    BY Times DEF FilesIInv, TypeOK
  <2>4. /\ work' \in Work /\ work'.at = "ask" /\ work'.pos = 1 /\ work'.mtime = orig
        /\ ~work'.nerror
    BY <1>2, <2>1, <2>3 DEF Work, At
  <2>5. Working'
    BY <1>1, <2>1, <2>2, <2>3, <2>4 DEF Working, Passed
  <2> QED
    BY <1>1, <2>4, <2>5, WorkKeeps
<1>3. CASE work' = [work EXCEPT !.at = "failed", !.nerror = TRUE]
  BY <1>1, <1>3, FailedKeeps
<1> QED
  BY <1>2, <1>3 DEF Stat

\* A plugin that needs nothing has its file, or an error is known of it.
LEMMA NeedsNothing ==
  ASSUME NEW f \in Format, NEW m \in Nat, ~NeedsOut(f, m), mark[f] = None
  PROVE  Made(f, m)
BY DEF NeedsOut, Judged, Made

LEMMA NeedsOutStep == ASSUME FilesIInv, NeedsOutLoop PROVE FilesIInv'
<1>1. /\ work.at \in {"ask", "again"} /\ UNCHANGED <<world, files, client, asks>>
      /\ work.at # "idle"
  BY DEF NeedsOutLoop
<1>2. /\ client.at = "asked" /\ client.since <= work.mtime /\ work.mtime <= orig
      /\ ~work.nerror
      /\ client.stable /\ ~work.need => Passed(work.errFile)
  BY <1>1 DEF FilesIInv, Working
<1>3. work \in Work /\ work.mtime \in Nat /\ work.errFile \in BOOLEAN /\ work.need \in BOOLEAN
  BY Times DEF FilesIInv, TypeOK
<1>4. work.pos \in 1..2 /\ Plug \in Format
  <2>1. Len(plugs) = 2 /\ plugs[1] \in Format /\ plugs[2] \in Format
    BY ListTyped DEF FilesIInv
  <2>2. work.pos \in 1..3 /\ work.pos <= Len(plugs)
    BY <1>3 DEF Work, NeedsOutLoop, InList
  <2> QED
    BY <2>1, <2>2 DEF Plug
<1>5. UNCHANGED <<thumb, plugs, active, orig>>
  BY <1>1 DEF world, files, clock
<1>6. CASE Plug \notin active
  <2>1. work' = [work EXCEPT !.pos = @ + 1]
    BY <1>6 DEF NeedsOutLoop, Skipped
  <2>2. /\ work' \in Work /\ work'.at = work.at /\ work'.pos = work.pos + 1
        /\ work'.mtime = work.mtime /\ work'.nerror = work.nerror
        /\ work'.errFile = work.errFile /\ work'.need = work.need
    BY <2>1, <1>3, <1>4 DEF Work
  <2>3. client.stable /\ ~work.need => Passed(work.errFile)'
    BY <2>2, <1>2, <1>4, <1>5, <1>6 DEF Passed, Plug, Made, Near
  <2>4. Working'
    BY <1>1, <1>2, <1>5, <2>2, <2>3 DEF Working
  <2> QED
    BY <1>1, <2>2, <2>4, WorkKeeps
<1>7. CASE Plug \in active /\ NeedsOut(Plug, work.mtime)
  <2> DEFINE w == [work EXCEPT !.errFile = @ \/ FALSE]
  <2>1. work' = [w EXCEPT !.pos = 3, !.need = TRUE]
    BY <1>7 DEF NeedsOutLoop, Needed
  <2>2. w \in Work /\ w.at = work.at /\ w.mtime = work.mtime /\ w.nerror = work.nerror
    BY <1>3 DEF Work
  <2> HIDE DEF w
  <2>3. 3 \in 1..3 /\ TRUE \in BOOLEAN
    OBVIOUS
  <2>4. work' \in Work
    BY <2>1, <2>2, <2>3 DEF Work
  <2>5. /\ work'.at = work.at /\ work'.need = TRUE
        /\ work'.mtime = work.mtime /\ work'.nerror = work.nerror
    BY <2>1, <2>2 DEF Work
  <2>6. Working'
    BY <1>1, <1>2, <1>5, <2>5 DEF Working
  <2> QED
    BY <1>1, <2>4, <2>6, WorkKeeps
<1>8. CASE Plug \in active /\ ~NeedsOut(Plug, work.mtime)
  <2> DEFINE hidden == mark[Plug] # None
             w == [work EXCEPT !.errFile = @ \/ hidden]
  <2>1. work' = [w EXCEPT !.pos = @ + 1]
    BY <1>8 DEF NeedsOutLoop, Needed
  <2>2. /\ w \in Work /\ w.at = work.at /\ w.pos = work.pos /\ w.mtime = work.mtime
        /\ w.nerror = work.nerror /\ w.errFile = (work.errFile \/ hidden)
        /\ w.need = work.need
    BY <1>3 DEF Work
  <2> HIDE DEF w
  <2>3. /\ work' \in Work /\ work'.at = work.at /\ work'.pos = work.pos + 1
        /\ work'.mtime = work.mtime /\ work'.nerror = work.nerror
        /\ work'.errFile = (work.errFile \/ hidden) /\ work'.need = work.need
    BY <2>1, <2>2, <1>4 DEF Work
  <2>4. ~work'.errFile => Made(Plug, work.mtime)
    BY <2>3, <1>3, <1>4, <1>8, NeedsNothing
  <2>5. client.stable /\ ~work.need => Passed(work.errFile)'
    <3> SUFFICES ASSUME client.stable, ~work.need, NEW i \in 1..2, i < work.pos + 1,
                        plugs[i] \in active, ~work'.errFile
                 PROVE  Made(plugs[i], work.mtime)
      BY <2>3, <1>5 DEF Passed, Made, Near
    <3>1. ~work.errFile
      BY <2>3
    <3>2. i < work.pos \/ i = work.pos
      BY <1>4
    <3> QED
      BY <3>1, <3>2, <2>4, <1>2 DEF Passed, Plug
  <2>6. Working'
    BY <1>1, <1>2, <1>5, <2>3, <2>5 DEF Working
  <2> QED
    BY <1>1, <2>3, <2>6, WorkKeeps
<1> QED
  BY <1>6, <1>7, <1>8

\* A loop has passed both plugins, and so all that are active.
LEMMA AllPassed ==
  ASSUME FilesIInv, ~InList, NEW known \in BOOLEAN, Passed(known), ~known
  PROVE  \A f \in active : Made(f, work.mtime)
<1> SUFFICES ASSUME NEW f \in active PROVE Made(f, work.mtime)
  OBVIOUS
<1>1. Len(plugs) = 2 /\ (f = plugs[1] \/ f = plugs[2])
  BY ListTyped DEF FilesIInv, TypeOK
<1>2. 1 < work.pos /\ 2 < work.pos
  BY <1>1, Times DEF FilesIInv, InList
<1> QED
  BY <1>1, <1>2 DEF Passed

LEMMA NotNeededStep == ASSUME FilesIInv, NotNeeded PROVE FilesIInv'
<1>1. /\ work.at \in {"ask", "again"} /\ ~InList /\ ~work.need
      /\ Answered(Verdict, "plugin", work.mtime) /\ UNCHANGED <<world, files, asks>>
  BY DEF NotNeeded
<1>2. client.at = "asked" /\ client.since <= work.mtime /\ (client.stable => Passed(work.errFile))
  BY <1>1 DEF FilesIInv, Working
<1>3. work.mtime \in Time /\ work.errFile \in BOOLEAN
  BY Times DEF FilesIInv
<1>4. Verdict = "ready" /\ client.stable => \A f \in active : Made(f, work.mtime)
  <2>1. Verdict = "ready" => ~work.errFile
    BY DEF Verdict
  <2> QED
    BY <1>1, <1>2, <1>3, <2>1, AllPassed
<1>5. Verdict \in {"ready", "error"}
  BY DEF Verdict
<1> QED
  BY <1>1, <1>2, <1>3, <1>4, <1>5, AnsweredKeeps

LEMMA OpenStep == ASSUME FilesIInv, Open PROVE FilesIInv'
<1>1. work.at = "ask" /\ UNCHANGED <<world, files, client, asks>>
  BY DEF Open
<1>2. CASE work' = [work EXCEPT !.at = "again", !.pos = 1, !.need = FALSE]
  <2>1. /\ client.at = "asked" /\ client.since <= work.mtime /\ work.mtime <= orig
        /\ ~work.nerror
    BY <1>1 DEF FilesIInv, Working
  <2>2. orig' = orig
    BY <1>1 DEF world, clock
  <2>3. work \in Work /\ 1 \in 1..3
    BY DEF FilesIInv, TypeOK
  <2>4. work' \in Work
    BY <1>2, <2>3 DEF Work, At
  <2>5. /\ work'.at = "again" /\ work'.pos = 1
        /\ work'.mtime = work.mtime /\ work'.nerror = work.nerror
    BY <1>2, <2>3 DEF Work
  <2>6. Working'
    BY <1>1, <2>1, <2>2, <2>5 DEF Working, Passed
  <2> QED
    BY <1>1, <2>4, <2>6, WorkKeeps
<1>3. CASE work' = [work EXCEPT !.at = "failed", !.nerror = TRUE]
  BY <1>1, <1>3, FailedKeeps
<1> QED
  BY <1>2, <1>3 DEF Open

\* What is answered without being decoded, with nothing promised.
LEMMA NotCroppedStep == ASSUME FilesIInv, NotCropped PROVE FilesIInv'
<1>1. /\ work.at = "ask" /\ Answered(Verdict, "uncropped", work.mtime)
      /\ UNCHANGED <<world, files, asks>>
  BY DEF NotCropped
<1>2. client.at = "asked" /\ client.since <= work.mtime /\ work.mtime \in Time
  BY <1>1, Times DEF FilesIInv, Working
<1>3. Verdict \in {"ready", "error"}
  BY DEF Verdict
<1> QED
  BY <1>1, <1>2, <1>3, AnsweredKeeps

LEMMA DecodeStep == ASSUME FilesIInv, Decode PROVE FilesIInv'
<1>1. work.at = "again" /\ UNCHANGED <<world, files, client, asks>>
  BY DEF Decode
<1>2. CASE work' = [work EXCEPT !.at = "out", !.pos = 1, !.shows = orig]
  <2>1. client.at = "asked" /\ client.since <= work.mtime /\ work.mtime <= orig
    BY <1>1 DEF FilesIInv, Working
  <2>2. work \in Work /\ 1 \in 1..3 /\ orig \in Time /\ orig # None
    BY Times, Bounds DEF FilesIInv, TypeOK
  <2>3. work' \in Work
    BY <1>2, <2>2 DEF Work, At
  <2>4. work'.at = "out" /\ work'.pos = 1 /\ work'.mtime = work.mtime /\ work'.shows = orig
    BY <1>2, <2>2 DEF Work
  <2>5. Working'
    BY <1>1, <2>1, <2>2, <2>4 DEF Working, Passed
  <2> QED
    BY <1>1, <2>3, <2>5, WorkKeeps
<1>3. CASE work' = [work EXCEPT !.at = "failed", !.nerror = TRUE]
  BY <1>1, <1>3, FailedKeeps
<1> QED
  BY <1>2, <1>3 DEF Decode

LEMMA NearItself == ASSUME NEW t \in Nat PROVE Near(t, t)
BY Bounds DEF Near

LEMMA DoOutStep == ASSUME FilesIInv, DoOutLoop PROVE FilesIInv'
<1>1. work.at = "out" /\ UNCHANGED <<world, others, client, asks>>
  BY DEF DoOutLoop
<1>2. /\ client.at = "asked" /\ client.since <= work.mtime
      /\ work.shows # None /\ work.mtime <= work.shows
      /\ client.stable => Passed(work.nerror)
  BY <1>1 DEF FilesIInv, Working
<1>3. /\ work \in Work /\ work.mtime \in Nat /\ work.mtime \in Time /\ work.shows \in Time
      /\ work.nerror \in BOOLEAN
  BY <1>2, Times DEF FilesIInv, TypeOK
<1>4. work.pos \in 1..2 /\ Plug \in Format
  <2>1. Len(plugs) = 2 /\ plugs[1] \in Format /\ plugs[2] \in Format
    BY ListTyped DEF FilesIInv
  <2>2. work.pos \in 1..3 /\ work.pos <= Len(plugs)
    BY <1>3 DEF Work, DoOutLoop, InList
  <2> QED
    BY <2>1, <2>2 DEF Plug
<1>5. UNCHANGED <<now, plugs, active, do_cropped, orig, turns>>
  BY <1>1 DEF world, clock
<1>6. /\ Skipped \in Work /\ Skipped.at = "out" /\ Skipped.pos = work.pos + 1
      /\ Skipped.mtime = work.mtime /\ Skipped.shows = work.shows
      /\ Skipped.nerror = work.nerror
  BY <1>1, <1>3, <1>4 DEF Skipped, Work
<1>7. thumb \in [Format -> File \cup {None}] /\ mark \in [Format -> Time \cup {None}]
  BY DEF FilesIInv, TypeOK
<1>8. CASE Plug \notin active
  <2>1. work' = Skipped /\ UNCHANGED <<thumb, mark>>
    BY <1>8 DEF DoOutLoop
  <2>2. client.stable => Passed(work.nerror)'
    BY <2>1, <1>2, <1>4, <1>5, <1>6, <1>8 DEF Passed, Plug, Made, Near
  <2>3. Working'
    BY <1>1, <1>2, <1>5, <1>6, <2>1, <2>2 DEF Working
  <2> QED
    BY <1>1, <1>6, <2>1, <2>3, WorkKeeps DEF files
<1>9. ASSUME Plug \in active, work' = Skipped, UNCHANGED mark,
             thumb' = [thumb EXCEPT ![Plug] = [mtime |-> work.mtime, shows |-> work.shows]]
      PROVE  FilesIInv'
  <2>1. [mtime |-> work.mtime, shows |-> work.shows] \in File
    BY <1>3 DEF File
  <2>2. thumb' \in [Format -> File \cup {None}]
    BY <1>7, <1>9, <2>1
  <2>3. /\ thumb'[Plug] = [mtime |-> work.mtime, shows |-> work.shows]
        /\ \A f \in Format : f # Plug => thumb'[f] = thumb[f]
    BY <1>4, <1>7, <1>9
  <2>4. thumb'[Plug] # None
    BY <2>1, <2>3, FormatsAssumption DEF File
  <2>5. TypeOK'
    BY <1>1, <1>5, <1>6, <1>9, <2>2 DEF FilesIInv, TypeOK
  <2>6. Truthful'
    BY <1>2, <2>3 DEF FilesIInv, Truthful
  <2>7. Near(work.mtime, work.mtime)
    BY <1>3, NearItself
  <2>8. client.stable => Passed(work.nerror)'
    BY <2>3, <2>4, <2>7, <1>2, <1>4, <1>5, <1>6, <1>9, ListTyped
       DEF Passed, Plug, Made, Near, FilesIInv
  <2>9. Working'
    BY <1>1, <1>2, <1>5, <1>6, <1>9, <2>8 DEF Working
  <2>10. Answers'
    BY <1>1, <1>2, <1>5 DEF FilesIInv, Answers
  <2>11. ShownIsFresh'
    BY <1>1, <1>2 DEF ShownIsFresh
  <2> QED
    BY <2>5, <2>6, <2>9, <2>10, <2>11 DEF FilesIInv
<1>10. ASSUME Plug \in active, work' = [Skipped EXCEPT !.nerror = TRUE], UNCHANGED thumb,
              mark' = [mark EXCEPT ![Plug] = work.mtime]
       PROVE  FilesIInv'
  <2>1. work' \in Work /\ work'.at = "out" /\ work'.nerror = TRUE
        /\ work'.mtime = work.mtime /\ work'.shows = work.shows
    BY <1>6, <1>10 DEF Work
  <2>2. mark' \in [Format -> Time \cup {None}]
    BY <1>3, <1>7, <1>10
  <2>3. TypeOK'
    BY <1>1, <1>5, <1>10, <2>1, <2>2 DEF FilesIInv, TypeOK
  <2>4. Truthful' /\ Answers' /\ ShownIsFresh'
    <3>1. orig' \in Nat /\ orig <= orig'
      BY <1>5, Times DEF FilesIInv
    <3> QED
      BY <3>1, <1>1, <1>5, <1>10, FilesStay
  <2>5. Working'
    BY <1>1, <1>2, <1>5, <2>1 DEF Working, Passed
  <2> QED
    BY <2>3, <2>4, <2>5 DEF FilesIInv
<1> QED
  BY <1>8, <1>9, <1>10 DEF DoOutLoop, Out

LEMMA DoneOutStep == ASSUME FilesIInv, DoneOut PROVE FilesIInv'
<1>1. work.at = "out" /\ ~InList /\ UNCHANGED <<world, files, asks>>
  BY DEF DoneOut
<1>2. client.at = "asked" /\ client.since <= work.mtime /\ (client.stable => Passed(work.nerror))
  BY <1>1 DEF FilesIInv, Working
<1>3. work.mtime \in Time /\ work.nerror \in BOOLEAN /\ work \in Work
  BY Times DEF FilesIInv, TypeOK
<1>4. CASE work.nerror
  <2>1. work' = [work EXCEPT !.at = "failed"] /\ UNCHANGED <<world, files, client, asks>>
    BY <1>4 DEF DoneOut
  <2>2. work' \in Work /\ work'.at = "failed"
    BY <1>3, <2>1 DEF Work, At
  <2>3. Working'
    BY <1>2, <2>1, <2>2 DEF Working
  <2> QED
    BY <2>1, <2>2, <2>3, WorkKeeps
<1>5. CASE ~work.nerror
  <2>1. Answered(Verdict, "plugin", work.mtime)
    BY <1>5 DEF DoneOut
  <2>2. client.stable => \A f \in active : Made(f, work.mtime)
    BY <1>1, <1>2, <1>3, <1>5, AllPassed
  <2>3. Verdict \in {"ready", "error"}
    BY DEF Verdict
  <2> QED
    BY <1>1, <1>2, <1>3, <2>1, <2>2, <2>3, AnsweredKeeps
<1> QED
  BY <1>4, <1>5

LEMMA FailedStep == ASSUME FilesIInv, Failed PROVE FilesIInv'
<1>1. work.at = "failed" /\ UNCHANGED <<world, files, asks>>
  BY DEF Failed
<1>2. client.at = "asked" /\ work \in Work /\ work.mtime \in Time
  BY <1>1, Times DEF FilesIInv, Working, TypeOK
<1>3. CASE Answered("error", "plugin", work.mtime)
  BY <1>1, <1>2, <1>3, AnsweredKeeps
<1>4. CASE work' = [work EXCEPT !.at = "put", !.pos = 1, !.mtime = orig] /\ UNCHANGED client
  <2>1. orig \in Time /\ 1 \in 1..3
    BY Times DEF FilesIInv
  <2>2. work' \in Work
    BY <1>2, <1>4, <2>1 DEF Work, At
  <2>3. work'.at = "put"
    BY <1>2, <1>4 DEF Work
  <2>4. Working'
    BY <1>2, <1>4, <2>3 DEF Working
  <2> QED
    BY <1>1, <1>4, <2>2, <2>4, WorkKeeps
<1> QED
  BY <1>3, <1>4 DEF Failed

LEMMA PutErrorStep == ASSUME FilesIInv, PutErrorLoop PROVE FilesIInv'
<1>1. work.at = "put" /\ UNCHANGED <<world, thumb, others, client, asks>> /\ work' = Skipped
  BY DEF PutErrorLoop
<1>2. client.at = "asked" /\ work \in Work /\ work.mtime \in Time
  BY <1>1, Times DEF FilesIInv, Working, TypeOK
<1>3. work.pos \in 1..2
  <2>1. work.pos \in 1..3 /\ work.pos <= Len(plugs)
    BY <1>2 DEF Work, PutErrorLoop, InList
  <2>2. Len(plugs) = 2
    BY ListTyped DEF FilesIInv
  <2> QED
    BY <2>1, <2>2
<1>4. work' \in Work /\ work'.at = "put"
  BY <1>1, <1>2, <1>3 DEF Skipped, Work
<1>5. mark' \in [Format -> Time \cup {None}]
  BY <1>2 DEF PutErrorLoop, FilesIInv, TypeOK
<1>6. UNCHANGED <<now, orig, plugs, active, do_cropped, turns>>
  BY <1>1 DEF world, clock
<1>7. TypeOK'
  BY <1>1, <1>4, <1>5, <1>6 DEF FilesIInv, TypeOK
<1>8. Working'
  BY <1>1, <1>2, <1>4 DEF Working
<1>9. Truthful' /\ Answers' /\ ShownIsFresh'
  <2>1. orig' \in Nat /\ orig <= orig'
    BY <1>6, Times DEF FilesIInv
  <2> QED
    BY <2>1, <1>1, <1>6, FilesStay
<1> QED
  BY <1>7, <1>8, <1>9 DEF FilesIInv

LEMMA DonePutStep == ASSUME FilesIInv, DonePut PROVE FilesIInv'
<1>1. /\ work.at = "put" /\ Answered("error", "plugin", work.mtime)
      /\ UNCHANGED <<world, files, asks>>
  BY DEF DonePut
<1>2. client.at = "asked" /\ work.mtime \in Time
  BY <1>1, Times DEF FilesIInv, Working
<1> QED
  BY <1>1, <1>2, AnsweredKeeps

-----------------------------------------------------------------------------
(* The steps of the application, of the main loop and of the world.          *)

\* An idle thread stays as it is.
LEMMA IdleThread == ASSUME FilesIInv, work.at = "idle", work' = work PROVE Working'
BY DEF FilesIInv, Working, NoWork

LEMMA AskStep ==
  ASSUME FilesIInv, NEW kind \in {"load", "request"}, NEW recreate \in BOOLEAN, Ask(kind, recreate)
  PROVE  FilesIInv'
<1> DEFINE at == IF Cached /\ ~recreate THEN "cached" ELSE "asked"
           new == [NoRequest EXCEPT !.kind = kind, !.path = CachedPath, !.since = orig,
                                    !.at = at]
<1>1. /\ work.at = "idle" /\ asks < MaxAsks /\ asks' = asks + 1 /\ client' = new
      /\ thumb' = IF recreate THEN [thumb EXCEPT ![CachedPath] = None] ELSE thumb
      /\ UNCHANGED <<now, orig, plugs, active, do_cropped, turns, mark, others, work>>
  BY DEF Ask, world, clock
<1>2. orig \in Time /\ orig \in Nat /\ CachedPath \in Format
  BY Times DEF FilesIInv, CachedPath, Format
<1>3. /\ client' \in Client /\ client'.at = at /\ client'.answer = "none"
      /\ client'.path = CachedPath /\ client'.since = orig
  BY <1>1, <1>2, Bounds DEF NoRequest, Client, Format
<1>4. thumb \in [Format -> File \cup {None}]
  BY DEF FilesIInv, TypeOK
<1>5. /\ thumb' \in [Format -> File \cup {None}]
      /\ \A f \in Format : thumb'[f] = None \/ thumb'[f] = thumb[f]
  BY <1>1, <1>2, <1>4
<1>6. TypeOK'
  <2>1. asks' \in 0..MaxAsks
    BY <1>1, Bounds DEF FilesIInv, TypeOK
  <2> QED
    BY <1>1, <1>3, <1>5, <2>1 DEF FilesIInv, TypeOK
<1>7. Truthful'
  BY <1>5 DEF FilesIInv, Truthful
<1>8. Working'
  BY <1>1, IdleThread
<1>9. Answers'
  <2>1. orig' = orig /\ client'.since <= orig'
    BY <1>1, <1>2, <1>3
  <2>2. at = "cached" => /\ ~recreate
                         /\ thumb[CachedPath] # None /\ thumb[CachedPath].mtime = orig
    BY DEF Cached, CachedPath, NewEnough
  <2>3. at = "cached" => thumb' = thumb
    BY <1>1, <2>2
  <2> QED
    BY <1>3, <2>1, <2>2, <2>3 DEF Answers
<1>10. ShownIsFresh'
  BY <1>3 DEF ShownIsFresh
<1> QED
  BY <1>6, <1>7, <1>8, <1>9, <1>10 DEF FilesIInv

\* The answers of which ShownIsFresh speaks.
Promised ==
  /\ client.answer # "error" /\ client.stable /\ client.by # "uncropped"
  /\ client.by = "plugin" => active # {}

\* The application looks at a file: what is left alone.
LEMMA ShowKeeps ==
  ASSUME FilesIInv, client.at \in {"cached", "answered"}, NEW path \in Format,
         client' = [client EXCEPT !.at = "shown", !.shown = thumb[path]],
         UNCHANGED <<world, files, work, asks>>,
         Promised =>
           \/ Fresh(thumb[path], client.since)
           \/ /\ path = Preferred(client.kind) /\ thumb[path] # None
              /\ Fresh(thumb[Other(path)], client.since)
  PROVE  FilesIInv'
<1>1. UNCHANGED <<now, orig, plugs, active, do_cropped, turns, thumb, mark, others, work, asks>>
  BY DEF world, clock, files
<1>2. client \in Client /\ thumb[path] \in File \cup {None}
  BY DEF FilesIInv, TypeOK
<1>3. /\ client' \in Client /\ client'.at = "shown" /\ client'.shown = thumb[path]
      /\ client'.kind = client.kind /\ client'.since = client.since
      /\ client'.answer = client.answer /\ client'.stable = client.stable
      /\ client'.by = client.by
  BY <1>2 DEF Client
<1>4. TypeOK'
  BY <1>1, <1>3 DEF FilesIInv, TypeOK
<1>5. Truthful'
  BY <1>1 DEF FilesIInv, Truthful
<1>6. Working'
  <2>1. work.at = "idle"
    BY DEF FilesIInv, Working
  <2> QED
    BY <1>1, <2>1, IdleThread
<1>7. Answers'
  BY <1>1, <1>3 DEF FilesIInv, Answers
<1>8. ShownIsFresh'
  BY <1>1, <1>3 DEF ShownIsFresh, Promised, Fresh
<1> QED
  BY <1>4, <1>5, <1>6, <1>7, <1>8 DEF FilesIInv

LEMMA KindsTyped ==
  ASSUME FilesIInv
  PROVE  Preferred(client.kind) \in Format /\ PathOf(client.kind) \in Format
BY TheOther DEF Preferred, PathOf, Format

LEMMA ShowCachedStep == ASSUME FilesIInv, ShowCached PROVE FilesIInv'
<1> DEFINE path == IF client.kind = "load" THEN client.path ELSE PathOf(client.kind)
<1>1. /\ client.at = "cached" /\ UNCHANGED <<world, files, work, asks>>
      /\ client' = [client EXCEPT !.at = "shown", !.shown = thumb[path]]
  BY DEF ShowCached
<1>2. client.path \in Format /\ path \in Format /\ client.since \in Nat
  BY KindsTyped, Times DEF FilesIInv
<1>3. client.stable => Fresh(thumb[client.path], client.since)
  <2>1. client.stable => thumb[client.path] # None /\ thumb[client.path].mtime = client.since
    BY <1>1 DEF FilesIInv, Answers
  <2> QED
    BY <1>2, <2>1, MadeIsFresh DEF FilesIInv
<1>4. client.stable =>
        \/ Fresh(thumb[path], client.since)
        \/ /\ path = Preferred(client.kind) /\ thumb[path] # None
           /\ Fresh(thumb[Other(path)], client.since)
  BY <1>2, <1>3, TheOther DEF PathOf, Preferred, Format, Fresh
<1> QED
  BY <1>1, <1>2, <1>4, ShowKeeps DEF Promised

LEMMA ShowAnsweredStep == ASSUME FilesIInv, ShowAnswered PROVE FilesIInv'
<1> DEFINE path == PathOf(client.kind)
<1>1. /\ client.at = "answered" /\ UNCHANGED <<world, files, work, asks>>
      /\ client' = [client EXCEPT !.at = "shown", !.shown = thumb[path]]
  BY DEF ShowAnswered
<1>2. path \in Format /\ client.since \in Nat /\ client.mtime \in Nat /\ active \subseteq Format
  BY KindsTyped, Times DEF FilesIInv, TypeOK
<1>3. ASSUME Promised
      PROVE  \E f \in Format : thumb[f] # None /\ Fresh(thumb[f], client.since)
  <2>1. client.since <= client.mtime
    BY <1>1, <1>3 DEF FilesIInv, Answers, Promised
  <2>2. PICK f \in Format : Made(f, client.mtime)
    <3>1. client.by \in {"gate", "plugin"}
      BY <1>1, <1>3 DEF FilesIInv, TypeOK, Client, Answers, Promised
    <3> QED
      BY <1>1, <1>2, <1>3, <3>1 DEF FilesIInv, Answers, Promised, Format
  <2>3. Fresh(thumb[f], client.since)
    BY <1>2, <2>1, <2>2, MadeIsFresh DEF FilesIInv
  <2> QED
    BY <2>2, <2>3 DEF Made
<1>4. Promised =>
        \/ Fresh(thumb[path], client.since)
        \/ /\ path = Preferred(client.kind) /\ thumb[path] # None
           /\ Fresh(thumb[Other(path)], client.since)
  BY <1>3, TheOther DEF PathOf, Preferred, Format
<1> QED
  BY <1>1, <1>2, <1>4, ShowKeeps

\* A step after which the request no longer counts, and that at most removes files.
LEMMA UnstableKeeps ==
  ASSUME FilesIInv, client' = [client EXCEPT !.stable = FALSE],
         UNCHANGED <<clock, mark, work, asks>>,
         active' \subseteq Format, do_cropped' = do_cropped,
         others' \subseteq Others, turns' \in 0..MaxTurns,
         thumb' \in [Format -> File \cup {None}],
         \A f \in Format : thumb'[f] = None \/ thumb'[f] = thumb[f]
  PROVE  FilesIInv'
<1>1. UNCHANGED <<now, orig, plugs>>
  BY DEF clock
<1>2. client \in Client
  BY DEF FilesIInv, TypeOK
<1>3. /\ client' \in Client /\ ~client'.stable /\ client'.at = client.at
      /\ client'.answer = client.answer /\ client'.since = client.since
  BY <1>2 DEF Client
<1>4. TypeOK'
  BY <1>1, <1>3 DEF FilesIInv, TypeOK
<1>5. Truthful'
  BY DEF FilesIInv, Truthful
<1>6. Working'
  BY <1>1, <1>3 DEF FilesIInv, Working
<1>7. Answers'
  BY <1>1, <1>3 DEF FilesIInv, Answers
<1>8. ShownIsFresh'
  BY <1>3 DEF ShownIsFresh
<1> QED
  BY <1>4, <1>5, <1>6, <1>7, <1>8 DEF FilesIInv

LEMMA AnotherTurn == ASSUME FilesIInv, turns < MaxTurns PROVE turns + 1 \in 0..MaxTurns
BY Bounds DEF FilesIInv, TypeOK

LEMMA ReloadStep == ASSUME FilesIInv, NEW f \in Format, ReloadConfig(f) PROVE FilesIInv'
<1>1. /\ turns < MaxTurns /\ turns' = turns + 1
      /\ client' = [client EXCEPT !.stable = FALSE]
      /\ UNCHANGED <<clock, do_cropped, thumb, mark, others, work, asks>>
      /\ active' \subseteq active \cup {f}
  BY DEF ReloadConfig, files
<1>2. turns' \in 0..MaxTurns
  BY <1>1, AnotherTurn
<1>3. /\ active' \subseteq Format /\ others' \subseteq Others
      /\ thumb' \in [Format -> File \cup {None}]
  BY <1>1 DEF FilesIInv, TypeOK
<1> QED
  BY <1>1, <1>2, <1>3, UnstableKeeps

LEMMA CleanCacheStep ==
  ASSUME FilesIInv, NEW maxSize, NEW minMtime, CleanCache(maxSize, minMtime) PROVE FilesIInv'
<1>1. /\ turns < MaxTurns /\ turns' = turns + 1
      /\ client' = [client EXCEPT !.stable = FALSE]
      /\ UNCHANGED <<clock, active, do_cropped, mark, work, asks>>
  BY DEF CleanCache
<1>2. PICK gone :
        /\ thumb' = [f \in Format |-> IF \E g \in gone : g.name = f THEN None ELSE thumb[f]]
        /\ others' = {o \in others :
             \A g \in gone : g # [name |-> "other", mtime |-> o.mtime, size |-> o.size]}
  BY Zenon DEF CleanCache
<1>3. /\ thumb' \in [Format -> File \cup {None}]
      /\ \A f \in Format : thumb'[f] = None \/ thumb'[f] = thumb[f]
  BY <1>2 DEF FilesIInv, TypeOK
<1>4. turns' \in 0..MaxTurns
  BY <1>1, AnotherTurn
<1>5. active' \subseteq Format /\ others' \subseteq Others
  BY <1>1, <1>2 DEF FilesIInv, TypeOK
<1> QED
  BY <1>1, <1>3, <1>4, <1>5, UnstableKeeps

\* The clock, the original or the plugin's configuration changes.
LEMMA WorldKeeps ==
  ASSUME FilesIInv, UNCHANGED <<plugs, active, files, work, client, asks>>,
         do_cropped' \in BOOLEAN, turns' \in 0..MaxTurns,
         now' \in Time, orig' \in 0..now', orig <= orig'
  PROVE  FilesIInv'
<1>1. UNCHANGED <<thumb, mark, others>>
  BY DEF files
<1>2. orig \in Nat /\ orig' \in Nat /\ work.mtime \in Nat
  BY Times, Bounds DEF FilesIInv
<1>3. TypeOK'
  BY <1>1 DEF FilesIInv, TypeOK
<1>4. Truthful' /\ Answers' /\ ShownIsFresh'
  BY <1>1, <1>2, FilesStay
<1>5. Working'
  <2>1. work.mtime <= orig => work.mtime <= orig'
    BY <1>2
  <2> QED
    BY <1>1, <2>1 DEF FilesIInv, Working, Passed, Made, Near
<1> QED
  BY <1>3, <1>4, <1>5 DEF FilesIInv

LEMMA WriteStep == ASSUME FilesIInv, Write PROVE FilesIInv'
<1>1. now' \in Time /\ orig' \in 0..now' /\ orig <= orig'
  BY Times DEF Write, FilesIInv, TypeOK
<1>2. do_cropped' \in BOOLEAN /\ turns' \in 0..MaxTurns
  BY DEF Write, FilesIInv, TypeOK
<1> QED
  BY <1>1, <1>2, WorldKeeps DEF Write

LEMMA ReloadCroppingStep == ASSUME FilesIInv, ReloadCropping PROVE FilesIInv'
<1>1. UNCHANGED <<now, orig, plugs>>
  BY DEF ReloadCropping, clock
<1>2. now' \in Time /\ orig' \in 0..now' /\ orig <= orig'
  BY <1>1, Times DEF FilesIInv, TypeOK
<1>3. do_cropped' \in BOOLEAN /\ turns' \in 0..MaxTurns
  BY AnotherTurn DEF ReloadCropping
<1> QED
  BY <1>1, <1>2, <1>3, WorldKeeps DEF ReloadCropping

LEMMA TickStep == ASSUME FilesIInv, Tick PROVE FilesIInv'
<1>1. now' \in Time /\ orig' \in 0..now' /\ orig <= orig'
  BY Times, Bounds DEF Tick, FilesIInv, TypeOK, Time
<1>2. do_cropped' \in BOOLEAN /\ turns' \in 0..MaxTurns
  BY DEF Tick, FilesIInv, TypeOK
<1> QED
  BY <1>1, <1>2, WorldKeeps DEF Tick

LEMMA NextFilesIInv == FilesIInv /\ [Next]_vars => FilesIInv'
<1> SUFFICES ASSUME FilesIInv, [Next]_vars PROVE FilesIInv'
  OBVIOUS
<1>1. CASE \E kind \in {"load", "request"}, b \in BOOLEAN : Ask(kind, b)
  BY <1>1, AskStep
<1>2. CASE ShowCached
  BY <1>2, ShowCachedStep
<1>3. CASE ShowAnswered
  BY <1>3, ShowAnsweredStep
<1>4. CASE Thread
  BY <1>4, TakeStep, StatStep, NeedsOutStep, NotNeededStep, OpenStep, NotCroppedStep, DecodeStep,
     DoOutStep, DoneOutStep, FailedStep, PutErrorStep, DonePutStep DEF Thread
<1>5. CASE \E f \in Format : ReloadConfig(f)
  BY <1>5, ReloadStep
<1>10. CASE ReloadCropping
  BY <1>10, ReloadCroppingStep
<1>6. CASE \E a \in CleanArgs : CleanCache(a[1], a[2])
  BY <1>6, CleanCacheStep
<1>7. CASE Write
  BY <1>7, WriteStep
<1>8. CASE Tick
  BY <1>8, TickStep
<1>9. CASE UNCHANGED vars
  <2>1. /\ UNCHANGED <<plugs, active, do_cropped, turns, files, work, client, asks>>
        /\ now' = now /\ orig' = orig
    BY <1>9 DEF vars, files
  <2>2. now' \in Time /\ orig' \in 0..now' /\ orig <= orig'
    BY <2>1, Times DEF FilesIInv, TypeOK
  <2>3. do_cropped' \in BOOLEAN /\ turns' \in 0..MaxTurns
    BY <2>1 DEF FilesIInv, TypeOK
  <2> QED
    BY <2>1, <2>2, <2>3, WorldKeeps
<1> QED
  BY <1>1, <1>2, <1>3, <1>4, <1>5, <1>6, <1>7, <1>8, <1>9, <1>10 DEF Next

-----------------------------------------------------------------------------
(* Theorems.                                                                 *)

\* Everything the files' times are relied on for holds together, always.
THEOREM FilesInductive == Spec => []FilesIInv
BY InitFilesIInv, NextFilesIInv, PTL DEF Spec

\* What a plugin reports ready, while no configuration is read and nothing is
\* cleaned, is there in every active format: made from an original no older than
\* the one the thread looked at, give or take the tolerance, and stamped so.
THEOREM ReadyIsMade == Spec => []ReadyMeansMade
<1>1. FilesIInv => ReadyMeansMade
  <2> SUFFICES ASSUME FilesIInv, client.at = "answered", client.answer = "ready",
                      client.by = "plugin", client.stable, NEW f \in active
               PROVE  Fresh(thumb[f], client.mtime) /\ Near(thumb[f].mtime, client.mtime)
    BY DEF FilesIInv, ReadyMeansMade
  <2>1. Made(f, client.mtime)
    BY DEF FilesIInv, Answers
  <2>2. f \in Format /\ client.mtime \in Nat
    BY Times DEF FilesIInv, TypeOK
  <2>3. Fresh(thumb[f], client.mtime)
    BY <2>1, <2>2, MadeIsFresh DEF FilesIInv
  <2> QED
    BY <2>1, <2>3 DEF Made
<1> QED
  BY <1>1, FilesInductive, PTL

\* An application is shown its original as it was when it asked, or the leftover of
\* the format it prefers while the file of the other format would have shown it.
THEOREM ShownFresh == Spec => []ShownIsFresh
<1>1. FilesIInv => ShownIsFresh
  BY DEF FilesIInv
<1> QED
  BY <1>1, FilesInductive, PTL
=============================================================================
