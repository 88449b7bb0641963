--------------------------- MODULE SpecializedCall ---------------------------
(***************************************************************************)
(* How a pool thread has a specialized thumbnailer (another process) make  *)
(* one thumbnail: daemon/thumbnailer.c, the loop over urlss in do_the_work *)
(* and the callbacks specialized_ready and specialized_error.              *)
(*                                                                         *)
(* The thread connects its callbacks to the proxy, sends Create without    *)
(* asking for a reply and sleeps on a condition variable in a record on    *)
(* its own stack.  The main loop runs the callbacks of every connected     *)
(* thread for every Ready or Error signal; a callback knows its record     *)
(* only by the uri the signal names.  The thumbnailer may answer late or   *)
(* never.  Disconnecting does not wait for a callback that is running, and *)
(* the next turn of the loop puts the next record at the same address.     *)
(***************************************************************************)
EXTENDS Integers, Sequences

CONSTANTS
  Caller,    \* pool threads that call this specialized thumbnailer
  Uri,
  Nothing,      \* neither a thread nor a uri
  MaxCalls   \* bound: [Caller -> Nat], calls per thread

ASSUME CallsAssumption == MaxCalls \in [Caller -> Nat]
ASSUME NothingAssumption == Nothing \notin Caller \cup Uri

VARIABLES
  pc,         \* [Caller -> where the thread is]
  calls,      \* [Caller -> Nat]: turns of the loop; names the current record
  uri,        \* [Caller -> Uri \cup {Nothing}]: info.uri
  had,        \* [Caller -> BOOLEAN]: info.had_callback
  err,        \* [Caller -> BOOLEAN]: info.error_msg is set
  saw,        \* [Caller -> BOOLEAN]: had_callback as read after the wait
  result,     \* [Caller -> "none", "ready" or "error"]: the signal to emit
  asked,      \* [Uri -> Nat]: Create calls the thumbnailer has not answered
  bus,        \* the thumbnailer's signals on their way to the main loop
  main,       \* [at: ..., callees: callbacks left, on: Caller, call: Nat]
  readySaid,  \* history: a Ready matched the record of the current call
  straddled   \* history: the call began while a callback ran on its record

frame == <<calls, uri>>
callVars == <<pc, calls, uri, had, err, saw, result, asked, bus, main, readySaid,
          straddled>>

Signal == [kind : {"ready", "error"}, uri : Uri]
NotRunning == [at |-> "idle", callees |-> {}, on |-> Nothing, call |-> 0]

CallTypeOK ==
  /\ pc \in [Caller -> {"idle", "connected", "called", "waiting", "woken",
                        "judging", "disconnecting"}]
  /\ calls \in [Caller -> Nat]
  /\ \A c \in Caller : calls[c] <= MaxCalls[c]
  /\ uri \in [Caller -> Uri \cup {Nothing}]
  /\ had \in [Caller -> BOOLEAN]
  /\ err \in [Caller -> BOOLEAN]
  /\ saw \in [Caller -> BOOLEAN]
  /\ result \in [Caller -> {"none", "ready", "error"}]
  /\ asked \in [Uri -> Nat]
  /\ bus \in Seq(Signal)
  /\ main \in [at : {"idle", "emit", "callback", "locking"},
               callees : SUBSET Caller, on : Caller \cup {Nothing},
               call : Nat]
  /\ readySaid \in [Caller -> BOOLEAN]
  /\ straddled \in [Caller -> BOOLEAN]

CallInit ==
  /\ pc = [c \in Caller |-> "idle"]
  /\ calls = [c \in Caller |-> 0]
  /\ uri = [c \in Caller |-> Nothing]
  /\ had = [c \in Caller |-> FALSE]
  /\ err = [c \in Caller |-> FALSE]
  /\ saw = [c \in Caller |-> FALSE]
  /\ result = [c \in Caller |-> "none"]
  /\ asked = [u \in Uri |-> 0]
  /\ bus = <<>>
  /\ main = NotRunning
  /\ readySaid = [c \in Caller |-> FALSE]
  /\ straddled = [c \in Caller |-> FALSE]

Goto(c, from, to) == pc[c] = from /\ pc' = [pc EXCEPT ![c] = to]

-----------------------------------------------------------------------------
(* The pool thread.                                                          *)

\* The record is set up and both callbacks are connected.
Connect(c, u) ==
  /\ Goto(c, "idle", "connected")
  /\ calls[c] < MaxCalls[c]
  /\ calls' = [calls EXCEPT ![c] = @ + 1]
  /\ uri' = [uri EXCEPT ![c] = u]
  /\ had' = [had EXCEPT ![c] = FALSE]
  /\ err' = [err EXCEPT ![c] = FALSE]
  /\ result' = [result EXCEPT ![c] = "none"]
  /\ readySaid' = [readySaid EXCEPT ![c] = FALSE]
  /\ straddled' = [straddled EXCEPT ![c] =
                     main.at \in {"callback", "locking"} /\ main.on = c]
  /\ UNCHANGED <<saw, asked, bus, main>>

Create(c) ==
  /\ Goto(c, "connected", "called")
  /\ asked' = [asked EXCEPT ![uri[c]] = @ + 1]
  /\ UNCHANGED <<frame, had, err, saw, result, bus, main, readySaid, straddled>>

\* Under info.mutex: sleep only if no callback has been there.
SleepAnyway(c) == TRUE
Sleeps(c) == ~had[c]

Check(c) ==
  /\ Goto(c, "called", IF Sleeps(c) THEN "waiting" ELSE "woken")
  /\ UNCHANGED <<frame, had, err, saw, result, asked, bus, main, readySaid,
                 straddled>>

\* The 100 seconds are over, or the wait returned for no reason: it is not in
\* a loop.
WakeAlone(c) ==
  /\ pc[c] = "waiting"
  /\ pc' = [pc EXCEPT ![c] = "woken"]
  /\ UNCHANGED <<frame, had, err, saw, result, asked, bus, main, readySaid,
                 straddled>>

\* had_callback is read after the unlock ...
ReadHadCallback(c) ==
  /\ Goto(c, "woken", "judging")
  /\ saw' = [saw EXCEPT ![c] = had[c]]
  /\ UNCHANGED <<frame, had, err, result, asked, bus, main, readySaid, straddled>>

\* ... and then error_msg.
ReadError(c) ==
  /\ Goto(c, "judging", "disconnecting")
  /\ result' = [result EXCEPT ![c] = IF saw[c] /\ ~err[c] THEN "ready" ELSE "error"]
  /\ UNCHANGED <<frame, had, err, saw, asked, bus, main, readySaid, straddled>>

\* The callbacks are disconnected, the thread emits its result for the uri,
\* and the record is out of scope.
Disconnect(c) ==
  /\ Goto(c, "disconnecting", "idle")
  /\ UNCHANGED <<frame, had, err, saw, result, asked, bus, main, readySaid,
                 straddled>>

-----------------------------------------------------------------------------
(* The specialized thumbnailer: it answers a Create once, late, or never.     *)

Answer(kind, u) ==
  /\ asked[u] > 0
  /\ asked' = [asked EXCEPT ![u] = @ - 1]
  /\ bus' = Append(bus, [kind |-> kind, uri |-> u])
  /\ UNCHANGED <<pc, frame, had, err, saw, result, main, readySaid, straddled>>

-----------------------------------------------------------------------------
(* The main loop: one signal, every callback connected when it is handled.   *)

Connected(c) == pc[c] # "idle"

Dispatch ==
  /\ main.at = "idle"
  /\ bus # <<>>
  /\ main' = [NotRunning EXCEPT !.at = "emit",
                                !.callees = {c \in Caller : Connected(c)}]
  /\ UNCHANGED <<pc, frame, had, err, saw, result, asked, bus, readySaid, straddled>>

\* The next callback, unless it has been disconnected meanwhile.
Enter(c) ==
  /\ main.at = "emit"
  /\ c \in main.callees
  /\ main' = IF Connected(c)
             THEN [at |-> "callback", callees |-> main.callees \ {c},
                   on |-> c, call |-> calls[c]]
             ELSE [main EXCEPT !.callees = @ \ {c}]
  /\ UNCHANGED <<pc, frame, had, err, saw, result, asked, bus, readySaid, straddled>>

\* The record at the address the callback was given: compare the uri, write
\* error_msg, not holding info.mutex.
MatchErrorLate ==
  LET c == main.on  matches == uri[c] = Head(bus).uri IN
  /\ main.at = "callback"
  /\ main' = [main EXCEPT !.at = IF matches THEN "locking" ELSE "emit"]
  /\ readySaid' = [readySaid EXCEPT ![c] = @ \/ (matches /\ Head(bus).kind = "ready")]
  /\ UNCHANGED <<pc, frame, had, err, saw, result, asked, bus, straddled>>

Match ==
  LET c == main.on  matches == uri[c] = Head(bus).uri IN
  /\ main.at = "callback"
  /\ main' = [main EXCEPT !.at = IF matches THEN "locking" ELSE "emit"]
  /\ err' = [err EXCEPT ![c] = IF matches THEN Head(bus).kind = "error" ELSE @]
  /\ readySaid' = [readySaid EXCEPT ![c] = @ \/ (matches /\ Head(bus).kind = "ready")]
  /\ UNCHANGED <<pc, frame, had, saw, result, asked, bus, straddled>>

\* Under info.mutex: wake the thread, then set had_callback.  If the record
\* the callback started on is gone, the write lands in the thread's next one
\* or hits nothing.
Complete ==
  LET c == main.on IN
  /\ main.at = "locking"
  /\ \/ /\ had' = [had EXCEPT ![c] = TRUE]
        /\ pc' = [pc EXCEPT ![c] = IF @ = "waiting" THEN "woken" ELSE @]
     \/ /\ calls[c] # main.call
        /\ UNCHANGED <<had, pc>>
  /\ main' = [main EXCEPT !.at = "emit"]
  /\ UNCHANGED <<frame, err, saw, result, asked, bus, readySaid, straddled>>

Dispatched ==
  /\ main.at = "emit"
  /\ main.callees = {}
  /\ main' = NotRunning
  /\ bus' = Tail(bus)
  /\ UNCHANGED <<pc, frame, had, err, saw, result, asked, readySaid, straddled>>

MainLoop ==
  \/ Dispatch
  \/ \E c \in Caller : Enter(c)
  \/ Match
  \/ Complete
  \/ Dispatched

InCall(c) ==
  \/ Create(c)
  \/ Check(c)
  \/ WakeAlone(c)
  \/ ReadHadCallback(c)
  \/ ReadError(c)
  \/ Disconnect(c)

CallNext ==
  \/ \E c \in Caller, u \in Uri : Connect(c, u)
  \/ \E c \in Caller : InCall(c)
  \/ \E kind \in {"ready", "error"}, u \in Uri : Answer(kind, u)
  \/ MainLoop

CallSpec == CallInit /\ [][CallNext]_callVars

-----------------------------------------------------------------------------
(* Properties.                                                               *)

\* A thread never sleeps on an answer that has already come: had_callback is
\* tested and set under the same mutex as the wait and the wakeup.
NoMissedAnswer == \A c \in Caller : pc[c] = "waiting" => ~had[c]

\* A call ends in Ready only if a Ready named its uri while it was open, or if
\* a callback of the thread's previous call was still running when it began:
\* the record carries no generation, so such a callback completes the wrong
\* call.  Two threads asking for the same uri are both served by either answer.
ReadyIsBacked ==
  \A c \in Caller : result[c] = "ready" => readySaid[c] \/ straddled[c]
=============================================================================
