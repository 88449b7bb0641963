-------------------------- MODULE ThumbnailService --------------------------
(***************************************************************************)
(* What org.freedesktop.thumbnailer.Generic promises about one request,    *)
(* whatever threads, pools and handlers carry it out: a request is queued, *)
(* runs, has each of its urls answered once and is finished once; it may   *)
(* be cancelled while it is queued, and is then finished unanswered; and   *)
(* the service may end, finishing what is queued first.                    *)
(* Thumbnailer implements this specification.                              *)
(***************************************************************************)
EXTENDS Integers

CONSTANTS Url, MaxTasks

Handle == 1..MaxTasks

VARIABLES
  accepted,   \* requests accepted so far; the handle of the last one
  wanted,     \* [Handle -> SUBSET Url]
  phase,      \* [Handle -> "new", "queued", "running" or "done"]
  cancelled,  \* the handles cancelled while queued
  answered,   \* [Handle -> SUBSET Url]: the urls named by a Ready or Error
  service     \* "up", "ending" or "down"

vars == <<accepted, wanted, phase, cancelled, answered, service>>

Queued == {h \in Handle : phase[h] = "queued"}

Init ==
  /\ accepted = 0
  /\ wanted = [h \in Handle |-> {}]
  /\ phase = [h \in Handle |-> "new"]
  /\ cancelled = {}
  /\ answered = [h \in Handle |-> {}]
  /\ service = "up"

\* A new request; it may cancel an earlier one that is still queued.
Accept(U, h) ==
  /\ service = "up"
  /\ accepted < MaxTasks
  /\ accepted' = accepted + 1
  /\ wanted' = [wanted EXCEPT ![accepted + 1] = U]
  /\ phase' = [phase EXCEPT ![accepted + 1] = "queued"]
  /\ cancelled' = cancelled \cup ({h} \cap Queued)
  /\ UNCHANGED <<answered, service>>

Cancel(h) ==
  /\ service = "up"
  /\ h \in Queued
  /\ cancelled' = cancelled \cup {h}
  /\ UNCHANGED <<accepted, wanted, phase, answered, service>>

Begin(h) ==
  /\ service # "down"
  /\ h \in Queued \ cancelled
  /\ phase' = [phase EXCEPT ![h] = "running"]
  /\ UNCHANGED <<accepted, wanted, cancelled, answered, service>>

\* Ready, Error, or both: about urls that had no answer yet.
Answer(h, U) ==
  /\ service # "down"
  /\ phase[h] = "running"
  /\ U \subseteq wanted[h] \ answered[h]
  /\ answered' = [answered EXCEPT ![h] = @ \cup U]
  /\ UNCHANGED <<accepted, wanted, phase, cancelled, service>>

Close(h) ==
  /\ service # "down"
  /\ \/ phase[h] = "running" /\ answered[h] = wanted[h]
     \/ h \in Queued \cap cancelled
  /\ phase' = [phase EXCEPT ![h] = "done"]
  /\ UNCHANGED <<accepted, wanted, cancelled, answered, service>>

\* The service gives up what nobody began, H; of the queued requests only a
\* cancelled one may be left to close later.
GiveUp(H) ==
  /\ service = "up"
  /\ H \subseteq Queued
  /\ Queued \ H \subseteq cancelled
  /\ phase' = [h \in Handle |-> IF h \in H THEN "done" ELSE phase[h]]
  /\ cancelled' = cancelled \cup H
  /\ service' = "ending"
  /\ UNCHANGED <<accepted, wanted, answered>>

End ==
  /\ service = "ending"
  /\ service' = "down"
  /\ UNCHANGED <<accepted, wanted, phase, cancelled, answered>>

Revive ==
  /\ service = "down"
  /\ service' = "up"
  /\ accepted' = 0
  /\ wanted' = [h \in Handle |-> {}]
  /\ phase' = [h \in Handle |-> "new"]
  /\ cancelled' = {}
  /\ answered' = [h \in Handle |-> {}]

Next ==
  \/ \E U \in SUBSET Url, h \in 0..MaxTasks : Accept(U, h)
  \/ \E h \in Handle : Cancel(h)
  \/ \E h \in Handle : Begin(h)
  \/ \E h \in Handle, U \in SUBSET Url : Answer(h, U)
  \/ \E h \in Handle : Close(h)
  \/ \E H \in SUBSET Handle : GiveUp(H)
  \/ End
  \/ Revive

Spec == Init /\ [][Next]_vars
=============================================================================
