----------------------------- MODULE BusInvariants -----------------------------
(***************************************************************************)
(* What the proofs about the client libraries say of the daemon on the bus *)
(* (QueueOnBus) and of the library's steps on its end of the connection.   *)
(***************************************************************************)
EXTENDS QueueOnBus

\* Of the daemon: the reply it owes has a handle.
Owes == owed # None => running /\ num[owed[1]] >= 1

\* The library's steps on its end of the connection: a call leaves, a message is
\* taken, or neither.
CallLeaves == calls' = calls \/ \E c \in Call : calls' = Append(calls, c)
MessageTaken == wire' = wire \/ (wire # <<>> /\ wire' = Tail(wire))

-----------------------------------------------------------------------------
(* Where no call fails.  In a world that is not rough the daemon stays up,   *)
(* and what it sends is true: a reply names a task of its caller, an Error   *)
(* one that failed, Finished one that was served.                            *)

\* The service a message is from.
From(m) == IF m.msg \in {"reply", "noreply"} THEN m.call[1] ELSE m.task[1]

Sound(S) ==
  {m \in Message :
     /\ From(m) \in S
     /\ m.msg # "noreply"
     /\ m.msg = "reply" => /\ m.handle <= num[m.call[1]]
                           /\ owner[<<m.call[1], m.handle>>] = m.call[2]
     /\ m.msg = "Error" => Own(m.task) /\ CallOf(m.task) \in failed
     /\ m.msg = "Finished" => /\ m.task[2] <= num[m.task[1]]
                              /\ Own(m.task) => CallOf(m.task) \in served}

\* S: the services that are called.
Steady(S) ==
  /\ running
  /\ calls \in Seq(S \X Caller)
  /\ owed # None => owed[1] \in S /\ owner[<<owed[1], num[owed[1]]>>] = owed[2]
  /\ \A t \in open : t[1] \in S /\ t[2] <= num[t[1]]
  /\ \A t \in Task : Own(t) => t[2] <= num[t[1]]
  /\ wire \in Seq(Sound(S))

\* What a step leaves true of the tasks: their owners, and what was sent about them.
TasksStay ==
  /\ world' = world
  /\ \A t \in Task : t[2] <= num[t[1]] => owner'[t] = owner[t]
  /\ served \subseteq served' /\ failed \subseteq failed'
================================================================================
