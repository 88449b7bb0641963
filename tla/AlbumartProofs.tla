---------------------------- MODULE AlbumartProofs ----------------------------
(***************************************************************************)
(* Proofs about album art (Albumart), for any names, providers, priorities *)
(* and bounds.                                                             *)
(*                                                                         *)
(* None of the three invariants is inductive.  AskedByPriority needs what  *)
(* the list is between any two of its changes (InOrder), and that what has *)
(* been asked and what is still to be asked are one descending list.       *)
(* CancelledIsNotAsked needs that a task in priv->tasks has not been begun *)
(* and that the one being carried out is not in it (Places), so that its   *)
(* flag, once read, is not set any more.                                   *)
(***************************************************************************)
EXTENDS Albumart, TLAPS

\* Lists of nodes, each name once: lowest priority first, and highest first.
Ascending(s) ==
  \A i, j \in DOMAIN s : i < j => s[i].prio <= s[j].prio /\ s[i].name # s[j].name

Descending(s) ==
  \A i, j \in DOMAIN s : i < j => s[i].prio >= s[j].prio /\ s[i].name # s[j].name

\* The manager's list, also when the main loop is in the middle of it.
InOrder ==
  /\ Ascending(handlers)
  /\ adding # None => \A i \in DOMAIN handlers : handlers[i].name # adding.name
  /\ Reading => reads > 0

\* A task is in the list until it is begun, and nothing is done for it before.
Places ==
  /\ cur = 0 <=> pc = "idle"
  /\ cur \notin waiting
  /\ pc = "started" <=> cur \in tasks
  /\ \A h \in Handle : h > num \/ h \in tasks => asked[h] = <<>> /\ finished[h] = 0
  /\ \A h \in tasks \cup found \cup {cur} : h # 0 => requests[h] \in Request
  /\ found \subseteq 1..num
  /\ cur # 0 => finished[cur] = 0

\* The task being carried out.
Begun ==
  /\ pc \in {"look", "list", "copy"} => asked[cur] = <<>>
  /\ pc \in {"look", "list", "copy", "ask"} => cur \notin unqueued
  /\ pc = "ask" => Descending(asked[cur] \o todo)

\* A picture that was found is there until it is deleted.
Found == \A h \in found : DaemonPath(requests[h]) \in arts

IInv ==
  /\ TypeOK
  /\ InOrder
  /\ Places
  /\ Begun
  /\ Found
  /\ AskedByPriority
  /\ \A h \in unqueued : asked[h] = <<>>

-----------------------------------------------------------------------------
(* Lists.                                                                    *)

\* The parts of a list.
LEMMA Parts ==
  ASSUME NEW S, NEW s \in Seq(S), NEW i \in 1..(Len(s) + 1), NEW k \in {i, i + 1}
  PROVE  /\ Len(s) \in Nat /\ DOMAIN s = 1..Len(s)
         /\ SubSeq(s, 1, i - 1) \in Seq(S) /\ Len(SubSeq(s, 1, i - 1)) = i - 1
         /\ \A j \in 1..(i - 1) : SubSeq(s, 1, i - 1)[j] = s[j]
         /\ k <= Len(s) + 1 =>
              /\ SubSeq(s, k, Len(s)) \in Seq(S) /\ Len(SubSeq(s, k, Len(s))) = Len(s) - k + 1
              /\ \A j \in 1..(Len(s) - k + 1) : SubSeq(s, k, Len(s))[j] = s[k + j - 1]
<1>1. Len(s) \in Nat /\ DOMAIN s = 1..Len(s)
  OBVIOUS
<1>2. \A j \in 1..Len(s) : s[j] \in S
  OBVIOUS
<1>3. /\ SubSeq(s, 1, i - 1) \in Seq(S) /\ Len(SubSeq(s, 1, i - 1)) = i - 1
      /\ \A j \in 1..(i - 1) : SubSeq(s, 1, i - 1)[j] = s[j]
  BY <1>1, <1>2
<1>4. ASSUME k <= Len(s) + 1
      PROVE  /\ SubSeq(s, k, Len(s)) \in Seq(S) /\ Len(SubSeq(s, k, Len(s))) = Len(s) - k + 1
             /\ \A j \in 1..(Len(s) - k + 1) : SubSeq(s, k, Len(s))[j] = s[k + j - 1]
  BY <1>1, <1>2, <1>4
<1> QED
  BY <1>1, <1>3, <1>4

LEMMA Joined ==
  ASSUME NEW S, NEW a \in Seq(S), NEW b \in Seq(S)
  PROVE  /\ a \o b \in Seq(S) /\ Len(a \o b) = Len(a) + Len(b)
         /\ Len(a) \in Nat /\ Len(b) \in Nat /\ DOMAIN (a \o b) = 1..(Len(a) + Len(b))
         /\ \A j \in 1..(Len(a) + Len(b)) :
              (a \o b)[j] = IF j <= Len(a) THEN a[j] ELSE b[j - Len(a)]
OBVIOUS

\* g_list_remove_link keeps the order.
LEMMA RemoveKeepsOrder ==
  ASSUME NEW s \in Seq(Node), Ascending(s), NEW i \in DOMAIN s
  PROVE  /\ RemoveAt(s, i) \in Seq(Node)
         /\ Ascending(RemoveAt(s, i))
         /\ \A j \in DOMAIN RemoveAt(s, i) : RemoveAt(s, i)[j].name # s[i].name
<1> DEFINE t == RemoveAt(s, i)
           a == SubSeq(s, 1, i - 1)
           b == SubSeq(s, i + 1, Len(s))
<1>0. Len(s) \in Nat /\ i \in 1..Len(s) /\ i \in 1..(Len(s) + 1) /\ DOMAIN s = 1..Len(s)
  OBVIOUS
<1>1. /\ a \in Seq(Node) /\ Len(a) = i - 1 /\ \A j \in 1..(i - 1) : a[j] = s[j]
      /\ b \in Seq(Node) /\ Len(b) = Len(s) - i /\ \A j \in 1..(Len(s) - i) : b[j] = s[i + j]
  <2> DEFINE k == i + 1
  <2>1. k <= Len(s) + 1 /\ k \in {i, i + 1} /\ Len(s) - k + 1 = Len(s) - i
        /\ \A j \in Int : k + j - 1 = i + j
    BY <1>0
  <2>2. /\ a \in Seq(Node) /\ Len(a) = i - 1 /\ \A j \in 1..(i - 1) : a[j] = s[j]
    BY <1>0, Parts
  <2>3. /\ SubSeq(s, k, Len(s)) \in Seq(Node) /\ Len(SubSeq(s, k, Len(s))) = Len(s) - k + 1
        /\ \A j \in 1..(Len(s) - k + 1) : SubSeq(s, k, Len(s))[j] = s[k + j - 1]
    <3> HIDE DEF k
    <3> QED
      BY <1>0, <2>1, Parts
  <2>4. /\ b \in Seq(Node) /\ Len(b) = Len(s) - i
    BY <2>1, <2>3
  <2>5. ASSUME NEW j \in 1..(Len(s) - i) PROVE b[j] = s[i + j]
    <3>1. k + j - 1 = i + j /\ j \in 1..(Len(s) - k + 1) /\ b = SubSeq(s, k, Len(s))
      BY <1>0, <2>1
    <3> HIDE DEF k, b
    <3> QED
      BY <2>3, <3>1
  <2> QED
    BY <2>2, <2>4, <2>5
<1>2. t = a \o b
  BY DEF RemoveAt
<1> HIDE DEF a, b, t
<1>3. /\ t \in Seq(Node) /\ Len(t) = Len(s) - 1 /\ DOMAIN t = 1..Len(t)
      /\ \A j \in 1..Len(t) : t[j] = IF j < i THEN s[j] ELSE s[j + 1]
  <2>1. /\ t \in Seq(Node) /\ Len(t) = Len(s) - 1 /\ DOMAIN t = 1..Len(t)
        /\ \A j \in 1..Len(t) : t[j] = IF j <= i - 1 THEN a[j] ELSE b[j - (i - 1)]
    <3>1. Len(a) + Len(b) = Len(s) - 1
      BY <1>0, <1>1
    <3>2. /\ a \o b \in Seq(Node) /\ Len(a \o b) = Len(a) + Len(b)
          /\ DOMAIN (a \o b) = 1..(Len(a) + Len(b))
          /\ \A j \in 1..(Len(a) + Len(b)) :
               (a \o b)[j] = IF j <= Len(a) THEN a[j] ELSE b[j - Len(a)]
      BY <1>1, Joined
    <3> QED
      BY <1>1, <1>2, <3>1, <3>2
  <2>2. ASSUME NEW j \in 1..Len(t), j < i
        PROVE  t[j] = s[j]
    BY <1>0, <1>1, <2>1, <2>2
  <2>3. ASSUME NEW j \in 1..Len(t), ~(j < i)
        PROVE  t[j] = s[j + 1]
    <3>1. j - (i - 1) \in 1..(Len(s) - i) /\ i + (j - (i - 1)) = j + 1 /\ ~(j <= i - 1)
      BY <1>0, <2>1, <2>3
    <3> QED
      BY <1>1, <2>1, <3>1
  <2> QED
    BY <2>1, <2>2, <2>3
<1>4. ASSUME NEW j \in 1..Len(t)
      PROVE  \E k \in 1..Len(s) : /\ k # i /\ t[j] = s[k]
                                  /\ k = IF j < i THEN j ELSE j + 1
  BY <1>0, <1>3
<1>5. Ascending(t)
  <2> SUFFICES ASSUME NEW j \in 1..Len(t), NEW l \in 1..Len(t), j < l
               PROVE  t[j].prio <= t[l].prio /\ t[j].name # t[l].name
    BY <1>3 DEF Ascending
  <2> DEFINE x == IF j < i THEN j ELSE j + 1
             y == IF l < i THEN l ELSE l + 1
  <2>1. x \in 1..Len(s) /\ y \in 1..Len(s) /\ x < y /\ t[j] = s[x] /\ t[l] = s[y]
    BY <1>0, <1>3
  <2> HIDE DEF x, y
  <2> QED
    BY <1>0, <2>1 DEF Ascending
<1>6. \A j \in DOMAIN t : t[j].name # s[i].name
  <2> SUFFICES ASSUME NEW j \in 1..Len(t) PROVE t[j].name # s[i].name
    BY <1>3
  <2>1. PICK k \in 1..Len(s) : k # i /\ t[j] = s[k]
    BY <1>4
  <2>2. k < i \/ i < k
    BY <1>0, <2>1
  <2> QED
    BY <1>0, <2>1, <2>2 DEF Ascending
<1> QED
  BY <1>3, <1>5, <1>6 DEF t

\* g_list_insert_sorted keeps it too.
LEMMA InsertKeepsOrder ==
  ASSUME NEW s \in Seq(Node), Ascending(s), NEW n \in Node,
         \A j \in DOMAIN s : s[j].name # n.name,
         NEW i \in 1..(Len(s) + 1),
         \A j \in 1..(i - 1) : s[j].prio < n.prio,
         i <= Len(s) => s[i].prio >= n.prio
  PROVE  InsertAt(s, i, n) \in Seq(Node) /\ Ascending(InsertAt(s, i, n))
<1> DEFINE t == InsertAt(s, i, n)
           a == SubSeq(s, 1, i - 1)
           b == SubSeq(s, i, Len(s))
<1>0. Len(s) \in Nat /\ DOMAIN s = 1..Len(s)
  OBVIOUS
<1>1. /\ a \in Seq(Node) /\ Len(a) = i - 1 /\ \A j \in 1..(i - 1) : a[j] = s[j]
      /\ b \in Seq(Node) /\ Len(b) = Len(s) - i + 1
      /\ \A j \in 1..(Len(s) - i + 1) : b[j] = s[i + j - 1]
  BY <1>0, Parts
<1>2. t = a \o <<n>> \o b
  BY DEF InsertAt
<1> HIDE DEF a, b, t
<1>3. /\ a \o <<n>> \in Seq(Node) /\ Len(a \o <<n>>) = i
      /\ \A j \in 1..i : (a \o <<n>>)[j] = IF j < i THEN s[j] ELSE n
  BY <1>0, <1>1
<1>4. /\ t \in Seq(Node) /\ Len(t) = Len(s) + 1 /\ DOMAIN t = 1..Len(t)
      /\ \A j \in 1..Len(t) : t[j] = IF j < i THEN s[j] ELSE IF j = i THEN n ELSE s[j - 1]
  <2> DEFINE c == a \o <<n>>
  <2>1. /\ t \in Seq(Node) /\ Len(t) = Len(s) + 1 /\ DOMAIN t = 1..Len(t)
        /\ \A j \in 1..Len(t) : t[j] = IF j <= i THEN c[j] ELSE b[j - i]
    <3>1. i + Len(b) = Len(s) + 1 /\ t = c \o b
      BY <1>0, <1>1, <1>2
    <3> HIDE DEF c
    <3>2. c \in Seq(Node) /\ Len(c) = i
      BY <1>3 DEF c
    <3>3. /\ c \o b \in Seq(Node) /\ Len(c \o b) = Len(c) + Len(b)
          /\ DOMAIN (c \o b) = 1..(Len(c) + Len(b))
          /\ \A j \in 1..(Len(c) + Len(b)) :
               (c \o b)[j] = IF j <= Len(c) THEN c[j] ELSE b[j - Len(c)]
      <4>1. b \in Seq(Node)
        BY <1>1
      <4> QED
        BY <3>2, <4>1, Joined, Zenon
    <3> QED
      BY <3>1, <3>2, <3>3
  <2>2. ASSUME NEW j \in 1..Len(t), j > i
        PROVE  t[j] = s[j - 1]
    <3>0. j \in Int /\ i \in Int /\ j <= Len(s) + 1
      BY <1>0, <2>1
    <3>1. j - i \in 1..(Len(s) - i + 1) /\ i + (j - i) - 1 = j - 1 /\ ~(j <= i)
      BY <1>0, <2>2, <3>0
    <3> QED
      BY <1>1, <2>1, <3>1
  <2>3. ASSUME NEW j \in 1..Len(t), j <= i
        PROVE  t[j] = IF j < i THEN s[j] ELSE n
    BY <1>0, <1>3, <2>1, <2>3
  <2> QED
    BY <1>0, <2>1, <2>2, <2>3
<1>5. n.prio \in Int /\ \A j \in 1..Len(s) : s[j].prio \in Int
  <2>1. \A x \in Node : x.prio \in Int
    BY AlbumartAssumption DEF Node
  <2> QED
    BY <1>0, <2>1
<1>6. \A j \in 1..Len(s) : j < i => s[j].prio <= n.prio
  BY <1>0, <1>5
<1>7. \A j \in 1..Len(s) : j >= i => n.prio <= s[j].prio
  BY <1>0, <1>5 DEF Ascending
<1>8. ASSUME NEW j \in 1..Len(t), NEW k \in 1..Len(t), j < k
      PROVE  t[j].prio <= t[k].prio /\ t[j].name # t[k].name
  <2>1. CASE j # i /\ k # i
    <3> DEFINE l == IF j < i THEN j ELSE j - 1
               m == IF k < i THEN k ELSE k - 1
    <3>1. l \in 1..Len(s) /\ m \in 1..Len(s) /\ l < m
      BY <1>0, <1>4, <1>8, <2>1
    <3>2. t[j] = s[l] /\ t[k] = s[m]
      BY <1>0, <1>4, <1>8, <2>1
    <3> HIDE DEF l, m
    <3> QED
      BY <1>0, <3>1, <3>2 DEF Ascending
  <2>2. CASE k = i
    <3>1. j \in 1..Len(s) /\ j < i /\ t[j] = s[j] /\ t[k] = n
      BY <1>0, <1>4, <1>8, <2>2
    <3> QED
      BY <1>0, <1>6, <3>1
  <2>3. CASE j = i
    <3>1. k - 1 \in 1..Len(s) /\ k - 1 >= i /\ t[k] = s[k - 1] /\ t[j] = n
      BY <1>0, <1>4, <1>8, <2>3
    <3> QED
      BY <1>0, <1>7, <3>1
  <2> QED
    BY <2>1, <2>2, <2>3
<1> QED
  BY <1>4, <1>8 DEF Ascending, t

\* A list walked from any of its nodes, and turned round, descends.
LEMMA ReversedDescends ==
  ASSUME NEW s \in Seq(Node), Ascending(s), NEW i \in DOMAIN s
  PROVE  /\ Reverse(SubSeq(s, i, Len(s))) \in Seq(Node)
         /\ Descending(Reverse(SubSeq(s, i, Len(s))))
<1> DEFINE u == SubSeq(s, i, Len(s))
           t == Reverse(u)
<1>0. Len(s) \in Nat /\ i \in 1..Len(s) /\ i \in 1..(Len(s) + 1) /\ DOMAIN s = 1..Len(s)
  OBVIOUS
<1>1. /\ u \in Seq(Node) /\ Len(u) = Len(s) - i + 1
      /\ \A j \in 1..(Len(s) - i + 1) : u[j] = s[i + j - 1]
  BY <1>0, Parts
<1>2. t = [j \in 1..Len(u) |-> u[Len(u) - j + 1]]
  BY DEF Reverse
<1> HIDE DEF u, t
<1>3. \A j \in 1..Len(u) : Len(u) - j + 1 \in 1..Len(u) /\ u[Len(u) - j + 1] \in Node
  BY <1>0, <1>1
<1>4. t \in Seq(Node) /\ Len(t) = Len(u) /\ DOMAIN t = 1..Len(t)
  BY <1>0, <1>1, <1>2, <1>3
<1>5. \A j \in 1..Len(t) : Len(s) - j + 1 \in i..Len(s) /\ t[j] = s[Len(s) - j + 1]
  <2> TAKE j \in 1..Len(t)
  <2>1. t[j] = u[Len(u) - j + 1] /\ Len(u) - j + 1 \in 1..(Len(s) - i + 1)
    BY <1>0, <1>1, <1>2, <1>4
  <2>0. j \in Int /\ i \in Int /\ 1 <= j /\ j <= Len(s) - i + 1 /\ Len(u) = Len(s) - i + 1
    BY <1>0, <1>1, <1>4
  <2>2. i + (Len(u) - j + 1) - 1 = Len(s) - j + 1 /\ Len(s) - j + 1 \in i..Len(s)
    BY <1>0, <2>0
  <2> QED
    BY <1>1, <2>1, <2>2
<1>6. \A j \in 1..Len(s) : s[j].prio \in Int
  <2>1. \A x \in Node : x.prio \in Int
    BY AlbumartAssumption DEF Node
  <2> QED
    BY <1>0, <2>1
<1>7. ASSUME NEW j \in 1..Len(t), NEW k \in 1..Len(t), j < k
      PROVE  t[j].prio >= t[k].prio /\ t[j].name # t[k].name
  <2> DEFINE l == Len(s) - j + 1
             m == Len(s) - k + 1
  <2>1. l \in 1..Len(s) /\ m \in 1..Len(s) /\ m < l /\ t[j] = s[l] /\ t[k] = s[m]
    BY <1>0, <1>1, <1>4, <1>5, <1>7
  <2> HIDE DEF l, m
  <2> QED
    BY <1>0, <1>6, <2>1 DEF Ascending
<1> QED
  BY <1>4, <1>7 DEF Descending, t, u

\* The next provider is taken from what is to be asked to what was asked.
LEMMA NextAsked ==
  ASSUME NEW a \in Seq(Node), NEW b \in Seq(Node), b # <<>>, Descending(a \o b)
  PROVE  /\ Append(a, Head(b)) \in Seq(Node) /\ Tail(b) \in Seq(Node)
         /\ Descending(Append(a, Head(b)) \o Tail(b))
         /\ Descending(Append(a, Head(b)))
<1>1. /\ Append(a, Head(b)) \in Seq(Node) /\ Tail(b) \in Seq(Node)
      /\ Len(Append(a, Head(b))) = Len(a) + 1 /\ Len(a) + 1 <= Len(a \o b)
  OBVIOUS
<1>2. Append(a, Head(b)) \o Tail(b) = a \o b
  OBVIOUS
<1>3. \A j \in 1..(Len(a) + 1) : Append(a, Head(b))[j] = (a \o b)[j]
  OBVIOUS
<1>4. Descending(Append(a, Head(b)))
  BY <1>1, <1>3 DEF Descending
<1> QED
  BY <1>1, <1>2, <1>4

-----------------------------------------------------------------------------
(* Paths.                                                                    *)

\* The daemon's path of a request is one of the client's, and the same where the
\* kind counts.
LEMMA PathsAgree ==
  ASSUME NEW r \in Request
  PROVE  /\ DaemonPath(r) \in {ClientPath(x) : x \in Request}
         /\ r.album # None \/ r.kind = "album" => DaemonPath(r) = ClientPath(r)
<1>1. /\ r.artist \in Name \cup {None} /\ r.album \in Name \cup {None}
      /\ r.kind \in Kind /\ (r.artist # None \/ r.album # None)
  BY DEF Request
<1>2. \A x \in Name \cup {None} : FromBus(OnBus(x)) = x
  BY AlbumartAssumption DEF FromBus, OnBus
<1>3. r.album # None => KindUsed(OnBus(r.album), r.kind) = r.kind
  BY <1>1, AlbumartAssumption DEF KindUsed, OnBus
<1>4. r.album = None => KindUsed(OnBus(r.album), r.kind) = "album"
  BY DEF KindUsed, OnBus
<1>5. r.album # None \/ r.kind = "album" => DaemonPath(r) = ClientPath(r)
  BY <1>1, <1>2, <1>3, <1>4 DEF DaemonPath, ClientPath
<1>6. ASSUME r.album = None
      PROVE  DaemonPath(r) \in {ClientPath(x) : x \in Request}
  <2> DEFINE x == [artist |-> r.artist, album |-> r.album, kind |-> "album"]
  <2>1. x \in Request
    BY <1>1 DEF Request, Kind
  <2>2. DaemonPath(r) = ClientPath(x)
    BY <1>1, <1>2, <1>4, <1>6 DEF DaemonPath, ClientPath
  <2> QED
    BY <2>1, <2>2
<1> QED
  BY <1>5, <1>6

-----------------------------------------------------------------------------
(* The steps.                                                                *)

LEMMA Bounds ==
  /\ MaxTasks \in Nat /\ MaxChanges \in Nat /\ MaxReads \in Nat /\ MaxReads > 0
  /\ 0 \in 0..MaxTasks /\ 0 \in 0..MaxChanges /\ 0 \in 0..MaxReads
<1>1. MaxTasks \in Nat /\ MaxChanges \in Nat /\ MaxReads \in Nat \ {0}
  BY AlbumartAssumption, Zenon
<1> QED
  BY <1>1

LEMMA InitIInv == Init => IInv
<1> SUFFICES ASSUME Init PROVE IInv
  OBVIOUS
<1> USE DEF Init
<1>1. handlers \in Seq(Node) /\ todo \in Seq(Node) /\ asked \in [Handle -> Seq(Node)]
  <2>1. <<>> \in Seq(Node)
    OBVIOUS
  <2> QED
    BY <2>1
<1>2. /\ num \in 0..MaxTasks /\ reads \in 0..MaxReads /\ changes \in 0..MaxChanges
      /\ num = 0 /\ cur = 0
  BY Bounds, Zenon
<1>3. TypeOK
  <2>1. cur \in 0..num /\ finished \in [Handle -> 0..1] /\ waiting \subseteq tasks
        /\ tasks \subseteq 1..num /\ unqueued \subseteq 1..num
    BY <1>2
  <2> QED
    BY <1>1, <1>2, <2>1 DEF TypeOK
<1>4. InOrder /\ Places /\ Begun /\ Found
  BY DEF InOrder, Reading, Ascending, Places, Begun, Found
<1>5. AskedByPriority
  <2>1. \A h \in Handle : DOMAIN asked[h] = {}
    OBVIOUS
  <2> QED
    BY <2>1 DEF AskedByPriority
<1> QED
  BY <1>3, <1>4, <1>5 DEF IInv

\* The part of the invariant about the manager.
ManagerOK ==
  /\ providers \in [Provider -> Priority \cup {None}]
  /\ changed \in BOOLEAN /\ changes \in 0..MaxChanges
  /\ handlers \in Seq(Node) /\ reads \in 0..MaxReads
  /\ unread \subseteq Provider /\ adding \in Node \cup {None}
  /\ InOrder

\* And about the tasks.
TasksTyped ==
  /\ num \in 0..MaxTasks
  /\ requests \in [Handle -> Request \cup {None}]
  /\ waiting \subseteq tasks
  /\ tasks \subseteq 1..num
  /\ unqueued \subseteq 1..num
  /\ pc \in {"idle", "started", "look", "list", "copy", "ask", "done", "crashed"}
  /\ cur \in 0..num
  /\ head \in {NodeOf(n) : n \in Node} \cup {None}
  /\ todo \in Seq(Node)
  /\ arts \subseteq {ClientPath(r) : r \in Request}
  /\ asked \in [Handle -> Seq(Node)]
  /\ found \subseteq Handle
  /\ finished \in [Handle -> 0..1]

TasksOK ==
  /\ TasksTyped
  /\ Places
  /\ Begun
  /\ Found
  /\ AskedByPriority
  /\ \A h \in unqueued : asked[h] = <<>>

LEMMA TwoParts == IInv <=> ManagerOK /\ TasksOK
<1>1. TypeOK <=> TasksTyped /\ /\ providers \in [Provider -> Priority \cup {None}]
                               /\ changed \in BOOLEAN /\ changes \in 0..MaxChanges
                               /\ handlers \in Seq(Node) /\ reads \in 0..MaxReads
                               /\ unread \subseteq Provider /\ adding \in Node \cup {None}
  BY Zenon DEF TypeOK, TasksTyped
<1> QED
  BY <1>1, Zenon DEF IInv, ManagerOK, TasksOK

LEMMA TasksOKStays ==
  ASSUME TasksOK, UNCHANGED <<queueVars, workVars, arts, historyVars>>
  PROVE  TasksOK'
<1>0. /\ num' = num /\ requests' = requests /\ tasks' = tasks /\ unqueued' = unqueued
      /\ waiting' = waiting /\ pc' = pc /\ cur' = cur /\ head' = head /\ todo' = todo
      /\ arts' = arts /\ asked' = asked /\ found' = found /\ finished' = finished
  BY DEF queueVars, workVars, historyVars
<1>1. TasksTyped'
  BY <1>0 DEF TasksOK, TasksTyped
<1>2. Places'
  BY <1>0 DEF TasksOK, Places
<1>3. Begun'
  BY <1>0 DEF TasksOK, Begun, Descending
<1>4. Found'
  BY <1>0 DEF TasksOK, Found
<1>5. AskedByPriority' /\ (\A h \in unqueued : asked[h] = <<>>)'
  BY <1>0 DEF TasksOK, AskedByPriority
<1> QED
  BY <1>1, <1>2, <1>3, <1>4, <1>5 DEF TasksOK

LEMMA ManagerOKStays ==
  ASSUME ManagerOK, UNCHANGED managerVars
  PROVE  ManagerOK'
BY DEF ManagerOK, InOrder, Reading, Ascending, managerVars, fileVars, readVars

\* The main loop reads the directory: a node is taken out, another put in.
LEMMA ReadKeeps ==
  ASSUME ManagerOK, Read
  PROVE  ManagerOK'
<1>1. /\ handlers \in Seq(Node) /\ reads \in 0..MaxReads /\ unread \subseteq Provider
      /\ adding \in Node \cup {None} /\ Ascending(handlers) /\ UNCHANGED <<fileVars, reads>>
      /\ providers \in [Provider -> Priority \cup {None}]
  BY DEF ManagerOK, InOrder, Read, Insert, ReadFile
<1>2. /\ handlers' \in Seq(Node) /\ adding' \in Node \cup {None} /\ unread' \subseteq Provider
      /\ Ascending(handlers')
      /\ adding' # None => \A i \in DOMAIN handlers' : handlers'[i].name # adding'.name
      /\ reads > 0
  <2>1. CASE Insert
    <3>1. adding \in Node /\ UNCHANGED unread /\ adding' = None /\ reads > 0
      BY <1>1, <2>1 DEF Insert, ManagerOK, InOrder, Reading
    <3>2. \A j \in DOMAIN handlers : handlers[j].name # adding.name
      BY <2>1 DEF Insert, ManagerOK, InOrder
    <3>3. PICK i \in 1..(Len(handlers) + 1) :
             /\ \A j \in 1..(i - 1) : handlers[j].prio < adding.prio
             /\ i <= Len(handlers) => handlers[i].prio >= adding.prio
             /\ handlers' = InsertAt(handlers, i, adding)
      BY <2>1 DEF Insert, Smaller
    <3>4. handlers' \in Seq(Node) /\ Ascending(handlers')
      BY <1>1, <3>1, <3>2, <3>3, InsertKeepsOrder
    <3> QED
      BY <1>1, <3>1, <3>4
  <2>2. ASSUME NEW p \in Provider, ReadFile(p)
        PROVE  /\ handlers' \in Seq(Node) /\ adding' \in Node \cup {None}
               /\ unread' \subseteq Provider /\ Ascending(handlers')
               /\ adding' # None => \A i \in DOMAIN handlers' : handlers'[i].name # adding'.name
               /\ reads > 0
    <3>1. unread' \subseteq Provider /\ adding = None /\ reads > 0
      BY <1>1, <2>2 DEF ReadFile, ManagerOK, InOrder, Reading
    <3>2. CASE UNCHANGED <<handlers, adding>>
      BY <1>1, <3>1, <3>2
    <3>3. ASSUME providers[p] # None
          PROVE  [name |-> p, prio |-> providers[p], read |-> reads] \in Node
      <4>1. reads \in 1..MaxReads
        BY <1>1, <3>1, Bounds
      <4>2. providers[p] \in Priority
        BY <1>1, <3>3
      <4> QED
        BY <4>1, <4>2 DEF Node
    <3>4. CASE /\ providers[p] # None
               /\ adding' = [name |-> p, prio |-> providers[p], read |-> reads]
               /\ \A i \in DOMAIN handlers : handlers[i].name # p
               /\ UNCHANGED handlers
      BY <1>1, <3>1, <3>3, <3>4
    <3>5. ASSUME /\ providers[p] # None
                 /\ adding' = [name |-> p, prio |-> providers[p], read |-> reads],
                 NEW i \in DOMAIN handlers, handlers[i].name = p, handlers' = RemoveAt(handlers, i)
          PROVE  /\ handlers' \in Seq(Node) /\ adding' \in Node \cup {None}
                 /\ Ascending(handlers')
                 /\ \A j \in DOMAIN handlers' : handlers'[j].name # adding'.name
      <4>1. /\ RemoveAt(handlers, i) \in Seq(Node) /\ Ascending(RemoveAt(handlers, i))
            /\ \A j \in DOMAIN RemoveAt(handlers, i) :
                 RemoveAt(handlers, i)[j].name # handlers[i].name
        BY <1>1, RemoveKeepsOrder
      <4> QED
        BY <3>3, <3>5, <4>1
    <3> QED
      BY <2>2, <3>1, <3>2, <3>4, <3>5 DEF ReadFile
  <2> QED
    BY <2>1, <2>2 DEF Read
<1>3. InOrder'
  BY <1>1, <1>2 DEF InOrder
<1> QED
  BY <1>1, <1>2, <1>3 DEF ManagerOK, fileVars

\* It is opened, or a file changes.
LEMMA OpenKeeps ==
  ASSUME ManagerOK,
         \/ OpenDir /\ changed' \in BOOLEAN /\ UNCHANGED <<providers, changes>>
         \/ \E p \in Provider : ProviderChanges(p)
  PROVE  ManagerOK'
<1>1. CASE OpenDir /\ changed' \in BOOLEAN /\ UNCHANGED <<providers, changes>>
  <2>1. /\ reads' \in 0..MaxReads /\ reads' > 0 /\ unread' \subseteq Provider
        /\ UNCHANGED <<handlers, adding>>
    <3>1. reads \in 0..MaxReads /\ reads < MaxReads /\ reads' = reads + 1
      BY <1>1 DEF OpenDir, ManagerOK
    <3>2. reads' \in 0..MaxReads /\ reads' > 0
      BY <3>1, Bounds
    <3> QED
      BY <1>1, <3>2 DEF OpenDir, ManagerOK
  <2> QED
    BY <1>1, <2>1 DEF ManagerOK, InOrder, Ascending
<1>2. ASSUME NEW p \in Provider, ProviderChanges(p)
      PROVE  ManagerOK'
  <2>1. /\ providers' \in [Provider -> Priority \cup {None}] /\ changes' \in 0..MaxChanges
        /\ changed' \in BOOLEAN /\ UNCHANGED readVars
    <3>1. changes' \in 0..MaxChanges
      <4>1. changes \in 0..MaxChanges /\ changes < MaxChanges /\ changes' = changes + 1
        BY <1>2 DEF ProviderChanges, ManagerOK
      <4> QED
        BY <4>1, Bounds
    <3> QED
      BY <1>2, <3>1 DEF ProviderChanges, ManagerOK
  <2> QED
    BY <2>1 DEF ManagerOK, readVars, InOrder, Reading, Ascending
<1> QED
  BY <1>1, <1>2

-----------------------------------------------------------------------------
(* The tasks.                                                                *)

\* The handles up to the counter's.
LEMMA Handles ==
  ASSUME TasksTyped
  PROVE  /\ num \in Nat /\ cur \in Nat /\ 1..num \subseteq Handle
         /\ num < MaxTasks => num + 1 \in Handle /\ num + 1 \in 0..MaxTasks
         /\ tasks \subseteq Handle /\ unqueued \subseteq Handle
         /\ num \notin {k \in Handle : k > num} /\ \A h \in 1..num : ~(h > num)
         /\ num + 1 \notin tasks /\ cur # num + 1 /\ num + 1 \notin unqueued
         /\ cur # 0 => cur \in Handle
<1>1. num \in 0..MaxTasks /\ MaxTasks \in Nat /\ cur \in 0..num
  BY Bounds DEF TasksTyped
<1>2. tasks \subseteq 1..num /\ unqueued \subseteq 1..num
  BY DEF TasksTyped
<1>3. 1..num \subseteq Handle
  BY <1>1 DEF Handle
<1> QED
  BY <1>1, <1>2, <1>3 DEF Handle

LEMMA QueueNothingKeeps ==
  ASSUME TasksOK, QueueNothing
  PROVE  TasksOK'
<1>1. /\ TasksTyped /\ num < MaxTasks /\ num' = num + 1
      /\ UNCHANGED <<requests, tasks, unqueued, waiting, workVars, arts, historyVars>>
  BY DEF TasksOK, QueueNothing
<1>2. num \in Nat /\ num' \in 0..MaxTasks /\ 1..num \subseteq 1..num' /\ 0..num \subseteq 0..num'
  BY <1>1, Handles
<1>3. TasksTyped'
  BY <1>1, <1>2 DEF TasksTyped, workVars, historyVars
<1>4. Places'
  <2>1. \A h \in Handle : h > num' => h > num
    BY <1>1, <1>2 DEF Handle
  <2> QED
    BY <1>1, <1>2, <2>1 DEF TasksOK, Places, workVars, historyVars
<1>5. Begun' /\ Found' /\ AskedByPriority' /\ (\A h \in unqueued : asked[h] = <<>>)'
  BY <1>1 DEF TasksOK, Begun, Found, AskedByPriority, workVars, historyVars, Descending
<1> QED
  BY <1>3, <1>4, <1>5 DEF TasksOK

LEMMA QueueKeeps ==
  ASSUME TasksOK, NEW r \in Wanted, NEW h \in 0..MaxTasks, Queue(r, h)
  PROVE  TasksOK'
<1> DEFINE n == num + 1
<1>1. /\ TasksTyped /\ num < MaxTasks /\ num' = n
      /\ requests' = [requests EXCEPT ![n] = r]
      /\ unqueued' = unqueued \cup ({h} \cap tasks)
      /\ tasks' = tasks \cup {n} /\ waiting' = waiting \cup {n}
      /\ UNCHANGED <<workVars, arts, historyVars>>
  BY DEF TasksOK, Queue, MarkUnqueued
<1>2. /\ num \in Nat /\ n \in 0..MaxTasks /\ 1..num \subseteq 1..n /\ 0..num \subseteq 0..n
      /\ n \in Handle /\ n \in 1..n /\ n \notin tasks /\ n # cur /\ n # 0 /\ cur \in Nat
      /\ \A k \in Handle : k > n => k > num
      /\ n > num /\ tasks \subseteq Handle
  BY <1>1, Handles DEF Handle
<1>3. r \in Request
  BY WantedAssumption
<1> HIDE DEF n
<1>4. TasksTyped'
  <2>1. requests' \in [Handle -> Request \cup {None}]
    BY <1>1, <1>2, <1>3 DEF TasksTyped
  <2>2. waiting' \subseteq tasks' /\ tasks' \subseteq 1..num' /\ unqueued' \subseteq 1..num' /\ cur' \in 0..num'
    BY <1>1, <1>2 DEF TasksTyped, workVars
  <2> QED
    BY <1>1, <1>2, <2>1, <2>2 DEF TasksTyped, workVars, historyVars
<1>5. \A k \in Handle : requests'[k] = (IF k = n THEN r ELSE requests[k])
  BY <1>1 DEF TasksTyped
<1>6. asked[n] = <<>> /\ n \notin found /\ finished[n] = 0 /\ found \subseteq 1..num
  BY <1>2, <1>1 DEF TasksOK, Places
<1>7. Places'
  <2>1. /\ cur = 0 <=> pc = "idle"
        /\ pc = "started" <=> cur \in tasks
        /\ cur \notin waiting /\ (cur # 0 => finished[cur] = 0)
        /\ \A k \in Handle : k > num \/ k \in tasks => asked[k] = <<>> /\ finished[k] = 0
        /\ \A k \in tasks \cup found \cup {cur} : k # 0 => requests[k] \in Request
    BY DEF TasksOK, Places
  <2>2. \A k \in Handle : k > num' \/ k \in tasks' => asked[k] = <<>> /\ finished[k] = 0
    BY <1>1, <1>2, <1>6, <2>1
  <2>3. ASSUME NEW k \in tasks' \cup found \cup {cur}, k # 0
        PROVE  requests'[k] \in Request
    <3>1. k = n \/ k \in tasks \cup found \cup {cur}
      BY <1>1, <2>3
    <3>2. k \in Handle
      BY <1>1, <1>2, <2>3, <3>1, Handles DEF TasksTyped
    <3> QED
      BY <1>3, <1>5, <2>1, <2>3, <3>1, <3>2
  <2>4. cur \notin waiting' /\ (pc = "started" <=> cur \in tasks')
    BY <1>1, <1>2, <2>1
  <2>5. found \subseteq 1..num'
    BY <1>1, <1>2, <1>6
  <2> QED
    BY <1>1, <2>1, <2>2, <2>3, <2>4, <2>5 DEF Places, workVars, historyVars
<1>8. cur \notin unqueued => cur \notin unqueued' \/ cur \in tasks
  BY <1>1
<1>9. Begun'
  <2>1. pc \in {"look", "list", "copy", "ask"} => cur \notin tasks
    BY DEF TasksOK, Places
  <2> QED
    BY <1>1, <1>8, <2>1 DEF TasksOK, Begun, workVars, historyVars, Descending
<1>10. Found'
  <2>1. \A k \in found : requests'[k] = requests[k]
    BY <1>5, <1>6, <1>1 DEF TasksTyped
  <2> QED
    BY <1>1, <2>1 DEF TasksOK, Found, historyVars, DaemonPath
<1>11. AskedByPriority'
  BY <1>1 DEF TasksOK, AskedByPriority, historyVars
<1>12. (\A k \in unqueued : asked[k] = <<>>)'
  <2>1. \A k \in tasks : asked[k] = <<>>
    BY <1>2 DEF TasksOK, Places
  <2> QED
    BY <1>1, <2>1 DEF TasksOK, historyVars
<1> QED
  BY <1>4, <1>7, <1>9, <1>10, <1>11, <1>12 DEF TasksOK

LEMMA UnqueueKeeps ==
  ASSUME TasksOK, NEW h \in Handle, Unqueue(h)
  PROVE  TasksOK'
<1>1. /\ TasksTyped /\ unqueued' = unqueued \cup ({h} \cap tasks)
      /\ UNCHANGED <<num, requests, tasks, waiting, workVars, arts, historyVars>>
  BY DEF TasksOK, Unqueue, MarkUnqueued
<1>2. TasksTyped'
  BY <1>1 DEF TasksTyped, workVars, historyVars
<1>3. Places' /\ Found' /\ AskedByPriority'
  BY <1>1 DEF TasksOK, Places, Found, AskedByPriority, DaemonPath, workVars, historyVars
<1>4. Begun'
  <2>1. pc \in {"look", "list", "copy", "ask"} => cur \notin tasks
    BY DEF TasksOK, Places
  <2> QED
    BY <1>1, <2>1 DEF TasksOK, Begun, workVars, historyVars, Descending
<1>5. (\A k \in unqueued : asked[k] = <<>>)'
  <2>1. \A k \in tasks : asked[k] = <<>>
    BY <1>1, Handles DEF TasksOK, Places
  <2> QED
    BY <1>1, <2>1 DEF TasksOK, historyVars
<1> QED
  BY <1>2, <1>3, <1>4, <1>5 DEF TasksOK

LEMMA DeleteKeeps ==
  ASSUME TasksOK, NEW r \in Wanted, Delete(r)
  PROVE  TasksOK'
<1>1. /\ TasksTyped /\ arts' = arts \ {DeletedPath(r)}
      /\ found' = {h \in found : DaemonPath(requests[h]) # DeletedPath(r)}
      /\ UNCHANGED <<queueVars, workVars, asked, finished>>
  BY DEF TasksOK, Delete
<1>2. TasksTyped'
  BY <1>1 DEF TasksTyped, queueVars, workVars
<1>3. Places' /\ Begun' /\ AskedByPriority' /\ (\A k \in unqueued : asked[k] = <<>>)'
  <2>1. found' \subseteq found
    BY <1>1
  <2> QED
    <3>1. Places'
      <4>1. \A h \in tasks \cup found' \cup {cur} : h \in tasks \cup found \cup {cur}
        BY <2>1
      <4>2. found' \subseteq 1..num
        BY <2>1 DEF TasksOK, Places
      <4> QED
        BY <1>1, <4>1, <4>2 DEF TasksOK, Places, queueVars, workVars
    <3>2. Begun'
      BY <1>1 DEF TasksOK, Begun, Descending, queueVars, workVars
    <3> QED
      BY <1>1, <3>1, <3>2 DEF TasksOK, AskedByPriority, queueVars
<1>4. Found'
  BY <1>1 DEF TasksOK, Found, queueVars, DaemonPath
<1> QED
  BY <1>2, <1>3, <1>4 DEF TasksOK

-----------------------------------------------------------------------------
(* The thread.                                                               *)

LEMMA StartKeeps ==
  ASSUME TasksOK, Start
  PROVE  TasksOK'
<1>1. PICK h \in waiting : cur' = h /\ waiting' = waiting \ {h}
  BY DEF Start
<1>2. /\ TasksTyped /\ pc = "idle" /\ pc' = "started"
      /\ UNCHANGED <<num, requests, tasks, unqueued, head, todo, arts, historyVars>>
  BY DEF TasksOK, Start, Goto
<1>3. h \in tasks /\ h \in 1..num /\ h \in Handle /\ h # 0 /\ h \in 0..num /\ num \in Nat
  BY <1>2, Handles DEF TasksTyped
<1>4. TasksTyped'
  BY <1>1, <1>2, <1>3 DEF TasksTyped, historyVars
<1>5. Places'
  <2>1. /\ \A k \in Handle : k > num \/ k \in tasks => asked[k] = <<>> /\ finished[k] = 0
        /\ \A k \in tasks \cup found \cup {cur} : k # 0 => requests[k] \in Request
        /\ found \subseteq 1..num
    BY DEF TasksOK, Places
  <2> QED
    BY <1>1, <1>2, <1>3, <2>1 DEF Places, historyVars
<1>6. Begun'
  BY <1>2 DEF Begun
<1>7. Found' /\ AskedByPriority' /\ (\A k \in unqueued : asked[k] = <<>>)'
  BY <1>2 DEF TasksOK, Found, AskedByPriority, historyVars
<1> QED
  BY <1>4, <1>5, <1>6, <1>7 DEF TasksOK

LEMMA TakeKeeps ==
  ASSUME TasksOK, Take
  PROVE  TasksOK'
<1>1. /\ TasksTyped /\ pc = "started" /\ tasks' = tasks \ {cur}
      /\ pc' = IF cur \in unqueued THEN "done" ELSE "look"
      /\ UNCHANGED <<num, requests, unqueued, waiting, cur, head, todo, arts, historyVars>>
  BY DEF TasksOK, Take, Goto
<1>2. cur \in tasks /\ cur # 0 /\ cur \in Handle /\ cur \notin waiting
  BY <1>1, Handles DEF TasksOK, Places
<1>3. TasksTyped'
  <2>1. waiting' \subseteq tasks' /\ tasks' \subseteq 1..num'
    BY <1>1, <1>2 DEF TasksTyped
  <2>2. pc' \in {"look", "done"}
    BY <1>1
  <2> QED
    BY <1>1, <2>1, <2>2 DEF TasksTyped, historyVars
<1>4. Places'
  BY <1>1, <1>2 DEF TasksOK, Places, historyVars
<1>5. Begun'
  BY <1>1, <1>2 DEF TasksOK, Places, Begun, historyVars
<1>6. Found' /\ AskedByPriority' /\ (\A k \in unqueued : asked[k] = <<>>)'
  BY <1>1 DEF TasksOK, Found, AskedByPriority, historyVars
<1> QED
  BY <1>3, <1>4, <1>5, <1>6 DEF TasksOK

LEMMA LookKeeps ==
  ASSUME TasksOK, Look
  PROVE  TasksOK'
<1> DEFINE there == DaemonPath(requests[cur]) \in arts
<1>1. /\ TasksTyped /\ pc = "look" /\ pc' = IF there THEN "done" ELSE "list"
      /\ found' = IF there THEN found \cup {cur} ELSE found
      /\ UNCHANGED <<queueVars, cur, head, todo, arts, asked, finished>>
  BY DEF TasksOK, Look, Goto
<1>2. cur # 0 /\ cur \in Handle /\ cur \in 1..num
  <2>1. cur # 0 /\ cur \in 0..num /\ num \in Nat
    BY <1>1, Handles DEF TasksOK, Places, TasksTyped
  <2> QED
    BY <1>1, <2>1, Handles
<1>3. found' \subseteq found \cup {cur} /\ (found' = found \/ there)
  BY <1>1
<1>4. TasksTyped'
  <2>1. found' \subseteq Handle /\ pc' \in {"done", "list"}
    BY <1>1, <1>2, <1>3 DEF TasksTyped
  <2> QED
    BY <1>1, <2>1 DEF TasksTyped, queueVars
<1>5. Places'
  <2>1. tasks \cup found' \cup {cur} \subseteq tasks \cup found \cup {cur} /\ found' \subseteq 1..num
    BY <1>2, <1>3 DEF TasksOK, Places
  <2>2. cur \notin tasks /\ pc' \notin {"idle", "started"}
    BY <1>1 DEF TasksOK, Places
  <2> QED
    BY <1>1, <1>2, <2>1, <2>2 DEF TasksOK, Places, queueVars
<1>6. Begun'
  BY <1>1 DEF TasksOK, Begun, queueVars
<1>7. Found'
  BY <1>1, <1>3 DEF TasksOK, Found, queueVars, DaemonPath
<1>8. AskedByPriority' /\ (\A k \in unqueued : asked[k] = <<>>)'
  BY <1>1 DEF TasksOK, AskedByPriority, queueVars
<1> QED
  BY <1>4, <1>5, <1>6, <1>7, <1>8 DEF TasksOK

LEMMA ReadHeadKeeps ==
  ASSUME TasksOK, ManagerOK, ReadHead
  PROVE  TasksOK'
<1>1. /\ TasksTyped /\ pc = "list" /\ pc' = "copy"
      /\ head' = IF handlers = <<>> THEN None ELSE NodeOf(Head(handlers))
      /\ UNCHANGED <<queueVars, cur, todo, arts, historyVars>>
  BY DEF TasksOK, ReadHead, Goto
<1>2. head' \in {NodeOf(n) : n \in Node} \cup {None}
  <2>1. handlers # <<>> => Head(handlers) \in Node
    BY DEF ManagerOK
  <2> QED
    BY <1>1, <2>1
<1>3. TasksTyped'
  BY <1>1, <1>2 DEF TasksTyped, queueVars, historyVars
<1>4. Places' /\ Found'
  BY <1>1 DEF TasksOK, Places, Found, DaemonPath, queueVars, historyVars
<1>5. Begun'
  BY <1>1 DEF TasksOK, Begun, queueVars, historyVars
<1>6. AskedByPriority' /\ (\A k \in unqueued : asked[k] = <<>>)'
  BY <1>1 DEF TasksOK, AskedByPriority, queueVars, historyVars
<1> QED
  BY <1>3, <1>4, <1>5, <1>6 DEF TasksOK

\* Whichever node of the list the walk begins with, what it collects descends.
LEMMA CopyHandlersKeeps ==
  ASSUME TasksOK, ManagerOK, CopyHandlers
  PROVE  TasksOK'
<1>1. /\ TasksTyped /\ pc = "copy" /\ pc' \in {"ask", "crashed"} /\ head' = None
      /\ UNCHANGED <<queueVars, cur, arts, historyVars>>
      /\ todo' = <<>> \/ \E i \in DOMAIN handlers : todo' = Reversed(From(i))
  BY DEF TasksOK, CopyHandlers
<1>2. todo' \in Seq(Node) /\ Descending(todo')
  <2>1. CASE todo' = <<>>
    BY <2>1 DEF Descending
  <2>2. ASSUME NEW i \in DOMAIN handlers, todo' = Reversed(From(i))
        PROVE  todo' \in Seq(Node) /\ Descending(todo')
    <3>1. handlers \in Seq(Node) /\ Ascending(handlers)
      BY DEF ManagerOK, InOrder
    <3> QED
      BY <2>2, <3>1, ReversedDescends DEF Reversed, From
  <2> QED
    BY <1>1, <2>1, <2>2
<1>3. cur # 0 /\ cur \in Handle /\ asked[cur] = <<>> /\ asked[cur] \o todo' = todo'
  <2>1. cur # 0 /\ asked[cur] = <<>>
    BY <1>1 DEF TasksOK, Places, Begun
  <2> QED
    BY <1>1, <1>2, <2>1, Handles
<1>4. TasksTyped'
  <2>1. pc' \in {"idle", "started", "look", "list", "copy", "ask", "done", "crashed"}
    BY <1>1
  <2> QED
    BY <1>1, <1>2, <2>1 DEF TasksTyped, queueVars, historyVars
<1>5. Places' /\ Found'
  BY <1>1 DEF TasksOK, Places, Found, DaemonPath, queueVars, historyVars
<1>6. Begun'
  <2>1. Descending(asked'[cur'] \o todo')
    BY <1>1, <1>2, <1>3 DEF historyVars
  <2>2. cur' \notin unqueued'
    BY <1>1 DEF TasksOK, Begun, queueVars
  <2>3. pc' \notin {"look", "list", "copy"}
    BY <1>1
  <2>4. Descending(asked[cur] \o todo)' <=> Descending(asked'[cur'] \o todo')
    BY DEF Descending
  <2> QED
    BY <2>1, <2>2, <2>3, <2>4 DEF Begun
<1>7. AskedByPriority' /\ (\A k \in unqueued : asked[k] = <<>>)'
  BY <1>1 DEF TasksOK, AskedByPriority, queueVars, historyVars
<1> QED
  BY <1>4, <1>5, <1>6, <1>7 DEF TasksOK

\* What an answer of any kind does to the lists.
LEMMA AnswerKeeps ==
  ASSUME TasksOK, pc = "ask", todo # <<>>,
         asked' = [asked EXCEPT ![cur] = Append(@, Head(todo))],
         UNCHANGED queueVars
  PROVE  /\ asked' \in [Handle -> Seq(Node)]
         /\ Tail(todo) \in Seq(Node) /\ Descending(asked'[cur] \o Tail(todo))
         /\ AskedByPriority' /\ (\A k \in unqueued : asked[k] = <<>>)'
         /\ \A h \in Handle : h # cur => asked'[h] = asked[h]
         /\ cur # 0 /\ cur \in Handle /\ cur \in 1..num /\ cur \notin tasks /\ cur \notin unqueued
         /\ \A h \in Handle : h > num \/ h \in tasks => asked'[h] = <<>>
<1>1. cur # 0 /\ cur \notin tasks /\ cur \notin unqueued /\ Descending(asked[cur] \o todo)
  BY DEF TasksOK, Places, Begun
<1>2. TasksTyped /\ num \in Nat /\ cur \in Handle /\ cur \in 0..num
  BY <1>1, Handles DEF TasksOK, TasksTyped
<1>3. cur \in 1..num
  BY <1>1, <1>2
<1>4. asked \in [Handle -> Seq(Node)] /\ todo \in Seq(Node) /\ asked[cur] \in Seq(Node)
  BY <1>2 DEF TasksTyped
<1>5. /\ Append(asked[cur], Head(todo)) \in Seq(Node) /\ Tail(todo) \in Seq(Node)
      /\ Descending(Append(asked[cur], Head(todo)) \o Tail(todo))
      /\ Descending(Append(asked[cur], Head(todo)))
  BY <1>1, <1>4, NextAsked
<1>6. /\ asked'[cur] = Append(asked[cur], Head(todo))
      /\ \A h \in Handle : h # cur => asked'[h] = asked[h]
      /\ asked' \in [Handle -> Seq(Node)]
  BY <1>2, <1>4, <1>5
<1>7. AskedByPriority'
  <2>1. \A h \in Handle : Descending(asked[h])
    BY DEF TasksOK, AskedByPriority, Descending
  <2>2. \A h \in Handle : Descending(asked'[h])
    BY <1>5, <1>6, <2>1
  <2> QED
    BY <2>2 DEF AskedByPriority, Descending
<1>8. (\A k \in unqueued : asked[k] = <<>>)'
  <2>1. unqueued \subseteq Handle /\ unqueued' = unqueued
    BY <1>2, Handles DEF queueVars
  <2> QED
    BY <1>1, <1>6, <2>1 DEF TasksOK
<1>9. \A h \in Handle : h > num \/ h \in tasks => h # cur
  BY <1>1, <1>2, <1>3
<1>10. \A h \in Handle : h > num \/ h \in tasks => asked'[h] = <<>>
  BY <1>6, <1>9 DEF TasksOK, Places
<1> QED
  BY <1>1, <1>2, <1>3, <1>5, <1>6, <1>7, <1>8, <1>10

LEMMA FetchFailsKeeps ==
  ASSUME TasksOK, FetchFails
  PROVE  TasksOK'
<1>1. /\ TasksTyped /\ pc = "ask" /\ todo # <<>> /\ todo' = Tail(todo)
      /\ asked' = [asked EXCEPT ![cur] = Append(@, Head(todo))]
      /\ UNCHANGED <<queueVars, pc, cur, head, arts, found, finished>>
  BY DEF TasksOK, FetchFails
<1>2. /\ asked' \in [Handle -> Seq(Node)]
      /\ Tail(todo) \in Seq(Node) /\ Descending(asked'[cur] \o Tail(todo))
      /\ AskedByPriority' /\ (\A k \in unqueued : asked[k] = <<>>)'
      /\ cur \notin unqueued
      /\ \A h \in Handle : h > num \/ h \in tasks => asked'[h] = <<>>
  BY <1>1, AnswerKeeps
<1>3. TasksTyped'
  BY <1>1, <1>2 DEF TasksTyped, queueVars
<1>4. Places' /\ Found'
  BY <1>1, <1>2 DEF TasksOK, Places, Found, DaemonPath, queueVars
<1>5. Begun'
  <2>1. Descending(asked[cur] \o todo)' <=> Descending(asked'[cur'] \o todo')
    BY DEF Descending
  <2> QED
    BY <1>1, <1>2, <2>1 DEF Begun, queueVars
<1> QED
  BY <1>2, <1>3, <1>4, <1>5 DEF TasksOK

LEMMA FetchedKeeps ==
  ASSUME TasksOK, Fetched
  PROVE  TasksOK'
<1>1. /\ TasksTyped /\ pc = "ask" /\ pc' = "done" /\ todo # <<>> /\ todo' = <<>>
      /\ asked' = [asked EXCEPT ![cur] = Append(@, Head(todo))]
      /\ arts' = arts \cup {DaemonPath(requests[cur])} /\ found' = found \cup {cur}
      /\ UNCHANGED <<queueVars, cur, head, finished>>
  BY DEF TasksOK, Fetched, Goto
<1>2. /\ asked' \in [Handle -> Seq(Node)]
      /\ AskedByPriority' /\ (\A k \in unqueued : asked[k] = <<>>)'
      /\ cur # 0 /\ cur \in Handle /\ cur \in 1..num /\ cur \notin tasks
      /\ \A h \in Handle : h > num \/ h \in tasks => asked'[h] = <<>>
  BY <1>1, AnswerKeeps
<1>3. requests[cur] \in Request
  BY <1>2 DEF TasksOK, Places
<1>4. TasksTyped'
  <2>1. arts' \subseteq {ClientPath(r) : r \in Request}
    BY <1>1, <1>3, PathsAgree DEF TasksTyped
  <2>2. found' \subseteq Handle /\ todo' \in Seq(Node)
    BY <1>1, <1>2 DEF TasksTyped
  <2> QED
    BY <1>1, <1>2, <2>1, <2>2 DEF TasksTyped, queueVars
<1>5. Places'
  <2>1. tasks \cup found' \cup {cur} = tasks \cup found \cup {cur} /\ found' \subseteq 1..num
    BY <1>1, <1>2 DEF TasksOK, Places
  <2> QED
    BY <1>1, <1>2, <2>1 DEF TasksOK, Places, queueVars
<1>6. Begun'
  BY <1>1 DEF Begun
<1>7. Found'
  <2>1. \A h \in found' : DaemonPath(requests[h]) \in arts'
    BY <1>1 DEF TasksOK, Found
  <2> QED
    BY <1>1, <2>1 DEF Found, queueVars, DaemonPath
<1> QED
  BY <1>2, <1>4, <1>5, <1>6, <1>7 DEF TasksOK

LEMMA NobodyLeftKeeps ==
  ASSUME TasksOK, NobodyLeft
  PROVE  TasksOK'
<1>1. /\ TasksTyped /\ pc = "ask" /\ pc' = "done"
      /\ UNCHANGED <<queueVars, cur, head, todo, arts, historyVars>>
  BY DEF TasksOK, NobodyLeft, Goto
<1>2. TasksTyped' /\ Begun'
  BY <1>1 DEF TasksTyped, Begun, queueVars, historyVars
<1>3. Places' /\ Found' /\ AskedByPriority'
  BY <1>1 DEF TasksOK, Places, Found, AskedByPriority, DaemonPath, queueVars, historyVars
<1> QED
  BY <1>1, <1>2, <1>3 DEF TasksOK, queueVars, historyVars

LEMMA FinishKeeps ==
  ASSUME TasksOK, Finish
  PROVE  TasksOK'
<1>1. /\ TasksTyped /\ pc = "done" /\ pc' = "idle" /\ cur' = 0
      /\ finished' = [finished EXCEPT ![cur] = @ + 1]
      /\ UNCHANGED <<queueVars, head, todo, arts, asked, found>>
  BY DEF TasksOK, Finish, Goto, Emits
<1>2. cur # 0 /\ cur \in Handle /\ cur \notin tasks /\ finished[cur] = 0 /\ cur \in 1..num /\ num \in Nat
  <2>1. cur # 0 /\ cur \notin tasks /\ finished[cur] = 0
    BY <1>1 DEF TasksOK, Places
  <2>2. cur \in 0..num /\ num \in Nat /\ cur \in Handle
    BY <1>1, <2>1, Handles DEF TasksTyped
  <2> QED
    BY <2>1, <2>2
<1>3. finished' \in [Handle -> 0..1] /\ \A h \in Handle : h # cur => finished'[h] = finished[h]
  BY <1>1, <1>2 DEF TasksTyped
<1>4. 0 \notin tasks /\ 0 \notin found
  <2>1. tasks \subseteq 1..num /\ found \subseteq 1..num
    BY <1>1 DEF TasksOK, Places, TasksTyped
  <2> QED
    BY <1>2, <2>1
<1>5. TasksTyped'
  <2>1. 0 \in 0..num
    BY <1>2
  <2> QED
    BY <1>1, <1>3, <2>1 DEF TasksTyped, queueVars
<1>6. Places'
  <2>1. \A h \in Handle : h > num \/ h \in tasks => h # cur
    BY <1>2
  <2>2. \A h \in Handle : h > num \/ h \in tasks => asked[h] = <<>> /\ finished'[h] = 0
    BY <1>3, <2>1 DEF TasksOK, Places
  <2>3. 0 \notin waiting
    BY <1>1, <1>4 DEF TasksTyped
  <2>4. \A h \in tasks \cup found : requests[h] \in Request
    BY <1>4 DEF TasksOK, Places
  <2> QED
    BY <1>1, <1>4, <2>2, <2>3, <2>4 DEF TasksOK, Places, queueVars
<1>7. Begun'
  BY <1>1 DEF Begun
<1>8. Found' /\ AskedByPriority' /\ (\A k \in unqueued : asked[k] = <<>>)'
  BY <1>1 DEF TasksOK, Found, AskedByPriority, DaemonPath, queueVars
<1> QED
  BY <1>5, <1>6, <1>7, <1>8 DEF TasksOK

-----------------------------------------------------------------------------
LEMMA NextIInv == IInv /\ [Next]_vars => IInv'
<1> SUFFICES ASSUME ManagerOK, TasksOK, [Next]_vars
             PROVE  ManagerOK' /\ TasksOK'
  <2>1. IInv' <=> ManagerOK' /\ TasksOK'
    BY TwoParts, PTL
  <2> QED
    BY TwoParts, <2>1
<1>1. CASE FirstCheck
  <2>1. OpenDir /\ UNCHANGED <<providers, changes>> /\ changed' \in BOOLEAN
    BY <1>1 DEF FirstCheck, fileVars, ManagerOK
  <2>2. UNCHANGED <<queueVars, workVars, arts, historyVars>>
    BY <1>1 DEF FirstCheck
  <2> QED
    BY <2>1, <2>2, OpenKeeps, TasksOKStays
<1>2. CASE OnDirChanged
  <2>1. OpenDir /\ UNCHANGED <<providers, changes>> /\ changed' \in BOOLEAN
    BY <1>2 DEF OnDirChanged
  <2>2. UNCHANGED <<queueVars, workVars, arts, historyVars>>
    BY <1>2 DEF OnDirChanged
  <2> QED
    BY <2>1, <2>2, OpenKeeps, TasksOKStays
<1>3. CASE QueueNothing
  BY <1>3, QueueNothingKeeps, ManagerOKStays DEF QueueNothing
<1>4. ASSUME NEW r \in Wanted, NEW h \in 0..MaxTasks, Queue(r, h)
      PROVE  ManagerOK' /\ TasksOK'
  BY <1>4, QueueKeeps, ManagerOKStays DEF Queue
<1>5. ASSUME NEW h \in Handle, Unqueue(h)
      PROVE  ManagerOK' /\ TasksOK'
  BY <1>5, UnqueueKeeps, ManagerOKStays DEF Unqueue
<1>6. ASSUME NEW r \in Wanted, Delete(r)
      PROVE  ManagerOK' /\ TasksOK'
  BY <1>6, DeleteKeeps, ManagerOKStays DEF Delete
<1>7. CASE Read
  <2>1. UNCHANGED <<queueVars, workVars, arts, historyVars>>
    BY <1>7 DEF Read, Insert, ReadFile
  <2> QED
    BY <1>7, <2>1, ReadKeeps, TasksOKStays
<1>8. CASE Work
  <2>1. ManagerOK'
    <3>1. UNCHANGED managerVars
      BY <1>8 DEF Work, Start, Take, Look, ReadHead, CopyHandlers, FetchFails, Fetched,
                  NobodyLeft, Finish
    <3> QED
      BY <3>1, ManagerOKStays
  <2>2. TasksOK'
    BY <1>8, StartKeeps, TakeKeeps, LookKeeps, ReadHeadKeeps, CopyHandlersKeeps,
       FetchFailsKeeps, FetchedKeeps, NobodyLeftKeeps, FinishKeeps DEF Work
  <2> QED
    BY <2>1, <2>2
<1>9. ASSUME NEW p \in Provider, ProviderChanges(p)
      PROVE  ManagerOK' /\ TasksOK'
  <2>1. UNCHANGED <<queueVars, workVars, arts, historyVars>>
    BY <1>9 DEF ProviderChanges
  <2> QED
    BY <1>9, <2>1, OpenKeeps, TasksOKStays
<1>10. CASE UNCHANGED vars
  BY <1>10, TasksOKStays, ManagerOKStays DEF vars
<1> QED
  BY <1>1, <1>2, <1>3, <1>4, <1>5, <1>6, <1>7, <1>8, <1>9, <1>10 DEF Next, MainLoop

LEMMA Invariant == Spec => []IInv
BY InitIInv, NextIInv, PTL DEF Spec

-----------------------------------------------------------------------------
(* The theorems.                                                             *)

\* The art providers are asked for a request highest priority first and each at
\* most once (do_the_work), although the thread begins its walk of the list with
\* a node it read before it took albumart_manager's mutex, which may have been
\* freed since.
THEOREM ProvidersAskedInOrder == Spec => []AskedByPriority
<1>1. IInv => AskedByPriority
  BY DEF IInv
<1> QED
  BY <1>1, Invariant, PTL

\* A picture the daemon has found or fetched for a finished request, and nobody
\* has deleted, lies where the client looks for it: albumart_queue undoes what the
\* client makes of the names it leaves out.
THEOREM PictureWhereClientLooks == Spec => []ClientFindsArt
<1>1. IInv => ClientFindsArt
  <2> SUFFICES ASSUME IInv, NEW h \in found,
                      requests[h].album # None \/ requests[h].kind = "album"
               PROVE  ClientPath(requests[h]) \in arts
    BY DEF ClientFindsArt
  <2>1. TasksOK
    BY TwoParts
  <2>2. h \in 1..num /\ num \in Nat
    BY <2>1, Handles DEF TasksOK, Places
  <2>3. requests[h] \in Request /\ DaemonPath(requests[h]) \in arts
    BY <2>1, <2>2 DEF TasksOK, Places, Found
  <2> QED
    BY <2>3, PathsAgree
<1> QED
  BY <1>1, Invariant, PTL

\* Types; and no provider is asked for a request whose unqueued flag is set: the
\* flag is set only while the task is in priv->tasks, and do_the_work reads it
\* when it takes the task out.
THEOREM CancelledNeverAsked == Spec => []CancelledIsNotAsked
<1>1. IInv => CancelledIsNotAsked
  BY DEF IInv, CancelledIsNotAsked
<1> QED
  BY <1>1, Invariant, PTL
=============================================================================
