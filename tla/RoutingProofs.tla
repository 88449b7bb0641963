---------------------------- MODULE RoutingProofs ----------------------------
(***************************************************************************)
(* Proofs about Routing, for any kinds of file, clients, services, plugins *)
(* and threads: what a pool thread is given is alive, and the two tables   *)
(* follow the clients and the plugin files.                                *)
(*                                                                         *)
(* The handlers' half rests on an exact count: a proxy has one reference   *)
(* of the table, if it is there, and one of each thread that calls it.     *)
(* The plugins' half rests on what the last report about a file says.      *)
(***************************************************************************)
EXTENDS Routing, FiniteSetTheorems, TLAPS

One(b) == IF b THEN 1 ELSE 0

\* A handler is in the table under its own key.
Keyed == \A k \in Key : handlers[k] # None => handlers[k] \in {k} \X Slot

\* Who has a reference to a proxy: the threads that call it, and the table.
Callers(p) == {t \in Thread : at[t] = "proxy" /\ with[t] = p}
Counted ==
  \A p \in Proxy :
    refs[p] = Cardinality(Callers(p)) + One(handlers[p[1]] = p)

\* The proxy of a client is told when the client leaves.
ClientsHooked ==
  \A k \in Key :
    handlers[k] # None /\ name[handlers[k]] \in Client => handlers[k] \in hooked

\* A plugin in the table is registered and its types are known, a registered
\* one is open, and the one that is to be closed is open and not registered.
Opened ==
  /\ \A k \in Key : plugins[k] # None =>
       plugins[k] \in registrations /\ k[2] \in thumberHas
  /\ \A p \in registrations : opens[p] > 0 /\ p # stopping
  /\ stopping # None => opens[stopping] > 0
  /\ stage # "monitoring" => events = <<>> /\ stopping = None

\* Each opening beyond the first was reported, and each report was a change.
Room == \A p \in Plugin : opens[p] + Len(events) <= changes + 1

\* The last report about a file says whether it is there.
LastTells ==
  \A i \in 1..Len(events) :
    (\A j \in (i + 1)..Len(events) : events[j].plugin # events[i].plugin) =>
      (events[i].type = "created" <=> events[i].plugin \in files)

ManagerInv == Keyed /\ Counted /\ ClientsHooked /\ NoHandlerOfTheDead
HostInv == Opened /\ Room /\ LastTells /\ RegistrationsFollowFiles

IInv == TypeOK /\ ManagerInv /\ HostInv

-----------------------------------------------------------------------------
(* Lemmas: proxies.                                                          *)

LEMMA ProxyParts ==
  /\ \A p \in Proxy : p[1] \in Key
  /\ \A k \in Key : {k} \X Slot \subseteq Proxy
  /\ \A k \in Key : \A p \in {k} \X Slot : p[1] = k
  /\ None \notin Proxy
BY ProxyAssumption DEF Proxy

LEMMA CallersFinite ==
  ASSUME NEW p
  PROVE  IsFiniteSet(Callers(p)) /\ Cardinality(Callers(p)) \in Nat
<1>1. Callers(p) \subseteq Thread
  BY DEF Callers
<1>2. IsFiniteSet(Callers(p))
  BY <1>1, ThreadAssumption, FS_Subset
<1> QED
  BY <1>2, FS_CardinalityType

\* What has no reference is not in the table and not called.
LEMMA Unheld ==
  ASSUME Counted, NEW p \in Proxy, refs[p] = 0
  PROVE  handlers[p[1]] # p /\ Callers(p) = {}
<1>1. refs[p] = Cardinality(Callers(p)) + One(handlers[p[1]] = p)
  BY DEF Counted
<1>2. Cardinality(Callers(p)) = 0 /\ handlers[p[1]] # p
  BY <1>1, CallersFinite DEF One
<1> QED
  BY <1>2, CallersFinite, FS_EmptySet

LEMMA FreshIsFree ==
  ASSUME NEW k \in Key, HasFresh(k)
  PROVE  /\ Fresh(k) \in Proxy /\ Fresh(k) \in {k} \X Slot
         /\ Fresh(k)[1] = k /\ Fresh(k) # None
         /\ refs[Fresh(k)] = 0
<1>1. \E p \in {k} \X Slot : refs[p] = 0 /\ p \notin gone
  BY DEF HasFresh
<1>2. Fresh(k) \in {k} \X Slot /\ refs[Fresh(k)] = 0
  BY <1>1 DEF Fresh
<1> QED
  BY <1>2, ProxyParts

\* thumbnail_manager_add: the new handlers and what becomes of the old ones.
LEMMA AddEffect ==
  ASSUME ManagerTypeOK, Keyed, Counted, NEW K \in SUBSET Key, NEW n, Add(K, n),
         \A k \in K : n[k] \in Client \cup Service
  PROVE  /\ \A k \in K : handlers'[k] = Fresh(k)
         /\ \A k \in Key \ K : handlers'[k] = handlers[k]
         /\ handlers' \in [Key -> Proxy \cup {None}]
         /\ Keyed'
         /\ refs' = [p \in Proxy |-> refs'[p]]
         /\ \A p \in Proxy :
              refs'[p] = IF p[1] \in K /\ p = Fresh(p[1]) THEN 1
                         ELSE refs[p] - One(p[1] \in K /\ handlers[p[1]] = p)
         /\ name' = [p \in Proxy |-> name'[p]]
         /\ \A p \in Proxy :
              name'[p] = IF p[1] \in K /\ p = Fresh(p[1]) THEN n[p[1]]
                         ELSE IF refs'[p] = 0 THEN None ELSE name[p]
<1> DEFINE fresh == {Fresh(k) : k \in K}
<1>1. \A k \in K : /\ Fresh(k) \in Proxy /\ Fresh(k) \in {k} \X Slot
                   /\ Fresh(k)[1] = k /\ Fresh(k) # None /\ refs[Fresh(k)] = 0
  BY FreshIsFree DEF Add
<1>2. handlers' = [k \in Key |-> IF k \in K THEN Fresh(k) ELSE handlers[k]]
  BY DEF Add
<1>3. /\ \A k \in K : handlers'[k] = Fresh(k)
      /\ \A k \in Key \ K : handlers'[k] = handlers[k]
      /\ handlers' \in [Key -> Proxy \cup {None}]
  BY <1>1, <1>2 DEF ManagerTypeOK
<1>4. Keyed'
  <2> SUFFICES ASSUME NEW k \in Key, handlers'[k] # None
               PROVE  handlers'[k] \in {k} \X Slot
    BY DEF Keyed
  <2> QED
    BY <1>1, <1>3 DEF Keyed
<1>5. \A p \in Proxy : p \in fresh <=> p[1] \in K /\ p = Fresh(p[1])
  BY <1>1
<1>6. \A p \in Proxy : p \in Replaced(K) <=> p[1] \in K /\ handlers[p[1]] = p
  <2>1. ASSUME NEW p \in Proxy, p \in Replaced(K) PROVE p[1] \in K /\ handlers[p[1]] = p
    <3>1. PICK k \in K : handlers[k] = p
      BY <2>1 DEF Replaced
    <3>2. p # None /\ p \in {k} \X Slot
      BY <2>1, <3>1, ProxyParts DEF Keyed
    <3> QED
      BY <3>1, <3>2, ProxyParts
  <2>2. ASSUME NEW p \in Proxy, p[1] \in K, handlers[p[1]] = p PROVE p \in Replaced(K)
    BY <2>2, ProxyParts DEF Replaced
  <2> QED
    BY <2>1, <2>2
<1>7. refs' = [p \in Proxy |-> IF p \in fresh THEN 1 ELSE Unreferenced(refs, Replaced(K))[p]]
  BY DEF Add
<1>8. \A p \in Proxy : Unreferenced(refs, Replaced(K))[p]
                         = refs[p] - One(p[1] \in K /\ handlers[p[1]] = p)
  <2>1. ASSUME NEW p \in Proxy
        PROVE  Unreferenced(refs, Replaced(K))[p]
                 = refs[p] - One(p[1] \in K /\ handlers[p[1]] = p)
    <3>1. refs[p] \in Nat
      BY DEF ManagerTypeOK
    <3>2. CASE p \in Replaced(K)
      BY <1>6, <3>1, <3>2 DEF Unreferenced, One
    <3>3. CASE p \notin Replaced(K)
      BY <1>6, <3>1, <3>3 DEF Unreferenced, One
    <3> QED
      BY <3>2, <3>3
  <2> QED
    BY <2>1
<1>9. \A p \in Proxy :
        refs'[p] = IF p[1] \in K /\ p = Fresh(p[1]) THEN 1
                   ELSE refs[p] - One(p[1] \in K /\ handlers[p[1]] = p)
  BY <1>5, <1>7, <1>8
<1>10. name' = [p \in Proxy |-> IF p \in fresh THEN n[p[1]]
                                ELSE IF refs'[p] = 0 THEN None ELSE name[p]]
  BY DEF Add
<1>11. \A p \in Proxy :
         name'[p] = IF p[1] \in K /\ p = Fresh(p[1]) THEN n[p[1]]
                    ELSE IF refs'[p] = 0 THEN None ELSE name[p]
  BY <1>5, <1>10
<1>12. refs' = [p \in Proxy |-> refs'[p]] /\ name' = [p \in Proxy |-> name'[p]]
  BY <1>7, <1>10
<1> QED
  BY <1>3, <1>4, <1>9, <1>11, <1>12

\* The types of the table and its proxies, and what it refers to.
TableOK ==
  /\ handlers \in [Key -> Proxy \cup {None}]
  /\ name \in [Proxy -> Client \cup Service \cup {None}]
  /\ refs \in [Proxy -> Nat]
  /\ \A p \in Proxy : name[p] # None <=> refs[p] > 0
  /\ Keyed /\ Counted

LEMMA EntryHeld ==
  ASSUME TableOK, NEW k \in Key, handlers[k] # None
  PROVE  /\ handlers[k] \in Proxy /\ handlers[k][1] = k /\ refs[handlers[k]] > 0
<1>1. handlers[k] \in {k} \X Slot
  BY DEF TableOK, Keyed
<1>2. PICK p \in Proxy : p = handlers[k] /\ p[1] = k
  BY <1>1, ProxyParts
<1>3. refs[p] = Cardinality(Callers(p)) + One(handlers[p[1]] = p)
  BY DEF TableOK, Counted
<1> QED
  BY <1>2, <1>3, CallersFinite DEF One

LEMMA AddKeeps ==
  ASSUME ManagerTypeOK, TableOK, NEW K \in SUBSET Key, NEW n, Add(K, n),
         \A k \in K : n[k] \in Client \cup Service, UNCHANGED threadVars
  PROVE  /\ TableOK'
         /\ \A k \in K : handlers'[k] = Fresh(k) /\ name'[Fresh(k)] = n[k]
         /\ \A k \in Key \ K : /\ handlers'[k] = handlers[k]
                               /\ handlers[k] # None => name'[handlers[k]] = name[handlers[k]]
<1>0. Keyed /\ Counted
  BY DEF TableOK
<1>1. /\ \A k \in K : handlers'[k] = Fresh(k)
      /\ \A k \in Key \ K : handlers'[k] = handlers[k]
      /\ handlers' \in [Key -> Proxy \cup {None}]
      /\ Keyed'
      /\ refs' = [p \in Proxy |-> refs'[p]]
      /\ \A p \in Proxy :
           refs'[p] = IF p[1] \in K /\ p = Fresh(p[1]) THEN 1
                      ELSE refs[p] - One(p[1] \in K /\ handlers[p[1]] = p)
      /\ name' = [p \in Proxy |-> name'[p]]
      /\ \A p \in Proxy :
           name'[p] = IF p[1] \in K /\ p = Fresh(p[1]) THEN n[p[1]]
                      ELSE IF refs'[p] = 0 THEN None ELSE name[p]
  BY <1>0, AddEffect
<1>2. \A k \in K : /\ Fresh(k) \in Proxy /\ Fresh(k)[1] = k /\ Fresh(k) # None
                   /\ refs[Fresh(k)] = 0
  BY FreshIsFree DEF Add
<1>3. ASSUME NEW p \in Proxy
      PROVE  /\ refs'[p] = Cardinality(Callers(p)) + One(handlers'[p[1]] = p)
             /\ refs'[p] \in Nat
  <2>1. Cardinality(Callers(p)) \in Nat /\ p[1] \in Key
    BY CallersFinite, ProxyParts
  <2>2. refs[p] = Cardinality(Callers(p)) + One(handlers[p[1]] = p)
    BY <1>0 DEF Counted
  <2>3. CASE p[1] \in K /\ p = Fresh(p[1])
    <3>1. refs[p] = 0 /\ handlers'[p[1]] = p /\ refs'[p] = 1
      BY <1>1, <1>2, <2>3
    <3>2. Callers(p) = {}
      BY <1>0, <3>1, Unheld
    <3>3. Cardinality(Callers(p)) = 0
      BY <3>2, FS_EmptySet
    <3> QED
      BY <3>1, <3>3 DEF One
  <2>4. CASE p[1] \in K /\ p # Fresh(p[1])
    <3>1. handlers'[p[1]] # p /\ refs'[p] = refs[p] - One(handlers[p[1]] = p)
      BY <1>1, <2>4 DEF One
    <3> QED
      BY <2>1, <2>2, <3>1 DEF One
  <2>5. CASE p[1] \notin K
    <3>1. handlers'[p[1]] = handlers[p[1]] /\ refs'[p] = refs[p] - 0
      BY <1>1, <2>1, <2>5 DEF One
    <3> QED
      BY <2>1, <2>2, <3>1 DEF One
  <2> QED
    BY <2>3, <2>4, <2>5
<1>4. Counted'
  <2>1. \A p : Callers(p)' = Callers(p)
    BY DEF Callers, threadVars
  <2> QED
    BY <1>3, <2>1 DEF Counted
<1>5. ASSUME NEW p \in Proxy
      PROVE  name'[p] \in Client \cup Service \cup {None} /\ (name'[p] # None <=> refs'[p] > 0)
  <2>1. name[p] \in Client \cup Service \cup {None} /\ (name[p] # None <=> refs[p] > 0) /\ refs[p] \in Nat
    BY DEF TableOK
  <2>2. CASE p[1] \in K /\ p = Fresh(p[1])
    BY <1>1, <2>2, ManagerAssumption
  <2>3. CASE ~(p[1] \in K /\ p = Fresh(p[1]))
    <3>1. refs'[p] <= refs[p] /\ name'[p] = IF refs'[p] = 0 THEN None ELSE name[p]
      BY <1>1, <2>1, <2>3 DEF One
    <3> QED
      BY <1>3, <2>1, <3>1
  <2> QED
    BY <2>2, <2>3
<1>6. TableOK'
  <2>1. refs' \in [Proxy -> Nat]
    BY <1>1, <1>3
  <2>2. name' \in [Proxy -> Client \cup Service \cup {None}]
    BY <1>1, <1>5
  <2> QED
    BY <1>1, <1>4, <1>5, <2>1, <2>2 DEF TableOK
<1>7. ASSUME NEW k \in K PROVE name'[Fresh(k)] = n[k]
  BY <1>1, <1>2
<1>8. ASSUME NEW k \in Key \ K, handlers[k] # None
      PROVE  name'[handlers[k]] = name[handlers[k]]
  <2>1. PICK p \in Proxy : p = handlers[k] /\ p[1] = k /\ refs[p] > 0
    BY <1>8, EntryHeld
  <2>2. refs'[p] = refs[p] - 0
    BY <1>1, <2>1 DEF One
  <2>3. refs'[p] # 0 /\ p[1] \notin K
    BY <1>8, <2>1, <2>2 DEF TableOK
  <2>4. name'[p] = name[p]
    BY <1>1, <2>3
  <2> QED
    BY <2>1, <2>4
<1> QED
  BY <1>1, <1>6, <1>7, <1>8

\* The table's part of the invariant, which the main loop's steps on it keep.
TableInv == ManagerTypeOK /\ Keyed /\ Counted /\ ClientsHooked /\ NoHandlerOfTheDead

LEMMA TableSplit ==
  /\ TableInv => TableOK
  /\ TableInv' => TableOK'
BY DEF TableInv, TableOK, ManagerTypeOK

\* thumbnail_manager_check_dir adds names of services, which never leave.
LEMMA CheckDirKeeps ==
  ASSUME TableInv, NEW c \in Content, NEW override \in BOOLEAN, CheckDir(c, override),
         UNCHANGED <<gone, clients, calls, thumberHas, threadVars>>,
         dirs' \in [Dir -> Contents], scans' \in Seq(Dir)
  PROVE  TableInv'
<1>0. ManagerTypeOK /\ TableOK /\ ClientsHooked /\ NoHandlerOfTheDead
  BY TableSplit DEF TableInv
<1>1. PICK pre \in [Key -> Service \cup {None}] :
        /\ Add({k \in Key : /\ pre[k] # None
                            /\ \/ c.overrides[k] # None
                               \/ override
                               \/ handlers[k] = None
                               \/ pre[k] # name[handlers[k]]}, pre)
        /\ hooked' = StillHeld(hooked)
        /\ late' = StillHeld(late)
  BY DEF CheckDir
<1>2. PICK K \in SUBSET Key : Add(K, pre) /\ \A k \in K : pre[k] \in Service
  <2>1. \A k \in Key : pre[k] # None => pre[k] \in Service
    OBVIOUS
  <2> QED
    BY <1>1, <2>1
<1>3. /\ TableOK'
      /\ \A k \in K : handlers'[k] = Fresh(k) /\ name'[Fresh(k)] = pre[k]
      /\ \A k \in Key \ K : /\ handlers'[k] = handlers[k]
                            /\ handlers[k] # None => name'[handlers[k]] = name[handlers[k]]
  BY <1>0, <1>2, AddKeeps
<1>4. ManagerTypeOK'
  <2>1. hooked' \subseteq Proxy /\ late' \subseteq Proxy
    BY <1>0, <1>1 DEF StillHeld, ManagerTypeOK
  <2> QED
    BY <1>0, <1>3, <2>1 DEF ManagerTypeOK, TableOK
<1>5. ASSUME NEW k \in Key, handlers'[k] # None, name'[handlers'[k]] \in Client
      PROVE  /\ handlers'[k] = handlers[k] /\ name'[handlers'[k]] = name[handlers[k]]
             /\ refs'[handlers'[k]] > 0
  <2>1. k \notin K
    BY <1>2, <1>3, <1>5, ManagerAssumption
  <2>2. refs'[handlers'[k]] > 0
    <3>1. name'[handlers'[k]] # None
      BY <1>5, ManagerAssumption
    <3> QED
      BY <1>3, <1>5, <3>1 DEF TableOK
  <2> QED
    BY <1>3, <1>5, <2>1, <2>2
<1>6. ClientsHooked'
  BY <1>0, <1>1, <1>5 DEF ClientsHooked, StillHeld
<1>7. NoHandlerOfTheDead'
  BY <1>0, <1>1, <1>5 DEF NoHandlerOfTheDead, StillHeld
<1> QED
  BY <1>3, <1>4, <1>6, <1>7 DEF TableInv, TableOK

\* thumbnail_manager_register connects the handler it has just added.
LEMMA RegisterKeeps ==
  ASSUME TableInv, NEW c \in Client, NEW k \in Key, Register(c, k), UNCHANGED threadVars
  PROVE  TableInv'
<1>0. ManagerTypeOK /\ TableOK /\ ClientsHooked /\ NoHandlerOfTheDead
  BY TableSplit DEF TableInv
<1>1. /\ Add({k}, [x \in {k} |-> c])
      /\ hooked' = StillHeld(hooked) \cup {handlers'[k]}
      /\ late' = StillHeld(late) \cup (IF c \in clients THEN {} ELSE {handlers'[k]})
      /\ calls' = calls \ {<<c, k>>}
      /\ UNCHANGED <<dirs, scans, gone, clients, thumberHas>>
  BY DEF Register, HookedHandler
<1>2. /\ TableOK'
      /\ handlers'[k] = Fresh(k) /\ name'[Fresh(k)] = c
      /\ \A l \in Key \ {k} : /\ handlers'[l] = handlers[l]
                              /\ handlers[l] # None => name'[handlers[l]] = name[handlers[l]]
  <2>1. \A l \in {k} : [x \in {k} |-> c][l] \in Client \cup Service
    OBVIOUS
  <2> QED
    BY <1>0, <1>1, <2>1, AddKeeps
<1>3. handlers'[k] \in Proxy
  BY <1>1, <1>2, FreshIsFree DEF Add
<1>4. ManagerTypeOK'
  <2>1. hooked' \subseteq Proxy /\ late' \subseteq Proxy
    BY <1>0, <1>1, <1>3 DEF StillHeld, ManagerTypeOK
  <2> QED
    BY <1>0, <1>1, <1>2, <2>1 DEF ManagerTypeOK, TableOK
<1>5. ASSUME NEW l \in Key, l # k, handlers'[l] # None, name'[handlers'[l]] \in Client
      PROVE  /\ handlers'[l] = handlers[l] /\ name'[handlers'[l]] = name[handlers[l]]
             /\ refs'[handlers'[l]] > 0
  <2>1. name'[handlers'[l]] # None
    BY <1>5, ManagerAssumption
  <2>2. refs'[handlers'[l]] > 0
    BY <1>2, <1>5, <2>1 DEF TableOK
  <2> QED
    BY <1>2, <1>5, <2>2
<1>6. ClientsHooked'
  BY <1>0, <1>1, <1>5 DEF ClientsHooked, StillHeld
<1>7. NoHandlerOfTheDead'
  BY <1>0, <1>1, <1>2, <1>5 DEF NoHandlerOfTheDead, StillHeld
<1> QED
  BY <1>2, <1>4, <1>6, <1>7 DEF TableInv, TableOK

\* Steps that leave the table alone.
LEMMA TableStays ==
  ASSUME TableInv, ManagerTypeOK', UNCHANGED tableVars,
         \A p \in Proxy : Callers(p)' = Callers(p),
         \A p \in hooked : name[p] \in Client \ clients' =>
           p \in gone' \/ (name[p] \in Client \ clients /\ p \notin gone)
  PROVE  TableInv'
<1>1. Keyed' /\ Counted' /\ ClientsHooked'
  BY DEF TableInv, tableVars, Keyed, Counted, ClientsHooked
<1>2. ASSUME NEW k \in Key, handlers[k] # None, name[handlers[k]] \in Client \ clients'
      PROVE  handlers[k] \in gone' \cup late
  <2>1. handlers[k] \in hooked
    BY <1>2 DEF TableInv, ClientsHooked
  <2>2. handlers[k] \in gone' \/ (name[handlers[k]] \in Client \ clients /\ handlers[k] \notin gone)
    BY <1>2, <2>1
  <2> QED
    BY <1>2, <2>2 DEF TableInv, NoHandlerOfTheDead
<1>3. NoHandlerOfTheDead'
  BY <1>2 DEF NoHandlerOfTheDead, tableVars
<1> QED
  BY <1>1, <1>3 DEF TableInv

LEMMA TableUntouched ==
  ASSUME TableInv, ManagerTypeOK', UNCHANGED <<tableVars, gone, clients>>,
         \A p \in Proxy : Callers(p)' = Callers(p)
  PROVE  TableInv'
<1>1. \A p \in hooked : name[p] \in Client \ clients' =>
        p \in gone' \/ (name[p] \in Client \ clients /\ p \notin gone)
  OBVIOUS
<1> QED
  BY <1>1, TableStays

LEMMA CallersStay ==
  ASSUME UNCHANGED threadVars, NEW p
  PROVE  Callers(p)' = Callers(p)
BY DEF Callers, threadVars

\* References are dropped, and handlers that lose theirs with them.
LEMMA SetRefsKeeps ==
  ASSUME TableInv, NEW r \in [Proxy -> Nat], SetRefs(r),
         \A p \in Proxy : r[p] <= refs[p],
         handlers' \in [Key -> Proxy \cup {None}],
         \A k \in Key : handlers'[k] # None => handlers'[k] = handlers[k],
         \A p \in Proxy : r[p] = Cardinality(Callers(p)') + One(handlers'[p[1]] = p),
         gone' \subseteq gone,
         \A k \in Key : handlers'[k] \in gone => handlers'[k] \in gone',
         UNCHANGED <<dirs, scans, clients, calls, thumberHas>>
  PROVE  TableInv'
<1>1. /\ refs' = r
      /\ name' = [p \in Proxy |-> IF r[p] = 0 THEN None ELSE name[p]]
      /\ hooked' = {p \in hooked : r[p] > 0}
      /\ late' = {p \in late : r[p] > 0}
  BY DEF SetRefs
<1>2. ASSUME NEW p \in Proxy
      PROVE  /\ name'[p] = IF r[p] = 0 THEN None ELSE name[p]
             /\ name'[p] \in Client \cup Service \cup {None}
             /\ name'[p] # None <=> refs'[p] > 0
  <2>1. refs[p] \in Nat /\ r[p] \in Nat /\ r[p] <= refs[p]
    BY DEF TableInv, ManagerTypeOK
  <2>2. (name[p] # None <=> refs[p] > 0) /\ name[p] \in Client \cup Service \cup {None}
    BY DEF TableInv, ManagerTypeOK
  <2>3. name'[p] = IF r[p] = 0 THEN None ELSE name[p]
    BY <1>1
  <2> QED
    BY <1>1, <2>1, <2>2, <2>3
<1>3. ManagerTypeOK'
  <2>1. name' \in [Proxy -> Client \cup Service \cup {None}]
    BY <1>1, <1>2
  <2>2. hooked' \subseteq Proxy /\ late' \subseteq Proxy /\ gone' \subseteq Proxy
    BY <1>1 DEF TableInv, ManagerTypeOK
  <2> QED
    BY <1>1, <1>2, <2>1, <2>2 DEF TableInv, ManagerTypeOK
<1>4. Keyed'
  BY DEF TableInv, Keyed
<1>5. Counted'
  BY <1>1 DEF Counted
<1>6. ASSUME NEW k \in Key, handlers'[k] # None
      PROVE  /\ handlers'[k] = handlers[k] /\ r[handlers'[k]] > 0
             /\ name'[handlers'[k]] = name[handlers[k]]
  <2>1. handlers'[k] = handlers[k] /\ handlers[k] # None
    BY <1>6
  <2>2. PICK p \in Proxy : p = handlers[k] /\ p[1] = k
    BY <2>1, EntryHeld, TableSplit
  <2>3. IsFiniteSet(Callers(p)') /\ Cardinality(Callers(p)') \in Nat
    <3>1. Callers(p)' \subseteq Thread
      BY DEF Callers
    <3>2. IsFiniteSet(Callers(p)')
      BY <3>1, ThreadAssumption, FS_Subset
    <3> QED
      BY <3>2, FS_CardinalityType
  <2>4. r[p] > 0
    BY <2>1, <2>2, <2>3 DEF One
  <2> QED
    BY <1>2, <2>1, <2>2, <2>4
<1>7. ClientsHooked'
  BY <1>1, <1>6 DEF ClientsHooked, TableInv
<1>8. NoHandlerOfTheDead'
  BY <1>1, <1>6 DEF NoHandlerOfTheDead, TableInv
<1> QED
  BY <1>3, <1>4, <1>5, <1>7, <1>8 DEF TableInv

\* service_gone, if it was connected, drops the proxy's entry.
LEMMA ServiceGoneKeeps ==
  ASSUME TableInv, NEW p \in Proxy, ServiceGone(p), UNCHANGED threadVars
  PROVE  TableInv'
<1>1. /\ gone' = gone \ {p}
      /\ UNCHANGED <<dirs, scans, clients, calls, thumberHas>>
  BY DEF ServiceGone
<1>2. CASE p \notin hooked /\ UNCHANGED tableVars
  <2>1. ManagerTypeOK'
    BY <1>1, <1>2 DEF TableInv, ManagerTypeOK, tableVars
  <2>2. \A x \in hooked : name[x] \in Client \ clients' =>
          x \in gone' \/ (name[x] \in Client \ clients /\ x \notin gone)
    BY <1>1, <1>2
  <2>3. \A x \in Proxy : Callers(x)' = Callers(x)
    BY CallersStay
  <2> QED
    BY <1>2, <2>1, <2>2, <2>3, TableStays
<1>3. CASE /\ p \in hooked
           /\ handlers' = WithoutProxy(p)
           /\ SetRefs(Unreferenced(refs, Replaced(Key) \cap {p}))
  <2> DEFINE r == Unreferenced(refs, Replaced(Key) \cap {p})
  <2>1. p # None /\ p[1] \in Key
    BY ProxyParts
  <2>2. p \in Replaced(Key) <=> handlers[p[1]] = p
    <3>1. ASSUME NEW k \in Key, handlers[k] = p PROVE k = p[1]
      BY <2>1, <3>1, EntryHeld, TableSplit
    <3> QED
      BY <2>1, <3>1 DEF Replaced
  <2>3. /\ handlers' \in [Key -> Proxy \cup {None}]
        /\ \A k \in Key : handlers'[k] = IF handlers[k] = p THEN None ELSE handlers[k]
    BY <1>3 DEF WithoutProxy, TableInv, ManagerTypeOK
  <2>4. ASSUME NEW x \in Proxy
        PROVE  /\ r[x] \in Nat /\ r[x] <= refs[x]
               /\ r[x] = Cardinality(Callers(x)') + One(handlers'[x[1]] = x)
    <3>1. refs[x] = Cardinality(Callers(x)) + One(handlers[x[1]] = x)
      BY DEF TableInv, Counted
    <3>2. Cardinality(Callers(x)) \in Nat /\ Callers(x)' = Callers(x) /\ x[1] \in Key /\ x # None
      BY CallersFinite, CallersStay, ProxyParts
    <3>3. CASE x = p /\ handlers[p[1]] = p
      <4>1. r[x] = refs[x] - 1
        BY <2>2, <3>3 DEF Unreferenced
      <4>2. handlers'[x[1]] # x
        BY <2>3, <3>2, <3>3
      <4> QED
        BY <3>1, <3>2, <3>3, <4>1, <4>2 DEF One
    <3>4. CASE ~(x = p /\ handlers[p[1]] = p)
      <4>1. r[x] = refs[x]
        BY <2>2, <3>4 DEF Unreferenced
      <4>2. handlers'[x[1]] = x <=> handlers[x[1]] = x
        BY <2>3, <3>2, <3>4
      <4> QED
        BY <3>1, <3>2, <4>1, <4>2 DEF One
    <3> QED
      BY <3>3, <3>4
  <2>5. r \in [Proxy -> Nat]
    BY <2>4 DEF Unreferenced
  <2>6. /\ \A k \in Key : handlers'[k] # None => handlers'[k] = handlers[k]
        /\ \A k \in Key : handlers'[k] \in gone => handlers'[k] \in gone'
        /\ gone' \subseteq gone
    BY <1>1, <2>1, <2>3
  <2> HIDE DEF r
  <2> QED
    BY <1>1, <1>3, <2>3, <2>4, <2>5, <2>6, SetRefsKeeps DEF r
<1> QED
  BY <1>2, <1>3 DEF ServiceGone

LEMMA LeaveKeeps ==
  ASSUME TableInv, NEW c \in Client, Leave(c), UNCHANGED threadVars
  PROVE  TableInv'
<1>1. /\ clients' = clients \ {c} /\ gone' = gone \cup {p \in Proxy : name[p] = c}
      /\ UNCHANGED <<dirs, scans, tableVars, calls, thumberHas>>
  BY DEF Leave
<1>2. ManagerTypeOK'
  BY <1>1 DEF TableInv, ManagerTypeOK, tableVars
<1>3. \A x \in hooked : name[x] \in Client \ clients' =>
        x \in gone' \/ (name[x] \in Client \ clients /\ x \notin gone)
  BY <1>1 DEF TableInv, ManagerTypeOK
<1>4. \A x \in Proxy : Callers(x)' = Callers(x)
  BY CallersStay
<1> QED
  BY <1>1, <1>2, <1>3, <1>4, TableStays

\* Calls on their way, files and mime types do not touch the table.
LEMMA OthersKeep ==
  ASSUME TableInv, UNCHANGED threadVars,
         \/ \E c \in Client, k \in Key : CallRegister(c, k)
         \/ \E d \in Dir, c \in Contents : OnFileChanged(d, c)
         \/ \E M \in SUBSET Mime : IHave(M)
         \/ UNCHANGED managerVars
  PROVE  TableInv'
<1>1. ManagerTypeOK' /\ UNCHANGED <<tableVars, gone, clients>>
  <2>1. CASE \E c \in Client, k \in Key : CallRegister(c, k)
    BY <2>1 DEF CallRegister, TableInv, ManagerTypeOK, tableVars
  <2>2. CASE \E d \in Dir, c \in Contents : OnFileChanged(d, c)
    BY <2>2 DEF OnFileChanged, TableInv, ManagerTypeOK, tableVars
  <2>3. CASE \E M \in SUBSET Mime : IHave(M)
    BY <2>3 DEF IHave, Added, TableInv, ManagerTypeOK, tableVars
  <2>4. CASE UNCHANGED managerVars
    BY <2>4 DEF managerVars, TableInv, ManagerTypeOK, tableVars
  <2> QED
    BY <2>1, <2>2, <2>3, <2>4
<1>2. \A x \in Proxy : Callers(x)' = Callers(x)
  BY CallersStay
<1> QED
  BY <1>1, <1>2, TableUntouched

LEMMA CheckKeeps ==
  ASSUME TableInv, Check, UNCHANGED threadVars
  PROVE  TableInv'
<1>1. /\ scans # <<>> /\ scans' = Tail(scans)
      /\ CheckDir(dirs[Head(scans)], Head(scans) = "home")
      /\ UNCHANGED <<dirs, gone, clients, calls, thumberHas>>
  BY DEF Check
<1>2. scans \in Seq(Dir) /\ dirs \in [Dir -> Contents]
  BY DEF TableInv, ManagerTypeOK
<1>3. Head(scans) \in Dir /\ scans' \in Seq(Dir)
  BY <1>1, <1>2
<1>4. dirs[Head(scans)] \in Content
  BY <1>2, <1>3, ManagerAssumption
<1>5. dirs' \in [Dir -> Contents]
  BY <1>1, <1>2
<1>6. (Head(scans) = "home") \in BOOLEAN
  OBVIOUS
<1> QED
  BY <1>1, <1>3, <1>4, <1>5, <1>6, CheckDirKeeps

LEMMA OnDirCreatedKeeps ==
  ASSUME TableInv, NEW d \in Dir, NEW c \in Contents, OnDirCreated(d, c),
         UNCHANGED threadVars
  PROVE  TableInv'
<1>1. /\ CheckDir(c, d = "system") /\ dirs' = [dirs EXCEPT ![d] = c]
      /\ UNCHANGED <<scans, gone, clients, calls, thumberHas>>
  BY DEF OnDirCreated
<1>2. scans' \in Seq(Dir) /\ dirs' \in [Dir -> Contents]
  BY <1>1 DEF TableInv, ManagerTypeOK
<1>3. c \in Content /\ (d = "system") \in BOOLEAN
  BY ManagerAssumption
<1> QED
  BY <1>1, <1>2, <1>3, CheckDirKeeps

-----------------------------------------------------------------------------
(* Lemmas: a thread's references.                                            *)

ThreadTypeOK ==
  /\ at \in [Thread -> {"idle", "proxy", "plugin", "found", "inside"}]
  /\ with \in [Thread -> Proxy \cup Plugin \cup Key \cup {None}]
  /\ \A t \in Thread :
       \/ at[t] = "idle" /\ with[t] = None
       \/ at[t] = "proxy" /\ with[t] \in Proxy
       \/ at[t] = "plugin" /\ with[t] \in Key
       \/ at[t] \in {"found", "inside"} /\ with[t] \in Plugin

LEMMA GotoKeeps ==
  ASSUME ThreadTypeOK, NEW t \in Thread, NEW where, NEW what, Goto(t, where, what),
         \/ where = "idle" /\ what = None
         \/ where = "proxy" /\ what \in Proxy
         \/ where = "plugin" /\ what \in Key
         \/ where \in {"found", "inside"} /\ what \in Plugin
  PROVE  /\ ThreadTypeOK'
         /\ at'[t] = where /\ with'[t] = what
         /\ \A u \in Thread \ {t} : at'[u] = at[u] /\ with'[u] = with[u]
<1>1. /\ at' = [at EXCEPT ![t] = where] /\ with' = [with EXCEPT ![t] = what]
      /\ at \in [Thread -> {"idle", "proxy", "plugin", "found", "inside"}]
      /\ with \in [Thread -> Proxy \cup Plugin \cup Key \cup {None}]
  BY DEF Goto, ThreadTypeOK
<1>2. /\ at' \in [Thread -> {"idle", "proxy", "plugin", "found", "inside"}]
      /\ with' \in [Thread -> Proxy \cup Plugin \cup Key \cup {None}]
      /\ at'[t] = where /\ with'[t] = what
      /\ \A u \in Thread \ {t} : at'[u] = at[u] /\ with'[u] = with[u]
  BY <1>1
<1> QED
  BY <1>2 DEF ThreadTypeOK

\* thumbnail_manager_get_handler gives the thread a reference of its own.
LEMMA AskKeeps ==
  ASSUME TableInv, ThreadTypeOK, NEW t \in Thread, NEW k \in Key, AskManager(t, k)
  PROVE  TableInv' /\ ThreadTypeOK'
<1>1. /\ at[t] = "idle"
      /\ refs' = IF handlers[k] = None THEN refs ELSE [refs EXCEPT ![handlers[k]] = @ + 1]
      /\ UNCHANGED <<dirs, scans, handlers, name, hooked, gone, late, clients, calls, thumberHas>>
      /\ IF handlers[k] = None THEN Goto(t, "plugin", k) ELSE Goto(t, "proxy", handlers[k])
  BY DEF AskManager, GetHandler, Referenced
<1>2. handlers \in [Key -> Proxy \cup {None}] /\ refs \in [Proxy -> Nat]
  BY DEF TableInv, ManagerTypeOK
<1>3. CASE handlers[k] = None
  <2>1. /\ ThreadTypeOK' /\ at'[t] = "plugin"
        /\ \A u \in Thread \ {t} : at'[u] = at[u] /\ with'[u] = with[u]
    BY <1>1, <1>3, GotoKeeps
  <2>2. \A p \in Proxy : Callers(p)' = Callers(p)
    BY <1>1, <2>1 DEF Callers
  <2>3. ManagerTypeOK' /\ UNCHANGED <<tableVars, gone, clients>>
    BY <1>1, <1>3 DEF TableInv, ManagerTypeOK, tableVars
  <2> QED
    BY <2>1, <2>2, <2>3, TableUntouched
<1>4. CASE handlers[k] # None
  <2>1. PICK h \in Proxy : h = handlers[k] /\ h[1] = k /\ refs[h] > 0
    BY <1>4, EntryHeld, TableSplit
  <2>2. /\ ThreadTypeOK' /\ at'[t] = "proxy" /\ with'[t] = h
        /\ \A u \in Thread \ {t} : at'[u] = at[u] /\ with'[u] = with[u]
    <3>1. Goto(t, "proxy", h)
      BY <1>1, <1>4, <2>1
    <3> QED
      BY <3>1, GotoKeeps
  <2>3. Callers(h)' = Callers(h) \cup {t} /\ t \notin Callers(h)
    BY <1>1, <2>2 DEF Callers
  <2>4. Cardinality(Callers(h)') = Cardinality(Callers(h)) + 1
    BY <2>3, CallersFinite, FS_AddElement
  <2>5. ASSUME NEW p \in Proxy
        PROVE  /\ refs'[p] = Cardinality(Callers(p)') + One(handlers'[p[1]] = p)
               /\ refs'[p] \in Nat /\ (refs'[p] > 0 <=> refs[p] > 0)
    <3>1. /\ refs[p] = Cardinality(Callers(p)) + One(handlers[p[1]] = p)
          /\ refs[p] \in Nat /\ Cardinality(Callers(p)) \in Nat
      BY CallersFinite DEF TableInv, ManagerTypeOK, Counted
    <3>2. CASE p = h
      <4>1. refs'[p] = refs[p] + 1
        BY <1>1, <1>2, <1>4, <2>1, <3>2
      <4>2. One(handlers'[p[1]] = p) = One(handlers[p[1]] = p)
        BY <1>1
      <4>3. One(handlers[p[1]] = p) \in {0, 1}
        BY DEF One
      <4> QED
        BY <2>1, <2>4, <3>1, <3>2, <4>1, <4>2, <4>3
    <3>3. CASE p # h
      <4>1. refs'[p] = refs[p]
        BY <1>1, <1>2, <1>4, <2>1, <3>3
      <4>2. Callers(p)' = Callers(p)
        BY <1>1, <2>2, <3>3 DEF Callers
      <4> QED
        BY <1>1, <3>1, <4>1, <4>2
    <3> QED
      BY <3>2, <3>3
  <2>6. refs' \in [Proxy -> Nat]
    BY <1>1, <1>2, <1>4, <2>1
  <2>7. ManagerTypeOK'
    BY <1>1, <2>5, <2>6 DEF TableInv, ManagerTypeOK
  <2>8. Keyed' /\ Counted' /\ ClientsHooked' /\ NoHandlerOfTheDead'
    BY <1>1, <2>5 DEF TableInv, Keyed, Counted, ClientsHooked, NoHandlerOfTheDead
  <2> QED
    BY <2>2, <2>7, <2>8 DEF TableInv
<1> QED
  BY <1>3, <1>4

\* do_the_work gives it back.
LEMMA DropKeeps ==
  ASSUME TableInv, ThreadTypeOK, NEW t \in Thread, DropProxy(t)
  PROVE  TableInv' /\ ThreadTypeOK'
<1>1. /\ at[t] = "proxy" /\ Goto(t, "idle", None)
      /\ SetRefs(Unreferenced(refs, {with[t]}))
      /\ UNCHANGED <<dirs, scans, handlers, gone, clients, calls, thumberHas>>
  BY DEF DropProxy, Unref
<1>2. PICK h \in Proxy : h = with[t]
  BY <1>1 DEF ThreadTypeOK
<1>3. /\ ThreadTypeOK' /\ at'[t] = "idle"
      /\ \A u \in Thread \ {t} : at'[u] = at[u] /\ with'[u] = with[u]
  BY <1>1, GotoKeeps
<1>4. t \in Callers(h) /\ Callers(h)' = Callers(h) \ {t}
  BY <1>1, <1>2, <1>3 DEF Callers
<1>5. Cardinality(Callers(h)') = Cardinality(Callers(h)) - 1
  BY <1>4, CallersFinite, FS_RemoveElement
<1> DEFINE r == Unreferenced(refs, {h})
<1>6. ASSUME NEW x \in Proxy
      PROVE  /\ r[x] \in Nat /\ r[x] <= refs[x]
             /\ r[x] = Cardinality(Callers(x)') + One(handlers'[x[1]] = x)
  <2>1. /\ refs[x] = Cardinality(Callers(x)) + One(handlers[x[1]] = x)
        /\ Cardinality(Callers(x)) \in Nat
        /\ handlers'[x[1]] = handlers[x[1]]
    BY <1>1, CallersFinite DEF TableInv, Counted
  <2>2. One(handlers[x[1]] = x) \in {0, 1}
    BY DEF One
  <2>3. CASE x = h
    <3>1. Cardinality(Callers(x)) > 0
      BY <1>4, <2>1, <2>3, CallersFinite, FS_EmptySet
    <3>2. r[x] = refs[x] - 1
      BY <2>3 DEF Unreferenced
    <3> QED
      BY <1>5, <2>1, <2>2, <2>3, <3>1, <3>2
  <2>4. CASE x # h
    <3>1. r[x] = refs[x]
      BY <2>4 DEF Unreferenced
    <3>2. Callers(x)' = Callers(x)
      BY <1>2, <1>3, <1>1, <2>4 DEF Callers
    <3> QED
      BY <2>1, <2>2, <3>1, <3>2
  <2> QED
    BY <2>3, <2>4
<1>7. r \in [Proxy -> Nat]
  BY <1>6 DEF Unreferenced
<1>8. /\ handlers' \in [Key -> Proxy \cup {None}]
      /\ \A k \in Key : handlers'[k] # None => handlers'[k] = handlers[k]
      /\ \A k \in Key : handlers'[k] \in gone => handlers'[k] \in gone'
      /\ gone' \subseteq gone
  BY <1>1 DEF TableInv, ManagerTypeOK
<1>9. SetRefs(r)
  BY <1>1, <1>2
<1> HIDE DEF r
<1> QED
  BY <1>1, <1>3, <1>6, <1>7, <1>8, <1>9, SetRefsKeeps

-----------------------------------------------------------------------------
(* Lemmas: the plugin host.                                                  *)

HostAll == HostTypeOK /\ HostInv

LEMMA HostInitialized ==
  ASSUME HostAll, InitPlugins, IHave(MimesOf(UNION {Types[p] : p \in files}))
  PROVE  HostAll'
<1>1. /\ stage = "start" /\ stage' = "loaded" /\ registrations' = files
      /\ opens' = [p \in Plugin |-> IF p \in files THEN 1 ELSE 0]
      /\ plugins' \in [Key -> Plugin \cup {None}]
      /\ \A k \in Key : IF Best(files, k) = {} THEN plugins'[k] = None
                        ELSE plugins'[k] \in Best(files, k)
      /\ UNCHANGED <<files, events, stopping, missed, changes>>
  BY DEF InitPlugins
<1>2. events = <<>> /\ stopping = None /\ files \subseteq Plugin
  BY <1>1 DEF HostAll, HostInv, Opened, HostTypeOK
<1>3. HostTypeOK'
  <2>1. opens' \in [Plugin -> 0..(MaxFiles + 1)]
    BY <1>1, HostAssumption
  <2> QED
    BY <1>1, <1>2, <2>1 DEF HostAll, HostTypeOK
<1>4. ASSUME NEW k \in Key, plugins'[k] # None
      PROVE  plugins'[k] \in files /\ k[2] \in thumberHas'
  <2>1. plugins'[k] \in files /\ k \in Types[plugins'[k]]
    BY <1>1, <1>4 DEF Best
  <2>2. k \in UNION {Types[p] : p \in files}
    BY <2>1
  <2>3. k[2] \in MimesOf(UNION {Types[p] : p \in files})
    BY <2>2 DEF MimesOf
  <2> QED
    BY <2>1, <2>3 DEF IHave, Added
<1>5. Opened'
  <2>1. \A p \in registrations' : opens'[p] > 0 /\ p # stopping'
    BY <1>1, <1>2, HostAssumption
  <2> QED
    BY <1>1, <1>2, <1>4, <2>1 DEF Opened
<1>6. Room'
  <2>1. Len(events) = 0 /\ changes \in Nat
    BY <1>2 DEF HostAll, HostTypeOK
  <2> QED
    BY <1>1, <2>1 DEF Room
<1>7. LastTells'
  BY <1>1, <1>2 DEF LastTells
<1>8. RegistrationsFollowFiles'
  BY <1>1 DEF RegistrationsFollowFiles
<1> QED
  BY <1>3, <1>5, <1>6, <1>7, <1>8 DEF HostAll, HostInv

LEMMA MonitorKeeps ==
  ASSUME HostAll, MakeMonitor, UNCHANGED thumberHas
  PROVE  HostAll'
<1>1. /\ stage = "loaded" /\ stage' = "monitoring"
      /\ UNCHANGED <<files, events, registrations, opens, plugins, stopping, missed, changes>>
  BY DEF MakeMonitor
<1> QED
  BY <1>1 DEF HostAll, HostInv, HostTypeOK, Opened, Room, LastTells, RegistrationsFollowFiles

\* A change of the plugin directory: the last report of it says what there is.
LEMMA ReportKeeps ==
  ASSUME HostAll, NEW p \in Plugin, NEW type \in {"created", "deleted"},
         Reported(type, p),
         files' = IF type = "created" THEN files \cup {p} ELSE files \ {p},
         UNCHANGED thumberHas
  PROVE  HostAll'
<1> DEFINE new == [type |-> type, plugin |-> p]
<1>1. /\ changes < MaxFiles /\ changes' = changes + 1
      /\ UNCHANGED <<stage, registrations, opens, plugins, stopping>>
  BY DEF Reported
<1>2. /\ HostTypeOK /\ Opened /\ Room /\ LastTells /\ RegistrationsFollowFiles
  BY DEF HostAll, HostInv
<1>3. /\ changes' \in 0..MaxFiles /\ files' \subseteq Plugin
      /\ \A x \in Plugin \ {p} : x \in files' <=> x \in files
      /\ p \in files' <=> type = "created"
  BY <1>1, <1>2, HostAssumption DEF HostTypeOK
<1>4. CASE stage = "monitoring"
  <2>1. events' = Append(events, new) /\ missed' = missed
    BY <1>4 DEF Reported
  <2>2. new \in Event /\ events \in Seq(Event)
    BY <1>2 DEF HostTypeOK, Event
  <2>3. /\ events' \in Seq(Event) /\ Len(events') = Len(events) + 1 /\ Len(events) \in Nat
        /\ \A i \in 1..Len(events) : events'[i] = events[i]
        /\ events'[Len(events) + 1] = new
    BY <2>1, <2>2
  <2>4. HostTypeOK'
    BY <1>1, <1>2, <1>3, <2>1, <2>3 DEF HostTypeOK
  <2>5. Opened'
    BY <1>1, <1>2, <1>4 DEF Opened
  <2>6. Room'
    BY <1>1, <1>2, <2>3, HostAssumption DEF Room, HostTypeOK
  <2>7. LastTells'
    <3> SUFFICES ASSUME NEW i \in 1..Len(events'),
                        \A j \in (i + 1)..Len(events') : events'[j].plugin # events'[i].plugin
                 PROVE  events'[i].type = "created" <=> events'[i].plugin \in files'
      BY DEF LastTells
    <3>1. CASE i = Len(events) + 1
      BY <1>3, <2>3, <3>1
    <3>2. CASE i \in 1..Len(events)
      <4>1. Len(events) + 1 \in (i + 1)..Len(events')
        BY <2>3, <3>2
      <4>2. events[i].plugin # p
        BY <2>3, <3>2, <4>1
      <4>3. events[i] \in Event
        BY <2>2, <3>2
      <4>a. events[i].plugin \in Plugin
        BY <4>3 DEF Event
      <4>4. \A j \in (i + 1)..Len(events) : events[j].plugin # events[i].plugin
        BY <2>3, <3>2
      <4> QED
        BY <1>2, <1>3, <2>3, <3>2, <4>2, <4>a, <4>4 DEF LastTells
    <3> QED
      BY <2>3, <3>1, <3>2
  <2>8. RegistrationsFollowFiles'
    <3> SUFFICES ASSUME NEW x \in Plugin \ missed',
                        \A i \in DOMAIN events' : events'[i].plugin # x
                 PROVE  x \in registrations' <=> x \in files'
      BY DEF RegistrationsFollowFiles
    <3>1. DOMAIN events = 1..Len(events) /\ DOMAIN events' = 1..(Len(events) + 1)
      BY <2>2, <2>3
    <3>2. x # p
      BY <2>3, <3>1
    <3>3. \A i \in DOMAIN events : events[i].plugin # x
      BY <2>3, <3>1
    <3> QED
      BY <1>1, <1>2, <1>3, <1>4, <2>1, <3>2, <3>3 DEF RegistrationsFollowFiles
  <2> QED
    BY <2>4, <2>5, <2>6, <2>7, <2>8 DEF HostAll, HostInv
<1>5. CASE stage # "monitoring"
  <2>1. /\ missed' = missed \cup {q \in {p} : stage = "loaded"} /\ events' = events
        /\ events = <<>>
    BY <1>2, <1>5 DEF Reported, Opened
  <2>2. HostTypeOK'
    BY <1>1, <1>2, <1>3, <2>1 DEF HostTypeOK
  <2>3. Opened' /\ LastTells'
    BY <1>1, <1>2, <1>5, <2>1 DEF Opened, LastTells
  <2>4. Room'
    BY <1>1, <1>2, <2>1, HostAssumption DEF Room, HostTypeOK
  <2>5. RegistrationsFollowFiles'
    BY <1>1, <1>2, <1>3, <1>5, <2>1 DEF RegistrationsFollowFiles, HostTypeOK
  <2> QED
    BY <2>2, <2>3, <2>4, <2>5 DEF HostAll, HostInv
<1> QED
  BY <1>4, <1>5

\* The first report is taken: what is left says the same of the others, and if
\* it was the last of its file, it says whether that is there.
LEMMA ReportTaken ==
  ASSUME HostAll, events # <<>>, events' = Tail(events), UNCHANGED <<files, changes>>
  PROVE  /\ Head(events) \in Event /\ stage = "monitoring"
         /\ events' \in Seq(Event) /\ Len(events') = Len(events) - 1
         /\ Len(events) \in Nat \ {0}
         /\ LastTells'
         /\ (\A i \in DOMAIN events' : events'[i].plugin # Head(events).plugin) =>
              (Head(events).type = "created" <=> Head(events).plugin \in files)
         /\ \A x : /\ x # Head(events).plugin
                   /\ \A i \in DOMAIN events' : events'[i].plugin # x
                   => \A i \in DOMAIN events : events[i].plugin # x
<1>1. events \in Seq(Event) /\ LastTells /\ stage = "monitoring"
  BY DEF HostAll, HostInv, HostTypeOK, Opened
<1>2. /\ Head(events) = events[1] /\ Head(events) \in Event
      /\ events' \in Seq(Event) /\ Len(events') = Len(events) - 1 /\ Len(events) \in Nat \ {0}
      /\ \A i \in 1..Len(events') : events'[i] = events[i + 1]
      /\ DOMAIN events = 1..Len(events) /\ DOMAIN events' = 1..Len(events')
  BY <1>1
<1>3. \A j \in 2..Len(events) : j - 1 \in 1..Len(events') /\ events[j] = events'[j - 1]
  BY <1>2
<1>4. LastTells'
  <2> SUFFICES ASSUME NEW i \in 1..Len(events'),
                      \A j \in (i + 1)..Len(events') : events'[j].plugin # events'[i].plugin
               PROVE  events'[i].type = "created" <=> events'[i].plugin \in files'
    BY DEF LastTells
  <2>1. i + 1 \in 1..Len(events) /\ events'[i] = events[i + 1]
    BY <1>2
  <2>2. ASSUME NEW j \in ((i + 1) + 1)..Len(events)
        PROVE  events[j].plugin # events[i + 1].plugin
    <3>1. j \in 2..Len(events) /\ j - 1 \in (i + 1)..Len(events')
      BY <1>2
    <3>2. events[j] = events'[j - 1]
      BY <1>3, <3>1
    <3> QED
      BY <2>1, <3>1, <3>2
  <2> QED
    BY <1>1, <2>1, <2>2 DEF LastTells
<1>5. ASSUME \A i \in DOMAIN events' : events'[i].plugin # Head(events).plugin
      PROVE  Head(events).type = "created" <=> Head(events).plugin \in files
  <2>1. ASSUME NEW j \in (1 + 1)..Len(events)
        PROVE  events[j].plugin # events[1].plugin
    <3>1. j \in 2..Len(events) /\ j - 1 \in DOMAIN events'
      BY <1>2, <1>3
    <3> QED
      BY <1>2, <1>3, <1>5, <3>1
  <2>2. 1 \in 1..Len(events)
    BY <1>2
  <2> QED
    BY <1>1, <1>2, <2>1, <2>2 DEF LastTells
<1>6. ASSUME NEW x, x # Head(events).plugin,
             \A i \in DOMAIN events' : events'[i].plugin # x,
             NEW i \in DOMAIN events
      PROVE  events[i].plugin # x
  <2>1. CASE i = 1
    BY <1>2, <1>6, <2>1
  <2>2. CASE i \in 2..Len(events)
    BY <1>2, <1>3, <1>6, <2>2
  <2> QED
    BY <1>2, <2>1, <2>2
<1> QED
  BY <1>1, <1>2, <1>4, <1>5, <1>6

\* on_plugin_changed: what a report does to the registrations of its file makes
\* them agree with the file if it was the last report about it.
LEMMA RegistrationsKeep ==
  ASSUME HostAll, events # <<>>, events' = Tail(events),
         UNCHANGED <<stage, files, changes>>,
         NEW p \in Plugin, p = Head(events).plugin, missed' = missed \ {p},
         \A x \in Plugin \ {p} : x \in registrations' <=> x \in registrations,
         (Head(events).type = "created" <=> p \in files) =>
           (p \in registrations' <=> p \in files)
  PROVE  RegistrationsFollowFiles'
<1>1. /\ Head(events) \in Event /\ stage = "monitoring"
      /\ (\A i \in DOMAIN events' : events'[i].plugin # p) =>
           (Head(events).type = "created" <=> p \in files)
      /\ \A x : /\ x # p
                /\ \A i \in DOMAIN events' : events'[i].plugin # x
                => \A i \in DOMAIN events : events[i].plugin # x
  BY ReportTaken
<1>2. RegistrationsFollowFiles
  BY DEF HostAll, HostInv
<1> SUFFICES ASSUME NEW x \in Plugin \ missed',
                    \A i \in DOMAIN events' : events'[i].plugin # x
             PROVE  x \in registrations' <=> x \in files
  BY DEF RegistrationsFollowFiles
<1>3. CASE x = p
  BY <1>1, <1>3
<1>4. CASE x # p
  <2>1. x \in Plugin \ missed /\ \A i \in DOMAIN events : events[i].plugin # x
    BY <1>1, <1>4
  <2>2. x \in registrations <=> x \in files
    BY <1>1, <1>2, <2>1 DEF RegistrationsFollowFiles
  <2> QED
    BY <1>4, <2>2
<1> QED
  BY <1>3, <1>4

LEMMA CreatedKeeps ==
  ASSUME HostAll, NEW p \in Plugin, OnCreated(p), IHave(MimesOf(Types[p]))
  PROVE  HostAll'
<1>1. /\ stopping = None /\ events # <<>> /\ Head(events) = [type |-> "created", plugin |-> p]
      /\ events' = Tail(events) /\ opens' = [opens EXCEPT ![p] = @ + 1]
      /\ plugins' = Registered(p) /\ registrations' = registrations \cup {p}
      /\ missed' = missed \ {p}
      /\ UNCHANGED <<stage, files, stopping, changes>>
  BY DEF OnCreated
<1>2. /\ HostTypeOK /\ Opened /\ Room /\ LastTells /\ RegistrationsFollowFiles
  BY DEF HostAll, HostInv
<1>3. /\ events' \in Seq(Event) /\ Len(events') = Len(events) - 1
      /\ Len(events) \in Nat \ {0} /\ LastTells' /\ stage = "monitoring"
  BY <1>1, ReportTaken
<1>4. opens \in [Plugin -> 0..(MaxFiles + 1)] /\ changes \in 0..MaxFiles /\ MaxFiles \in Nat
  BY <1>2, HostAssumption DEF HostTypeOK
<1>5. ASSUME NEW x \in Plugin
      PROVE  /\ opens'[x] = IF x = p THEN opens[x] + 1 ELSE opens[x]
             /\ opens'[x] \in Nat /\ opens'[x] + Len(events') <= changes + 1
             /\ opens'[x] >= opens[x]
  <2>1. opens[x] \in Nat /\ opens[x] + Len(events) <= changes + 1
    BY <1>2, <1>4 DEF Room
  <2> QED
    BY <1>1, <1>3, <1>4, <2>1
<1>6. opens' \in [Plugin -> 0..(MaxFiles + 1)]
  <2>1. \A x \in Plugin : opens'[x] \in 0..(MaxFiles + 1)
    BY <1>3, <1>4, <1>5
  <2> QED
    BY <1>1, <1>4, <2>1
<1>7. /\ plugins' \in [Key -> Plugin \cup {None}]
      /\ \A k \in Key : plugins'[k] = plugins[k] \/ (k \in Types[p] /\ plugins'[k] = p)
  BY <1>1, <1>2 DEF Registered, HostTypeOK
<1>8. HostTypeOK'
  BY <1>1, <1>2, <1>3, <1>6, <1>7 DEF HostTypeOK
<1>9. Opened'
  <2>1. ASSUME NEW k \in Key, plugins'[k] # None
        PROVE  plugins'[k] \in registrations' /\ k[2] \in thumberHas'
    <3>1. CASE plugins'[k] = plugins[k]
      BY <1>1, <1>2, <2>1, <3>1 DEF Opened, IHave, Added
    <3>2. CASE k \in Types[p] /\ plugins'[k] = p
      BY <1>1, <3>2 DEF IHave, Added, MimesOf
    <3> QED
      BY <1>7, <3>1, <3>2
  <2>2. ASSUME NEW x \in registrations'
        PROVE  opens'[x] > 0 /\ x # stopping'
    <3>1. x \in Plugin /\ opens[x] \in Nat
      BY <1>1, <1>2, <1>4 DEF HostTypeOK
    <3>2. x # None
      BY <3>1, HostAssumption
    <3> QED
      BY <1>1, <1>2, <1>5, <3>1, <3>2 DEF Opened
  <2> QED
    BY <1>1, <1>3, <2>1, <2>2 DEF Opened
<1>10. Room'
  BY <1>1, <1>5 DEF Room
<1>11. RegistrationsFollowFiles'
  <2>1. p = Head(events).plugin /\ Head(events).type = "created"
    BY <1>1
  <2> QED
    BY <1>1, <2>1, RegistrationsKeep
<1> QED
  BY <1>3, <1>8, <1>9, <1>10, <1>11 DEF HostAll, HostInv

LEMMA NothingKeeps ==
  ASSUME HostAll, OnNothing, UNCHANGED thumberHas
  PROVE  HostAll'
<1> DEFINE p == Head(events).plugin
<1>1. /\ stopping = None /\ events # <<>> /\ events' = Tail(events)
      /\ \/ Head(events).type = "created" /\ ~Loads(p)
         \/ Head(events).type = "deleted" /\ p \notin registrations
      /\ missed' = missed \ {p}
      /\ UNCHANGED <<stage, files, registrations, opens, plugins, stopping, changes>>
  BY DEF OnNothing
<1>2. /\ HostTypeOK /\ Opened /\ Room /\ LastTells /\ RegistrationsFollowFiles
  BY DEF HostAll, HostInv
<1>3. /\ events' \in Seq(Event) /\ Len(events') = Len(events) - 1 /\ Head(events) \in Event
      /\ Len(events) \in Nat \ {0} /\ LastTells' /\ stage = "monitoring"
  BY <1>1, ReportTaken
<1>4. p \in Plugin
  BY <1>3 DEF Event
<1>5. HostTypeOK'
  BY <1>1, <1>2, <1>3 DEF HostTypeOK
<1>6. Opened'
  BY <1>1, <1>2, <1>3 DEF Opened
<1>7. Room'
  <2>1. opens \in [Plugin -> 0..(MaxFiles + 1)] /\ changes \in Nat
    BY <1>2, HostAssumption DEF HostTypeOK
  <2> QED
    BY <1>1, <1>2, <1>3, <2>1, HostAssumption DEF Room
<1>8. (Head(events).type = "created" <=> p \in files) =>
        (p \in registrations' <=> p \in files)
  <2>1. CASE Head(events).type = "created"
    BY <1>1, <2>1 DEF Loads
  <2>2. CASE Head(events).type # "created"
    BY <1>1, <2>2
  <2> QED
    BY <2>1, <2>2
<1> HIDE DEF p
<1>9. RegistrationsFollowFiles'
  <2>1. p = Head(events).plugin
    BY DEF p
  <2> QED
    BY <1>1, <1>4, <1>8, <2>1, RegistrationsKeep
<1> QED
  BY <1>3, <1>5, <1>6, <1>7, <1>9 DEF HostAll, HostInv

LEMMA DeletedKeeps ==
  ASSUME HostAll, NEW p \in Plugin, OnDeleted(p), UNCHANGED thumberHas
  PROVE  HostAll'
<1>1. /\ stopping = None /\ events # <<>> /\ Head(events) = [type |-> "deleted", plugin |-> p]
      /\ p \in registrations
      /\ events' = Tail(events) /\ registrations' = registrations \ {p}
      /\ plugins' = Unregistered(p) /\ stopping' = p /\ missed' = missed \ {p}
      /\ UNCHANGED <<stage, files, opens, changes>>
  BY DEF OnDeleted, RegistrationRemoved
<1>2. /\ HostTypeOK /\ Opened /\ Room /\ LastTells /\ RegistrationsFollowFiles
  BY DEF HostAll, HostInv
<1>3. /\ events' \in Seq(Event) /\ Len(events') = Len(events) - 1
      /\ Len(events) \in Nat \ {0} /\ LastTells' /\ stage = "monitoring"
  BY <1>1, ReportTaken
<1>4. /\ plugins' \in [Key -> Plugin \cup {None}]
      /\ \A k \in Key : plugins'[k] # None => plugins'[k] = plugins[k] /\ plugins[k] # p
  BY <1>1, <1>2 DEF Unregistered, HostTypeOK
<1>5. HostTypeOK'
  BY <1>1, <1>2, <1>3, <1>4 DEF HostTypeOK
<1>6. Opened'
  BY <1>1, <1>2, <1>3, <1>4 DEF Opened
<1>7. Room'
  <2>1. opens \in [Plugin -> 0..(MaxFiles + 1)] /\ changes \in Nat
    BY <1>2, HostAssumption DEF HostTypeOK
  <2> QED
    BY <1>1, <1>2, <1>3, <2>1, HostAssumption DEF Room
<1>8. RegistrationsFollowFiles'
  <2>1. p = Head(events).plugin /\ Head(events).type # "created"
    BY <1>1
  <2> QED
    BY <1>1, <2>1, RegistrationsKeep
<1> QED
  BY <1>3, <1>5, <1>6, <1>7, <1>8 DEF HostAll, HostInv

\* hildon_thumbnail_plugin_do_stop closes a module that is not registered.
LEMMA StopKeeps ==
  ASSUME HostAll, DoStop, UNCHANGED thumberHas
  PROVE  HostAll'
<1>1. /\ stopping # None /\ opens' = [opens EXCEPT ![stopping] = opens[stopping] - 1]
      /\ stopping' = None
      /\ UNCHANGED <<stage, files, events, registrations, plugins, missed, changes>>
  BY DEF DoStop, Closed
<1>2. /\ HostTypeOK /\ Opened /\ Room /\ LastTells /\ RegistrationsFollowFiles
  BY DEF HostAll, HostInv
<1>3. /\ stopping \in Plugin /\ opens \in [Plugin -> 0..(MaxFiles + 1)]
      /\ opens[stopping] > 0 /\ MaxFiles \in Nat /\ changes \in Nat /\ Len(events) \in Nat
  BY <1>1, <1>2, HostAssumption DEF HostTypeOK, Opened
<1>4. ASSUME NEW x \in Plugin
      PROVE  /\ opens'[x] \in 0..(MaxFiles + 1) /\ opens'[x] <= opens[x]
             /\ x # stopping => opens'[x] = opens[x]
  BY <1>1, <1>3
<1>5. opens' \in [Plugin -> 0..(MaxFiles + 1)]
  BY <1>1, <1>3, <1>4
<1>6. HostTypeOK'
  BY <1>1, <1>2, <1>5 DEF HostTypeOK
<1>7. Opened'
  <2>1. ASSUME NEW x \in registrations' PROVE opens'[x] > 0 /\ x # stopping'
    <3>1. x \in Plugin /\ x \in registrations
      BY <1>1, <1>2 DEF HostTypeOK
    <3> QED
      BY <1>1, <1>2, <1>4, <3>1, HostAssumption DEF Opened
  <2> QED
    BY <1>1, <1>2, <2>1 DEF Opened
<1>8. Room'
  <2>1. ASSUME NEW x \in Plugin PROVE opens'[x] + Len(events') <= changes' + 1
    <3>1. opens[x] \in Nat /\ opens'[x] \in Nat /\ opens[x] + Len(events) <= changes + 1
      BY <1>2, <1>3, <1>4 DEF Room
    <3> QED
      BY <1>1, <1>3, <1>4, <3>1
  <2> QED
    BY <2>1 DEF Room
<1>9. LastTells' /\ RegistrationsFollowFiles'
  BY <1>1, <1>2 DEF LastTells, RegistrationsFollowFiles
<1> QED
  BY <1>6, <1>7, <1>8, <1>9 DEF HostAll, HostInv

LEMMA HostStays ==
  ASSUME HostAll, UNCHANGED <<hostVars, thumberHas>>
  PROVE  HostAll'
BY DEF HostAll, HostInv, HostTypeOK, hostVars, Opened, Room, LastTells, RegistrationsFollowFiles

-----------------------------------------------------------------------------
(* The invariant.                                                            *)

LEMMA Parts ==
  /\ IInv <=> TableInv /\ HostAll /\ ThreadTypeOK /\ acts \in 0..MaxChanges
  /\ IInv' <=> TableInv' /\ HostAll' /\ ThreadTypeOK' /\ acts' \in 0..MaxChanges
BY DEF IInv, TypeOK, ManagerInv, HostInv, TableInv, HostAll, ThreadTypeOK

LEMMA InitIInv == Init => IInv
<1> SUFFICES ASSUME Init PROVE IInv
  OBVIOUS
<1> USE DEF Init
<1>1. ManagerTypeOK
  <2>1. <<"system", "home">> \in Seq(Dir)
    BY DEF Dir
  <2>2. \A p \in Proxy : name[p] # None <=> refs[p] > 0
    BY DEF ManagerInit
  <2> QED
    BY <2>1, <2>2 DEF ManagerInit, ManagerTypeOK
<1>2. Keyed /\ ClientsHooked /\ NoHandlerOfTheDead
  BY DEF ManagerInit, Keyed, ClientsHooked, NoHandlerOfTheDead
<1>3. Counted
  <2> SUFFICES ASSUME NEW p \in Proxy
               PROVE  refs[p] = Cardinality(Callers(p)) + One(handlers[p[1]] = p)
    BY DEF Counted
  <2>1. Callers(p) = {}
    BY DEF Callers
  <2>2. Cardinality(Callers(p)) = 0
    BY <2>1, FS_EmptySet
  <2>3. handlers[p[1]] # p /\ refs[p] = 0
    BY ProxyParts DEF ManagerInit
  <2> QED
    BY <2>2, <2>3 DEF One
<1>4. HostTypeOK
  BY HostAssumption DEF HostInit, HostTypeOK
<1>5. Opened /\ Room /\ LastTells /\ RegistrationsFollowFiles
  BY DEF HostInit, Opened, Room, LastTells, RegistrationsFollowFiles
<1>6. ThreadTypeOK /\ acts \in 0..MaxChanges
  BY ThreadAssumption DEF ThreadTypeOK
<1> QED
  BY <1>1, <1>2, <1>3, <1>4, <1>5, <1>6, Parts DEF TableInv, HostAll, HostInv

\* A pool thread's steps leave the plugin host alone.
LEMMA ThreadStepKeeps ==
  ASSUME IInv, NEW t \in Thread, ThreadStep(t)
  PROVE  IInv'
<1>0. TableInv /\ HostAll /\ ThreadTypeOK /\ acts \in 0..MaxChanges
  BY Parts
<1>1. UNCHANGED <<hostVars, acts, thumberHas>>
  BY DEF ThreadStep, AskManager, GetHandler, DropProxy, Unref, GetPlugin, EnterPlugin,
         LeavePlugin, managerVars
<1>2. HostAll'
  BY <1>0, <1>1, HostStays
<1>3. CASE \E k \in Key : AskManager(t, k)
  BY <1>0, <1>1, <1>2, <1>3, AskKeeps, Parts
<1>4. CASE DropProxy(t)
  BY <1>0, <1>1, <1>2, <1>4, DropKeeps, Parts
<1>5. ASSUME NEW where, NEW what, Goto(t, where, what), UNCHANGED managerVars,
             at[t] # "proxy", where # "proxy",
             \/ where = "idle" /\ what = None
             \/ where \in {"found", "inside"} /\ what \in Plugin
      PROVE  IInv'
  <2>1. /\ ThreadTypeOK' /\ at'[t] = where
        /\ \A u \in Thread \ {t} : at'[u] = at[u] /\ with'[u] = with[u]
    BY <1>0, <1>5, GotoKeeps
  <2>2. \A p \in Proxy : Callers(p)' = Callers(p)
    BY <1>5, <2>1 DEF Callers
  <2>3. ManagerTypeOK' /\ UNCHANGED <<tableVars, gone, clients>>
    BY <1>0, <1>5 DEF TableInv, ManagerTypeOK, managerVars, tableVars
  <2>4. TableInv'
    BY <1>0, <2>2, <2>3, TableUntouched
  <2> QED
    BY <1>0, <1>1, <1>2, <2>1, <2>4, Parts
<1>6. CASE GetPlugin(t)
  <2>1. at[t] = "plugin" /\ with[t] \in Key /\ UNCHANGED managerVars
    BY <1>0, <1>6 DEF GetPlugin, ThreadTypeOK
  <2>2. plugins[with[t]] \in Plugin \cup {None}
    BY <1>0, <2>1 DEF HostAll, HostTypeOK
  <2>3. \/ Goto(t, "idle", None)
        \/ plugins[with[t]] \in Plugin /\ Goto(t, "found", plugins[with[t]])
    BY <1>6, <2>2 DEF GetPlugin
  <2> QED
    BY <1>5, <2>1, <2>3
<1>7. CASE EnterPlugin(t)
  <2>1. /\ at[t] = "found" /\ with[t] \in Plugin /\ Goto(t, "inside", with[t])
        /\ UNCHANGED managerVars
    BY <1>0, <1>7 DEF EnterPlugin, ThreadTypeOK
  <2> QED
    BY <1>5, <2>1
<1>8. CASE LeavePlugin(t)
  <2>1. at[t] = "inside" /\ Goto(t, "idle", None) /\ UNCHANGED managerVars
    BY <1>8 DEF LeavePlugin
  <2> QED
    BY <1>5, <2>1
<1> QED
  BY <1>3, <1>4, <1>6, <1>7, <1>8 DEF ThreadStep

LEMMA TypesKnown ==
  /\ \A p \in Plugin : MimesOf(Types[p]) \in SUBSET Mime
  /\ MimesOf(UNION {Types[p] : p \in files \cap Plugin}) \in SUBSET Mime
<1>1. \A p \in Plugin : Types[p] \subseteq Key
  BY HostAssumption
<1>2. \A K \in SUBSET Key : MimesOf(K) \in SUBSET Mime
  BY DEF MimesOf, Key
<1> QED
  BY <1>1, <1>2

\* The main loop's handlers: of the table, and of the plugin host.
LEMMA MainLoopKeeps ==
  ASSUME IInv, MainLoop
  PROVE  IInv'
<1>0. TableInv /\ HostAll /\ ThreadTypeOK /\ acts \in 0..MaxChanges
  BY Parts
<1>1. UNCHANGED <<threadVars, acts>>
  BY DEF MainLoop, Start, HandleGone, HandleRegister, HandlePluginCreated,
         HandlePluginDeleted, StopPlugin
<1>2. ThreadTypeOK' /\ acts' \in 0..MaxChanges
  BY <1>0, <1>1 DEF ThreadTypeOK, threadVars
<1>3. ASSUME TableInv', HostAll' PROVE IInv'
  BY <1>2, <1>3, Parts
<1>4. CASE Check /\ UNCHANGED hostVars
  <2>1. UNCHANGED thumberHas
    BY <1>4 DEF Check
  <2> QED
    BY <1>0, <1>1, <1>3, <1>4, <2>1, CheckKeeps, HostStays
<1>5. CASE InitPlugins /\ IHave(MimesOf(UNION {Types[p] : p \in files}))
  <2>1. files \cap Plugin = files
    BY <1>0 DEF HostAll, HostTypeOK
  <2>2. MimesOf(UNION {Types[p] : p \in files}) \in SUBSET Mime
    BY <2>1, TypesKnown
  <2>3. TableInv'
    BY <1>0, <1>1, <1>5, <2>2, OthersKeep
  <2> QED
    BY <1>0, <1>3, <1>5, <2>3, HostInitialized
<1>6. CASE MakeMonitor /\ UNCHANGED managerVars
  <2>1. UNCHANGED thumberHas
    BY <1>6 DEF managerVars
  <2> QED
    BY <1>0, <1>1, <1>3, <1>6, <2>1, OthersKeep, MonitorKeeps
<1>7. CASE HandleGone
  <2>1. PICK p \in gone : ServiceGone(p) /\ UNCHANGED hostVars
    BY <1>7 DEF HandleGone
  <2>2. p \in Proxy /\ UNCHANGED thumberHas
    BY <1>0, <2>1 DEF TableInv, ManagerTypeOK, ServiceGone
  <2> QED
    BY <1>0, <1>1, <1>3, <2>1, <2>2, ServiceGoneKeeps, HostStays
<1>8. CASE HandleRegister
  <2>1. PICK c \in Client, k \in Key : Register(c, k) /\ UNCHANGED hostVars
    BY <1>8 DEF HandleRegister
  <2>2. UNCHANGED thumberHas
    BY <2>1 DEF Register
  <2> QED
    BY <1>0, <1>1, <1>3, <2>1, <2>2, RegisterKeeps, HostStays
<1>9. CASE HandlePluginCreated
  <2>1. PICK p \in Plugin : OnCreated(p) /\ IHave(MimesOf(Types[p]))
    BY <1>9 DEF HandlePluginCreated
  <2> QED
    BY <1>0, <1>1, <1>3, <2>1, TypesKnown, OthersKeep, CreatedKeeps
<1>10. CASE HandlePluginDeleted
  <2>1. UNCHANGED managerVars /\ UNCHANGED thumberHas
    BY <1>10 DEF HandlePluginDeleted, managerVars
  <2>2. TableInv'
    BY <1>0, <1>1, <2>1, OthersKeep
  <2>3. HostAll'
    BY <1>0, <1>10, <2>1, NothingKeeps, DeletedKeeps DEF HandlePluginDeleted
  <2> QED
    BY <1>3, <2>2, <2>3
<1>11. CASE StopPlugin
  <2>1. DoStop /\ UNCHANGED managerVars /\ UNCHANGED thumberHas
    BY <1>11 DEF StopPlugin, managerVars
  <2> QED
    BY <1>0, <1>1, <1>3, <2>1, OthersKeep, StopKeeps
<1> QED
  BY <1>4, <1>5, <1>6, <1>7, <1>8, <1>9, <1>10, <1>11 DEF MainLoop, Start

LEMMA OutsideKeeps ==
  ASSUME IInv, Outside
  PROVE  IInv'
<1>0. TableInv /\ HostAll /\ ThreadTypeOK /\ acts \in 0..MaxChanges
  BY Parts
<1>1. acts < MaxChanges /\ acts' = acts + 1 /\ UNCHANGED threadVars
  BY DEF Outside
<1>2. ThreadTypeOK' /\ acts' \in 0..MaxChanges
  BY <1>0, <1>1, ThreadAssumption DEF ThreadTypeOK, threadVars
<1>3. ASSUME TableInv', HostAll' PROVE IInv'
  BY <1>2, <1>3, Parts
<1>4. CASE (ClientsAct \/ ServicesChange) /\ UNCHANGED hostVars
  <2>1. UNCHANGED thumberHas
    BY <1>4 DEF ClientsAct, ServicesChange, CallRegister, Leave, OnFileChanged, OnDirCreated
  <2>2. HostAll'
    BY <1>0, <1>4, <2>1, HostStays
  <2>3. TableInv'
    <3>1. CASE \E c \in Client, k \in Key : CallRegister(c, k)
      BY <1>0, <1>1, <3>1, OthersKeep
    <3>2. CASE \E c \in Client : Leave(c)
      BY <1>0, <1>1, <3>2, LeaveKeeps
    <3>3. CASE \E d \in Dir, c \in Contents : OnFileChanged(d, c)
      BY <1>0, <1>1, <3>3, OthersKeep
    <3>4. CASE \E d \in Dir, c \in Contents : OnDirCreated(d, c)
      BY <1>0, <1>1, <3>4, OnDirCreatedKeeps
    <3> QED
      BY <1>4, <3>1, <3>2, <3>3, <3>4 DEF ClientsAct, ServicesChange
  <2> QED
    BY <1>3, <2>2, <2>3
<1>5. CASE PluginsChange /\ UNCHANGED managerVars
  <2>1. UNCHANGED thumberHas
    BY <1>5 DEF managerVars
  <2>2. TableInv'
    BY <1>0, <1>1, <1>5, OthersKeep
  <2>3. PICK p \in Plugin : FileCreated(p) \/ FileDeleted(p)
    BY <1>5 DEF PluginsChange
  <2>4. CASE FileCreated(p)
    BY <1>0, <1>3, <2>1, <2>2, <2>4, ReportKeeps DEF FileCreated
  <2>5. CASE FileDeleted(p)
    BY <1>0, <1>3, <2>1, <2>2, <2>5, ReportKeeps DEF FileDeleted
  <2> QED
    BY <2>3, <2>4, <2>5
<1> QED
  BY <1>4, <1>5 DEF Outside

\* Every step keeps the invariant.
THEOREM Inductive == Spec => []IInv
<1>1. Init => IInv
  BY InitIInv
<1>2. IInv /\ [Next]_vars => IInv'
  <2> SUFFICES ASSUME IInv, [Next]_vars PROVE IInv'
    OBVIOUS
  <2>1. CASE \E t \in Thread : ThreadStep(t)
    BY <2>1, ThreadStepKeeps
  <2>2. CASE MainLoop
    BY <2>2, MainLoopKeeps
  <2>3. CASE Outside
    BY <2>3, OutsideKeeps
  <2>4. CASE UNCHANGED vars
    <3>1. UNCHANGED <<managerVars, hostVars, threadVars, acts, thumberHas>>
      BY <2>4 DEF vars, managerVars
    <3>2. TableInv' /\ HostAll'
      BY <3>1, Parts, OthersKeep, HostStays
    <3>3. ThreadTypeOK' /\ acts' \in 0..MaxChanges
      BY <3>1, Parts DEF ThreadTypeOK, threadVars
    <3> QED
      BY <3>2, <3>3, Parts
  <2> QED
    BY <2>1, <2>2, <2>3, <2>4 DEF Next
<1> QED
  BY <1>1, <1>2, PTL DEF Spec

\* The proxy a thread calls has a reference left, the thread's own at least,
\* however often thumbnail_manager_add and service_gone drop the table's.
THEOREM ProxyAlwaysHeld == Spec => []ProxyHeld
<1>1. IInv => ProxyHeld
  <2> SUFFICES ASSUME IInv, NEW t \in Thread, at[t] = "proxy" PROVE refs[with[t]] > 0
    BY DEF IInv, ProxyHeld
  <2>1. PICK p \in Proxy : p = with[t]
    BY DEF IInv, TypeOK
  <2>2. refs[p] = Cardinality(Callers(p)) + One(handlers[p[1]] = p)
    BY DEF IInv, ManagerInv, Counted
  <2>3. t \in Callers(p)
    BY <2>1 DEF Callers
  <2>4. Cardinality(Callers(p)) \in Nat \ {0}
    BY <2>3, CallersFinite, FS_EmptySet
  <2> QED
    BY <2>1, <2>2, <2>4 DEF One
<1> QED
  BY <1>1, Inductive, PTL

\* A client that has left handles nothing, unless its call came after it left:
\* thumbnail_manager_register connects the new handler to service_gone.
THEOREM DeadHandleNothing == Spec => []NoHandlerOfTheDead
<1>1. IInv => NoHandlerOfTheDead
  BY DEF IInv, ManagerInv
<1> QED
  BY <1>1, Inductive, PTL

\* A plugin that a thread finds in plugins_perscheme is open, however many
\* reports on_plugin_changed has yet to handle.
THEOREM NothingDangles == Spec => []NoDanglingRegistration
<1>1. IInv => NoDanglingRegistration
  BY DEF IInv, HostInv, Opened, NoDanglingRegistration
<1> QED
  BY <1>1, Inductive, PTL

\* A plugin is registered if and only if its file is there, when the monitor
\* has nothing more to say of it and it did not change before the monitor.
THEOREM RegistrationsFollow == Spec => []RegistrationsFollowFiles
<1>1. IInv => RegistrationsFollowFiles
  BY DEF IInv, HostInv
<1> QED
  BY <1>1, Inductive, PTL

\* GetSupported names every mime type that has a handler or a plugin.
THEOREM SupportedComplete == Spec => []SupportedIsComplete
<1>1. IInv => SupportedIsComplete
  <2> SUFFICES ASSUME IInv, NEW k \in Key, handlers[k] # None \/ plugins[k] # None
               PROVE  k[2] \in Supported
    BY DEF SupportedIsComplete, MimesOf
  <2>1. CASE handlers[k] # None
    BY <2>1 DEF Supported, MimesOf
  <2>2. CASE plugins[k] # None
    BY <2>2 DEF IInv, HostInv, Opened, Supported
  <2> QED
    BY <2>1, <2>2
<1> QED
  BY <1>1, Inductive, PTL
=============================================================================
