--------------------------- MODULE FrontierProofs ---------------------------
(* Theorems about Frontier, for every site, fleet, seed list and bound.    *)
EXTENDS Frontier, SequenceTheorems, FiniteSetTheorems, TLAPS

-----------------------------------------------------------------------------
(* Sequences *)

\* The first and the remaining elements of a nonempty sequence.
LEMMA HeadTail ==
  ASSUME NEW S, NEW s \in Seq(S), s # <<>>
  PROVE  /\ Head(s) \in S
         /\ Tail(s) \in Seq(S)
         /\ Tail(s) = <<>> <=> Len(s) = 1
         /\ \A i \in DOMAIN Tail(s) : i + 1 \in DOMAIN s /\ Tail(s)[i] = s[i + 1]
<1>1. Head(s) \in S
  OBVIOUS
<1>2. Tail(s) \in Seq(S) /\ Len(Tail(s)) = Len(s) - 1
  OBVIOUS
<1>3. Tail(s) = <<>> <=> Len(s) = 1
  <2>1. \A q \in Seq(S) : q = <<>> <=> Len(q) = 0
    BY EmptySeq
  <2> QED  BY <1>2, <2>1, LenProperties
<1>4. \A i \in DOMAIN Tail(s) : i + 1 \in DOMAIN s /\ Tail(s)[i] = s[i + 1]
  BY <1>2
<1> QED  BY <1>1, <1>2, <1>3, <1>4

\* The elements of a sequence that grew by one.
LEMMA Appended ==
  ASSUME NEW S, NEW s \in Seq(S), NEW e \in S
  PROVE  /\ Append(s, e) \in Seq(S)
         /\ DOMAIN Append(s, e) = DOMAIN s \cup {Len(s) + 1}
         /\ Append(s, e)[Len(s) + 1] = e
         /\ \A i \in DOMAIN s : Append(s, e)[i] = s[i]
  OBVIOUS

-----------------------------------------------------------------------------
(* Threads *)

\* A move between two steps of AddURLs leaves the locals in order.
LEMMA AddMove ==
  ASSUME LocalsOK, NEW t \in Threads, pc[t] \in AddSteps,
         NEW l \in AddSteps, Goto(t, l), UNCHANGED <<todo, scan, held>>
  PROVE  LocalsOK'
<1>1. pc' \in [Threads -> Labels]
  BY DEF LocalsOK, Goto, Labels
<1>2. \A s \in Threads : ControlOK(s)'
  BY DEF LocalsOK, ControlOK, Goto, AddSteps, TryHost, TookUrl
<1> QED  BY <1>1, <1>2 DEF LocalsOK

\* So does the move to the next URL of the batch, or out of AddURLs.
LEMMA AddNext ==
  ASSUME LocalsOK, NEW t \in Threads, pc[t] \in AddSteps,
         NextUrl(t), UNCHANGED <<scan, held>>
  PROVE  LocalsOK'
<1>1. /\ todo[t] \in Seq(Entry) /\ todo[t] # <<>>
      /\ scan[t] = <<>>
      /\ held[t] # NoEntry <=> t \in Workers
  BY DEF LocalsOK, ControlOK, AddSteps, TryHost, TookUrl
<1>2. Tail(todo[t]) \in Seq(Entry) /\ (Tail(todo[t]) = <<>> <=> Len(todo[t]) = 1)
  BY <1>1, HeadTail
<1>3. todo' = [todo EXCEPT ![t] = Tail(todo[t])] /\ todo' \in [Threads -> Seq(Entry)]
  BY <1>2 DEF LocalsOK, NextUrl
<1>4. PICK l \in {"finish", "idle", "bloom"} :
        /\ Goto(t, l)
        /\ l = "bloom" <=> Tail(todo[t]) # <<>>
        /\ l = "finish" => t \in Workers
        /\ l = "idle" => t \notin Workers
  BY <1>2 DEF NextUrl, AfterAdd
<1>5. pc' \in [Threads -> Labels]
  BY <1>4 DEF LocalsOK, Goto, Labels, AddSteps
<1>6. \A s \in Threads : ControlOK(s)'
  <2>1. ControlOK(t)'
    BY <1>1, <1>2, <1>3, <1>4 DEF LocalsOK, ControlOK, Goto, AddSteps, TryHost, TookUrl
  <2>2. ASSUME NEW s \in Threads, s # t PROVE ControlOK(s)'
    BY <2>2, <1>3, <1>4 DEF LocalsOK, ControlOK, Goto
  <2> QED  BY <2>1, <2>2
<1> QED  BY <1>3, <1>5, <1>6 DEF LocalsOK

\* And so does leaving AddURLs early.
LEMMA AddAbort ==
  ASSUME LocalsOK, NEW t \in Threads, pc[t] \in AddSteps,
         AbortAdd(t), UNCHANGED <<scan, held>>
  PROVE  LocalsOK'
<1>1. /\ scan[t] = <<>>
      /\ held[t] # NoEntry <=> t \in Workers
  BY DEF LocalsOK, ControlOK, AddSteps, TryHost, TookUrl
<1>2. todo' = [todo EXCEPT ![t] = <<>>] /\ todo' \in [Threads -> Seq(Entry)]
  BY EmptySeq DEF LocalsOK, AbortAdd
<1>3. pc' \in [Threads -> Labels]
  BY DEF LocalsOK, AbortAdd, AfterAdd, Goto, Labels
<1>4. \A s \in Threads : ControlOK(s)'
  <2>1. ControlOK(t)'
    BY <1>1, <1>2 DEF LocalsOK, ControlOK, AbortAdd, AfterAdd, Goto,
                      AddSteps, TryHost, TookUrl
  <2>2. ASSUME NEW s \in Threads, s # t PROVE ControlOK(s)'
    BY <2>2, <1>2 DEF LocalsOK, ControlOK, AbortAdd, Goto
  <2> QED  BY <2>1, <2>2
<1> QED  BY <1>2, <1>3, <1>4 DEF LocalsOK

\* Entering AddURLs: a handler with a request, a worker with its links.
LEMMA AddStart ==
  ASSUME LocalsOK, NEW t \in Threads,
         (pc[t] = "idle" /\ t \notin Workers) \/ pc[t] = "process",
         NEW s \in Seq(Entry), s # <<>>,
         todo' = [todo EXCEPT ![t] = s], Goto(t, "bloom"), UNCHANGED <<scan, held>>
  PROVE  LocalsOK'
<1>1. pc' \in [Threads -> Labels]
  BY DEF LocalsOK, Goto, Labels, AddSteps
<1>2. \A x \in Threads : ControlOK(x)'
  <2>1. ControlOK(t)'
    BY DEF LocalsOK, ControlOK, Goto, AddSteps, TryHost, TookUrl
  <2>2. ASSUME NEW x \in Threads, x # t PROVE ControlOK(x)'
    BY <2>2 DEF LocalsOK, ControlOK, Goto
  <2> QED  BY <2>1, <2>2
<1> QED  BY <1>1, <1>2 DEF LocalsOK

\* A move within NextURL that keeps the host and the URL.
LEMMA ScanMove ==
  ASSUME LocalsOK, NEW t \in Threads, NEW l,
         \/ pc[t] \in TryHost /\ l \in TryHost
         \/ pc[t] \in TookUrl /\ l \in TookUrl,
         Goto(t, l), UNCHANGED <<todo, scan, held>>
  PROVE  LocalsOK'
<1>1. pc' \in [Threads -> Labels]
  BY DEF LocalsOK, Goto, Labels
<1>2. \A x \in Threads : ControlOK(x)'
  <2>1. ControlOK(t)'
    BY DEF LocalsOK, ControlOK, Goto, AddSteps, TryHost, TookUrl
  <2>2. ASSUME NEW x \in Threads, x # t PROVE ControlOK(x)'
    BY <2>2 DEF LocalsOK, ControlOK, Goto
  <2> QED  BY <2>1, <2>2
<1> QED  BY <1>1, <1>2 DEF LocalsOK

\* The next host of the scan, or the end of it.
LEMMA ScanNext ==
  ASSUME LocalsOK, NEW t \in Threads, pc[t] \in TryHost,
         NextHost(t), UNCHANGED <<todo, held>>
  PROVE  LocalsOK'
<1>1. /\ scan[t] \in Seq(Hosts) /\ scan[t] # <<>>
      /\ todo[t] = <<>> /\ held[t] = NoEntry /\ t \in Workers
  BY DEF LocalsOK, ControlOK, AddSteps, TryHost, TookUrl
<1>2. Tail(scan[t]) \in Seq(Hosts) /\ (Tail(scan[t]) = <<>> <=> Len(scan[t]) = 1)
  BY <1>1, HeadTail
<1>3. scan' = [scan EXCEPT ![t] = Tail(scan[t])] /\ scan' \in [Threads -> Seq(Hosts)]
  BY <1>2 DEF LocalsOK, NextHost
<1>4. PICK l \in {"idle", "ready"} : Goto(t, l) /\ (l = "ready" <=> Tail(scan[t]) # <<>>)
  BY <1>2 DEF NextHost
<1>5. pc' \in [Threads -> Labels]
  BY <1>4 DEF LocalsOK, Goto, Labels, TryHost
<1>6. \A s \in Threads : ControlOK(s)'
  <2>1. ControlOK(t)'
    BY <1>1, <1>2, <1>3, <1>4 DEF LocalsOK, ControlOK, Goto, AddSteps, TryHost, TookUrl
  <2>2. ASSUME NEW s \in Threads, s # t PROVE ControlOK(s)'
    BY <2>2, <1>3, <1>4 DEF LocalsOK, ControlOK, Goto
  <2> QED  BY <2>1, <2>2
<1> QED  BY <1>3, <1>5, <1>6 DEF LocalsOK

\* NextURL returns: with an error before a URL was taken, with the URL after.
LEMMA ScanLeave ==
  ASSUME LocalsOK, NEW t \in Threads, NEW l,
         \/ pc[t] \in TryHost /\ l = "idle"
         \/ pc[t] \in TookUrl /\ l = "process",
         Leave(t, l), UNCHANGED <<todo, held>>
  PROVE  LocalsOK'
<1>1. scan' = [scan EXCEPT ![t] = <<>>] /\ scan' \in [Threads -> Seq(Hosts)]
  BY EmptySeq DEF LocalsOK, Leave
<1>2. pc' \in [Threads -> Labels]
  BY DEF LocalsOK, Leave, Goto, Labels
<1>3. \A x \in Threads : ControlOK(x)'
  <2>1. ControlOK(t)'
    BY <1>1 DEF LocalsOK, ControlOK, Leave, Goto, AddSteps, TryHost, TookUrl
  <2>2. ASSUME NEW x \in Threads, x # t PROVE ControlOK(x)'
    BY <2>2, <1>1 DEF LocalsOK, ControlOK, Leave, Goto
  <2> QED  BY <2>1, <2>2
<1> QED  BY <1>1, <1>2, <1>3 DEF LocalsOK

-----------------------------------------------------------------------------
(* The queues *)

\* LPUSH and RPOP keep the Redis part typed.
LEMMA EnqueueOK ==
  ASSUME FrontierAssumption, RedisOK, NEW e \in Entry, Enqueue(e)
  PROVE  /\ queue' \in [Hosts -> Seq(Entry)]
         /\ \A h \in Hosts : \A i \in DOMAIN queue'[h] : HostOf[queue'[h][i].url] = h
<1> DEFINE k == HostOf[e.url]
<1>1. k \in Hosts /\ queue[k] \in Seq(Entry)
  BY DEF FrontierAssumption, Entry, RedisOK
<1>2. queue' = [queue EXCEPT ![k] = Append(queue[k], e)]
  BY DEF Enqueue
<1>3. /\ Append(queue[k], e) \in Seq(Entry)
      /\ \A i \in DOMAIN Append(queue[k], e) :
            \/ i \in DOMAIN queue[k] /\ Append(queue[k], e)[i] = queue[k][i]
            \/ Append(queue[k], e)[i] = e
  BY <1>1, Appended
<1>4. queue' \in [Hosts -> Seq(Entry)]
  BY <1>1, <1>2, <1>3 DEF RedisOK
<1>5. ASSUME NEW h \in Hosts, NEW i \in DOMAIN queue'[h]
      PROVE  HostOf[queue'[h][i].url] = h
  <2>1. CASE h = k
    BY <2>1, <1>1, <1>2, <1>3, <1>5 DEF RedisOK
  <2>2. CASE h # k
    BY <2>2, <1>2, <1>5 DEF RedisOK
  <2> QED  BY <2>1, <2>2
<1> QED  BY <1>4, <1>5

LEMMA DequeueOK ==
  ASSUME RedisOK, NEW h \in Hosts, queue[h] # <<>>, Dequeue(h)
  PROVE  /\ queue' \in [Hosts -> Seq(Entry)]
         /\ \A k \in Hosts : \A i \in DOMAIN queue'[k] : HostOf[queue'[k][i].url] = k
         /\ Head(queue[h]) \in Entry
<1>1. queue[h] \in Seq(Entry)
  BY DEF RedisOK
<1>2. /\ Head(queue[h]) \in Entry /\ Tail(queue[h]) \in Seq(Entry)
      /\ \A i \in DOMAIN Tail(queue[h]) :
            i + 1 \in DOMAIN queue[h] /\ Tail(queue[h])[i] = queue[h][i + 1]
  BY <1>1, HeadTail
<1>3. queue' = [queue EXCEPT ![h] = Tail(queue[h])]
  BY DEF Dequeue
<1>4. queue' \in [Hosts -> Seq(Entry)]
  BY <1>2, <1>3 DEF RedisOK
<1>5. ASSUME NEW k \in Hosts, NEW i \in DOMAIN queue'[k]
      PROVE  HostOf[queue'[k][i].url] = k
  <2>1. CASE k = h
    BY <2>1, <1>2, <1>3, <1>5 DEF RedisOK
  <2>2. CASE k # h
    BY <2>2, <1>3, <1>5 DEF RedisOK
  <2> QED  BY <2>1, <2>2
<1> QED  BY <1>2, <1>4, <1>5

\* So do ZADD and ZREM.
LEMMA ListOK ==
  ASSUME RedisOK, NEW e \in Entry, HostOf[e.url] \in Hosts, List(e),
         UNCHANGED <<queue, cooling, seen>>
  PROVE  RedisOK'
<1>1. e.prio \in Int
  BY DEF Entry
<1>2. score' \in [Hosts -> Int]
  BY <1>1 DEF RedisOK, List
<1>3. IsFiniteSet(listed')
  BY FS_AddElement DEF RedisOK, List
<1> QED  BY <1>2, <1>3 DEF RedisOK, List

LEMMA UnlistOK ==
  ASSUME RedisOK, NEW h \in Hosts, Unlist(h), UNCHANGED <<queue, cooling, seen>>
  PROVE  RedisOK'
<1>1. IsFiniteSet(listed')
  BY FS_RemoveElement DEF RedisOK, Unlist
<1>2. score' \in [Hosts -> Int]
  BY DEF RedisOK, Unlist
<1> QED  BY <1>1, <1>2 DEF RedisOK, Unlist

-----------------------------------------------------------------------------
(* Type correctness *)

\* The URL a thread adds, and the host it tries.
LEMMA CurOK ==
  ASSUME FrontierAssumption, LocalsOK, NEW t \in Threads, pc[t] \in AddSteps
  PROVE  /\ Cur(t) \in Entry /\ Cur(t).url \in Urls /\ Cur(t).prio \in Int
         /\ HostOf[Cur(t).url] \in Hosts
<1>1. todo[t] \in Seq(Entry) /\ todo[t] # <<>>
  BY DEF LocalsOK, ControlOK
<1>2. Cur(t) \in Entry
  BY <1>1, HeadTail DEF Cur
<1> QED  BY <1>2 DEF Entry, FrontierAssumption

LEMMA HostOK ==
  ASSUME LocalsOK, NEW t \in Threads, pc[t] \in TryHost \cup TookUrl
  PROVE  Host(t) \in Hosts
<1>1. scan[t] \in Seq(Hosts) /\ scan[t] # <<>>
  BY DEF LocalsOK, ControlOK
<1> QED  BY <1>1, HeadTail DEF Host

\* The entries that a request or a page hands to AddURLs.
LEMMA BatchOK ==
  ASSUME NEW us \in Seq(Urls), us # <<>>, NEW prio \in Int, NEW depth \in Int
  PROVE  LET batch == [i \in DOMAIN us |->
                         [url |-> us[i], prio |-> prio, depth |-> depth]]
         IN  batch \in Seq(Entry) /\ batch # <<>>
<1> DEFINE batch == [i \in DOMAIN us |-> [url |-> us[i], prio |-> prio, depth |-> depth]]
<1>1. Len(us) \in Nat /\ DOMAIN us = 1..Len(us) /\ Len(us) # 0
  BY EmptySeq, LenProperties
<1>2. batch \in [1..Len(us) -> Entry]
  BY <1>1, ElementOfSeq DEF Entry
<1>3. batch \in Seq(Entry)
  BY <1>1, <1>2, SeqDef
<1>4. batch # <<>>
  <2>1. 1 \in DOMAIN batch
    BY <1>1
  <2>2. DOMAIN <<>> = {}
    BY LenProperties, EmptySeq
  <2> QED  BY <2>1, <2>2
<1> QED  BY <1>3, <1>4

LEMMA InitType == ASSUME FrontierAssumption, Init PROVE TypeOK
<1> USE DEF Init
<1>1. RedisOK
  BY EmptySeq, FS_EmptySet DEF RedisOK
<1>2. LocalsOK
  BY EmptySeq DEF LocalsOK, ControlOK, Labels, AddSteps, TryHost, TookUrl
<1>3. HistoryOK
  BY DEF HistoryOK, FrontierAssumption
<1> QED  BY <1>1, <1>2, <1>3 DEF TypeOK

\* Every step of a thread inside AddURLs.
LEMMA AddType ==
  ASSUME FrontierAssumption, TypeOK, NEW t \in Threads, AddURLs(t)
  PROVE  TypeOK'
<1> USE DEF TypeOK
<1>1. pc[t] \in AddSteps
  BY DEF AddURLs, TestBloom, SIsMember, AddBloom, SAdd, LPush, ZAdd, AddSteps
<1>2. Cur(t) \in Entry /\ Cur(t).url \in Urls /\ Cur(t).prio \in Int /\ HostOf[Cur(t).url] \in Hosts
  BY <1>1, CurOK
<1>3. ProcOf[t] \in Procs
  BY DEF FrontierAssumption
<1>4. CASE TestBloom(t)
  <2>1. LocalsOK'
    <3>1. CASE AbortAdd(t)
      BY <3>1, <1>1, <1>4, AddAbort DEF TestBloom
    <3>2. CASE Goto(t, "sismember") /\ UNCHANGED todo
      BY <3>2, <1>1, <1>4, AddMove DEF TestBloom, AddSteps
    <3>3. CASE Goto(t, "mark") /\ UNCHANGED todo
      BY <3>3, <1>1, <1>4, AddMove DEF TestBloom, AddSteps
    <3> QED  BY <3>1, <3>2, <3>3, <1>4 DEF TestBloom
  <2>2. RedisOK' /\ HistoryOK'
    BY <1>4 DEF TestBloom, RedisOK, HistoryOK, redisVars, historyVars
  <2> QED  BY <2>1, <2>2
<1>5. CASE SIsMember(t)
  <2>1. LocalsOK'
    <3>1. CASE NextUrl(t)
      BY <3>1, <1>1, <1>5, AddNext DEF SIsMember
    <3>2. CASE Goto(t, "mark") /\ UNCHANGED todo
      BY <3>2, <1>1, <1>5, AddMove DEF SIsMember, AddSteps
    <3> QED  BY <3>1, <3>2, <1>5 DEF SIsMember
  <2>2. RedisOK' /\ HistoryOK'
    BY <1>5 DEF SIsMember, RedisOK, HistoryOK, redisVars, historyVars
  <2> QED  BY <2>1, <2>2
<1>6. CASE AddBloom(t)
  <2>1. LocalsOK'
    BY <1>6, <1>1, AddMove DEF AddBloom, AddSteps
  <2>2. RedisOK'
    BY <1>6 DEF AddBloom, RedisOK, redisVars
  <2>3. HistoryOK'
    BY <1>6, <1>2, <1>3 DEF AddBloom, HistoryOK, historyVars
  <2> QED  BY <2>1, <2>2, <2>3
<1>7. CASE SAdd(t)
  <2>1. LocalsOK'
    BY <1>7, <1>1, AddMove DEF SAdd, AddSteps
  <2>2. RedisOK'
    BY <1>7, <1>2 DEF SAdd, RedisOK
  <2>3. HistoryOK'
    BY <1>7 DEF SAdd, HistoryOK, historyVars
  <2> QED  BY <2>1, <2>2, <2>3
<1>8. CASE LPush(t)
  <2>1. LocalsOK'
    BY <1>8, <1>1, AddMove DEF LPush, AddSteps
  <2>2. RedisOK'
    BY <1>8, <1>2, EnqueueOK DEF LPush, RedisOK
  <2>3. HistoryOK'
    BY <1>8, <1>2 DEF LPush, HistoryOK
  <2> QED  BY <2>1, <2>2, <2>3
<1>9. CASE ZAdd(t)
  <2>1. LocalsOK'
    BY <1>9, <1>1, AddNext DEF ZAdd
  <2>2. RedisOK'
    BY <1>9, <1>2, ListOK DEF ZAdd
  <2>3. HistoryOK'
    BY <1>9 DEF ZAdd, HistoryOK, historyVars
  <2> QED  BY <2>1, <2>2, <2>3
<1> QED  BY <1>4, <1>5, <1>6, <1>7, <1>8, <1>9 DEF AddURLs

\* A request that reaches a handler.
LEMMA SubmitType ==
  ASSUME FrontierAssumption, TypeOK, NEW t \in Threads, Submit(t)
  PROVE  TypeOK'
<1> USE DEF TypeOK
<1>1. PICK r \in Seeds :
        todo' = [todo EXCEPT ![t] =
           [i \in DOMAIN r.urls |->
              [url |-> r.urls[i], prio |-> r.prio, depth |-> r.depth]]]
  BY DEF Submit
<1>2. r.urls \in Seq(Urls) /\ r.urls # <<>> /\ r.prio \in Int /\ r.depth \in Int
  BY DEF FrontierAssumption, Request
<1> DEFINE batch == [i \in DOMAIN r.urls |->
                       [url |-> r.urls[i], prio |-> r.prio, depth |-> r.depth]]
<1>3. batch \in Seq(Entry) /\ batch # <<>>
  BY <1>2, BatchOK
<1>4. LocalsOK'
  <2> HIDE DEF batch
  <2>1. todo' = [todo EXCEPT ![t] = batch]
    BY <1>1 DEF batch
  <2> QED  BY <2>1, <1>3, AddStart DEF Submit
<1>5. RedisOK' /\ HistoryOK'
  BY DEF Submit, RedisOK, HistoryOK, redisVars, historyVars
<1> QED  BY <1>4, <1>5

\* Every step of a worker inside NextURL.
LEMMA NextType ==
  ASSUME FrontierAssumption, TypeOK, NEW t \in Threads, NextURL(t)
  PROVE  TypeOK'
<1> USE DEF TypeOK
<1>1. CASE ZRange(t)
  <2>1. PICK s \in Snapshots : scan' = [scan EXCEPT ![t] = s]
    BY <1>1 DEF ZRange
  <2>2. s \in Seq(Hosts) /\ s # <<>>
    <3> DEFINE size == IF Cardinality(listed) < ScanWindow
                       THEN Cardinality(listed) ELSE ScanWindow
    <3>1. Cardinality(listed) \in Nat \ {0}
      BY <1>1, FS_CardinalityType, FS_EmptySet DEF ZRange, RedisOK
    <3>2. size \in Nat \ {0}
      BY <3>1 DEF FrontierAssumption
    <3>3. s \in [1..size -> Hosts]
      BY DEF Snapshots, RedisOK
    <3> HIDE DEF size
    <3>4. s \in Seq(Hosts)
      BY <3>2, <3>3, SeqDef
    <3>5. 1 \in DOMAIN s
      BY <3>2, <3>3
    <3>6. DOMAIN <<>> = {}
      BY LenProperties, EmptySeq
    <3> QED  BY <3>4, <3>5, <3>6
  <2>3. LocalsOK'
    <3>1. pc' \in [Threads -> Labels] /\ scan' \in [Threads -> Seq(Hosts)]
      BY <1>1, <2>1, <2>2 DEF ZRange, LocalsOK, Goto, Labels, TryHost
    <3>2. ASSUME NEW x \in Threads PROVE ControlOK(x)'
      BY <1>1, <2>1, <2>2 DEF ZRange, LocalsOK, ControlOK, Goto, AddSteps, TryHost, TookUrl
    <3> QED  BY <1>1, <3>1, <3>2 DEF ZRange, LocalsOK
  <2>4. RedisOK' /\ HistoryOK'
    BY <1>1 DEF ZRange, RedisOK, HistoryOK, redisVars, historyVars
  <2> QED  BY <2>3, <2>4
<1>2. CASE IsReady(t)
  <2>1. LocalsOK'
    <3>1. CASE NextHost(t)
      BY <3>1, <1>2, ScanNext DEF IsReady, TryHost
    <3>2. CASE Goto(t, "rpop") /\ UNCHANGED scan
      BY <3>2, <1>2, ScanMove DEF IsReady, TryHost
    <3> QED  BY <3>1, <3>2, <1>2 DEF IsReady
  <2>2. RedisOK' /\ HistoryOK'
    BY <1>2 DEF IsReady, RedisOK, HistoryOK, redisVars, historyVars
  <2> QED  BY <2>1, <2>2
<1>3. CASE RPop(t)
  <2>1. Host(t) \in Hosts
    BY <1>3, HostOK DEF RPop, TryHost
  <2>2. HistoryOK'
    BY <1>3 DEF RPop, HistoryOK, historyVars
  <2>3. CASE queue[Host(t)] = <<>>
    <3>1. LocalsOK'
      BY <2>3, <1>3, ScanMove DEF RPop, TryHost
    <3>2. RedisOK'
      BY <2>3, <1>3 DEF RPop, RedisOK
    <3> QED  BY <3>1, <3>2, <2>2
  <2>4. CASE queue[Host(t)] # <<>>
    <3>1. Dequeue(Host(t)) /\ held' = [held EXCEPT ![t] = Head(queue[Host(t)])]
          /\ Goto(t, "touch") /\ UNCHANGED <<todo, scan>> /\ pc[t] = "rpop"
      BY <2>4, <1>3 DEF RPop
    <3>2. Head(queue[Host(t)]) \in Entry
      BY <3>1, <2>1, <2>4, DequeueOK
    <3>3. RedisOK'
      BY <3>1, <1>3, <2>1, <2>4, DequeueOK DEF RPop, RedisOK
    <3>4. pc' \in [Threads -> Labels] /\ held' \in [Threads -> Entry \cup {NoEntry}]
      BY <3>1, <3>2 DEF LocalsOK, Goto, Labels, TookUrl
    <3>5. ASSUME NEW x \in Threads PROVE ControlOK(x)'
      <4>1. CASE x = t
        BY <4>1, <3>1, <3>2, NoEntryAssumption
           DEF LocalsOK, ControlOK, Goto, AddSteps, TryHost, TookUrl
      <4>2. CASE x # t
        BY <4>2, <3>1 DEF LocalsOK, ControlOK, Goto
      <4> QED  BY <4>1, <4>2
    <3>6. LocalsOK'
      BY <3>1, <3>4, <3>5 DEF LocalsOK
    <3> QED  BY <3>3, <3>6, <2>2
  <2> QED  BY <2>3, <2>4
<1>4. CASE DropHost(t)
  <2>1. LocalsOK'
    BY <1>4, ScanNext DEF DropHost, TryHost
  <2>2. RedisOK'
    BY <1>4, HostOK, UnlistOK DEF DropHost, TryHost
  <2>3. HistoryOK'
    BY <1>4 DEF DropHost, HistoryOK, historyVars
  <2> QED  BY <2>1, <2>2, <2>3
<1>5. CASE Touch(t)
  <2>1. LocalsOK'
    BY <1>5, ScanMove DEF Touch, TookUrl
  <2>2. Host(t) \in Hosts
    BY <1>5, HostOK DEF Touch, TookUrl
  <2>3. RedisOK' /\ HistoryOK'
    BY <1>5, <2>2 DEF Touch, RedisOK, HistoryOK, historyVars
  <2> QED  BY <2>1, <2>3
<1>6. CASE LLen(t)
  <2>1. LocalsOK'
    <3>1. CASE Goto(t, "retire") /\ UNCHANGED scan
      BY <3>1, <1>6, ScanMove DEF LLen, TookUrl
    <3>2. CASE Leave(t, "process")
      BY <3>2, <1>6, ScanLeave DEF LLen, TookUrl
    <3> QED  BY <3>1, <3>2, <1>6 DEF LLen
  <2>2. RedisOK' /\ HistoryOK'
    BY <1>6 DEF LLen, RedisOK, HistoryOK, redisVars, historyVars
  <2> QED  BY <2>1, <2>2
<1>7. CASE RetireHost(t)
  <2>1. LocalsOK'
    BY <1>7, ScanLeave DEF RetireHost, TookUrl
  <2>2. RedisOK'
    BY <1>7, HostOK, UnlistOK DEF RetireHost, TookUrl
  <2>3. HistoryOK'
    BY <1>7 DEF RetireHost, HistoryOK, historyVars
  <2> QED  BY <2>1, <2>2, <2>3
<1> QED  BY <1>1, <1>2, <1>3, <1>4, <1>5, <1>6, <1>7 DEF NextURL

\* The steps of processURL.
LEMMA ProcessType ==
  ASSUME FrontierAssumption, TypeOK, NEW t \in Threads, ProcessURL(t)
  PROVE  TypeOK'
<1> USE DEF TypeOK
<1>1. held[t] \in Entry
  BY DEF ProcessURL, Discover, Finish, LocalsOK, ControlOK
<1>2. CASE Discover(t)
  <2> DEFINE links == Links[held[t].url]
             batch == [i \in DOMAIN links |->
                         [url |-> links[i], prio |-> held[t].prio,
                          depth |-> held[t].depth + 1]]
  <2>1. /\ links \in Seq(Urls) /\ links # <<>>
        /\ held[t].prio \in Int /\ held[t].depth + 1 \in Int
    BY <1>1, <1>2 DEF Discover, Entry, FrontierAssumption
  <2>2. batch \in Seq(Entry) /\ batch # <<>>
    BY <2>1, BatchOK
  <2>3. todo' = [todo EXCEPT ![t] = batch]
    BY <1>2 DEF Discover
  <2>4. LocalsOK'
    <3> HIDE DEF batch
    <3> QED  BY <2>2, <2>3, <1>2, AddStart DEF Discover
  <2>5. RedisOK' /\ HistoryOK'
    BY <1>2 DEF Discover, RedisOK, HistoryOK, redisVars, historyVars
  <2> QED  BY <2>4, <2>5
<1>3. CASE Finish(t)
  <2>1. pc' \in [Threads -> Labels] /\ held' \in [Threads -> Entry \cup {NoEntry}]
    BY <1>3 DEF Finish, LocalsOK, Goto, Labels
  <2>2. ASSUME NEW x \in Threads PROVE ControlOK(x)'
    <3>1. CASE x = t
      BY <3>1, <1>3 DEF Finish, LocalsOK, ControlOK, Goto, AddSteps, TryHost, TookUrl
    <3>2. CASE x # t
      BY <3>2, <1>3 DEF Finish, LocalsOK, ControlOK, Goto
    <3> QED  BY <3>1, <3>2
  <2>3. LocalsOK'
    BY <1>3, <2>1, <2>2 DEF Finish, LocalsOK
  <2>4. RedisOK'
    BY <1>3 DEF Finish, RedisOK, redisVars
  <2>5. HistoryOK'
    BY <1>1, <1>3 DEF Finish, HistoryOK, Entry
  <2> QED  BY <2>3, <2>4, <2>5
<1> QED  BY <1>2, <1>3 DEF ProcessURL

\* Errors and resent commands.
LEMMA FailureType ==
  ASSUME FrontierAssumption, TypeOK, NEW t \in Threads, Failure(t)
  PROVE  TypeOK'
<1> USE DEF TypeOK
<1>1. faults' \in 0..MaxFaults
  BY DEF Failure, AddFails, ScanFails, RPopFails, Resend, Fault, HistoryOK, FrontierAssumption
<1>2. CASE AddFails(t)
  <2>1. pc[t] \in AddSteps
    BY <1>2 DEF AddFails, AddSteps
  <2>2. /\ Cur(t) \in Entry /\ Cur(t).url \in Urls /\ HostOf[Cur(t).url] \in Hosts
    BY <2>1, CurOK
  <2>3. LocalsOK'
    BY <1>2, <2>1, AddAbort DEF AddFails
  <2>4. HistoryOK'
    BY <1>1, <1>2, <2>2 DEF AddFails, HistoryOK
  <2>5. RedisOK'
    <3>1. CASE UNCHANGED <<queue, listed, score>>
      BY <3>1, <1>2, <2>2 DEF AddFails, RedisOK
    <3>2. CASE Enqueue(Cur(t)) /\ UNCHANGED <<listed, score, seen>>
      BY <3>2, <1>2, <2>2, EnqueueOK DEF AddFails, RedisOK
    <3>3. CASE List(Cur(t)) /\ UNCHANGED <<queue, seen>>
      BY <3>3, <1>2, <2>2, ListOK DEF AddFails
    <3> QED  BY <1>2, <3>1, <3>2, <3>3 DEF AddFails
  <2> QED  BY <2>3, <2>4, <2>5
<1>3. CASE ScanFails(t)
  <2>1. LocalsOK'
    <3>1. CASE pc[t] \in {"ready", "drop"} /\ NextHost(t)
      BY <3>1, <1>3, ScanNext DEF ScanFails, TryHost
    <3>2. CASE pc[t] = "touch" /\ Goto(t, "llen") /\ UNCHANGED scan
      BY <3>2, <1>3, ScanMove DEF ScanFails, TookUrl
    <3>3. CASE pc[t] = "llen" /\ Goto(t, "retire") /\ UNCHANGED scan
      BY <3>3, <1>3, ScanMove DEF ScanFails, TookUrl
    <3>4. CASE pc[t] = "retire" /\ Leave(t, "process")
      BY <3>4, <1>3, ScanLeave DEF ScanFails, TookUrl
    <3> QED  BY <1>3, <3>1, <3>2, <3>3, <3>4 DEF ScanFails
  <2>2. RedisOK'
    BY <1>3 DEF ScanFails, RedisOK, redisVars
  <2>3. HistoryOK'
    BY <1>1, <1>3 DEF ScanFails, HistoryOK, historyVars
  <2> QED  BY <2>1, <2>2, <2>3
<1>4. CASE RPopFails(t)
  <2>1. LocalsOK'
    BY <1>4, ScanLeave DEF RPopFails, TryHost
  <2>2. Host(t) \in Hosts
    BY <1>4, HostOK DEF RPopFails, TryHost
  <2>3. RedisOK' /\ abandoned' \subseteq Urls
    <3>1. CASE UNCHANGED <<queue, abandoned>>
      BY <3>1, <1>4 DEF RPopFails, RedisOK, HistoryOK
    <3>2. CASE /\ queue[Host(t)] # <<>>
               /\ abandoned' = abandoned \cup {Head(queue[Host(t)]).url}
               /\ Dequeue(Host(t))
      <4>1. Head(queue[Host(t)]).url \in Urls
        BY <3>2, <2>2, DequeueOK DEF Entry
      <4> QED  BY <3>2, <4>1, <1>4, <2>2, DequeueOK DEF RPopFails, RedisOK, HistoryOK
    <3> QED  BY <1>4, <3>1, <3>2 DEF RPopFails
  <2>4. HistoryOK'
    BY <1>1, <1>4, <2>3 DEF RPopFails, HistoryOK
  <2> QED  BY <2>1, <2>3, <2>4
<1>5. CASE Resend(t)
  <2>1. LocalsOK'
    BY <1>5 DEF Resend, LocalsOK, ControlOK, localVars
  <2>2. CASE pc[t] = "lpush" /\ Enqueue(Cur(t)) /\ UNCHANGED abandoned
    <3>1. Cur(t) \in Entry
      BY <2>2, CurOK DEF AddSteps
    <3>2. RedisOK'
      BY <2>2, <3>1, <1>5, EnqueueOK DEF Resend, RedisOK
    <3>3. HistoryOK'
      BY <1>1, <2>2, <1>5 DEF Resend, HistoryOK
    <3> QED  BY <2>1, <3>2, <3>3
  <2>3. CASE /\ pc[t] = "rpop" /\ queue[Host(t)] # <<>>
             /\ abandoned' = abandoned \cup {Head(queue[Host(t)]).url}
             /\ Dequeue(Host(t))
    <3>1. Host(t) \in Hosts
      BY <2>3, HostOK DEF TryHost
    <3>2. Head(queue[Host(t)]).url \in Urls
      BY <2>3, <3>1, DequeueOK DEF Entry
    <3>3. RedisOK'
      BY <2>3, <3>1, <1>5, DequeueOK DEF Resend, RedisOK
    <3>4. HistoryOK'
      BY <1>1, <2>3, <3>2, <1>5 DEF Resend, HistoryOK
    <3> QED  BY <2>1, <3>3, <3>4
  <2> QED  BY <1>5, <2>2, <2>3 DEF Resend
<1> QED  BY <1>2, <1>3, <1>4, <1>5 DEF Failure

\* A restart of a process.
LEMMA CrashType ==
  ASSUME FrontierAssumption, TypeOK, NEW p \in Procs, Crash(p)
  PROVE  TypeOK'
<1> USE DEF TypeOK
<1>1. LocalsOK'
  <2>1. /\ pc' \in [Threads -> Labels]
        /\ todo' \in [Threads -> Seq(Entry)]
        /\ scan' \in [Threads -> Seq(Hosts)]
        /\ held' \in [Threads -> Entry \cup {NoEntry}]
    BY EmptySeq DEF Crash, LocalsOK, Labels
  <2>2. ASSUME NEW x \in Threads PROVE ControlOK(x)'
    BY DEF Crash, LocalsOK, ControlOK, AddSteps, TryHost, TookUrl
  <2> QED  BY <2>1, <2>2 DEF LocalsOK
<1>2. RedisOK'
  BY DEF Crash, RedisOK, redisVars
<1>3. HistoryOK'
  <2>1. faults' \in 0..MaxFaults
    BY DEF Crash, Fault, HistoryOK, FrontierAssumption
  <2>2. bloom' \in [Procs -> SUBSET Urls] /\ pushed' \in [Threads -> SUBSET Urls]
    BY DEF Crash, HistoryOK
  <2>3. dropped' \subseteq Urls
    <3>1. \A t \in Threads : pc[t] = "lpush" => Cur(t).url \in Urls
      BY CurOK DEF AddSteps
    <3> QED  BY <3>1 DEF Crash, ThreadsOf, HistoryOK
  <2>4. abandoned' \subseteq Urls
    <3>1. \A t \in Threads : held[t] # NoEntry => held[t].url \in Urls
      BY DEF LocalsOK, Entry
    <3> QED  BY <3>1 DEF Crash, ThreadsOf, HistoryOK
  <2>5. finished' \subseteq Urls
    BY DEF Crash, HistoryOK
  <2> QED  BY <2>1, <2>2, <2>3, <2>4, <2>5 DEF HistoryOK
<1> QED  BY <1>1, <1>2, <1>3

\* TypeOK is inductive.
LEMMA TypeStep ==
  ASSUME FrontierAssumption, TypeOK, [Next]_vars
  PROVE  TypeOK'
<1>1. ASSUME NEW t \in Threads, Submit(t) PROVE TypeOK'
  BY <1>1, SubmitType
<1>2. ASSUME NEW t \in Threads, Step(t) PROVE TypeOK'
  BY <1>2, AddType, NextType, ProcessType DEF Step
<1>3. ASSUME NEW t \in Threads, Failure(t) PROVE TypeOK'
  BY <1>3, FailureType
<1>4. ASSUME NEW p \in Procs, Crash(p) PROVE TypeOK'
  BY <1>4, CrashType
<1>5. ASSUME NEW h \in Hosts, DelayElapses(h) PROVE TypeOK'
  BY <1>5 DEF DelayElapses, TypeOK, RedisOK, LocalsOK, ControlOK, HistoryOK,
              localVars, historyVars
<1>6. CASE UNCHANGED vars
  BY <1>6 DEF vars, TypeOK, RedisOK, LocalsOK, ControlOK, HistoryOK,
              redisVars, localVars, historyVars
<1> QED  BY <1>1, <1>2, <1>3, <1>4, <1>5, <1>6 DEF Next

\* Type correctness: every variable keeps its type, every queue holds URLs of its
\* own host, and every thread has the locals its place in the code calls for.
THEOREM TypeCorrect == Spec => []TypeOK
<1>1. Init => TypeOK
  BY InitType, FrontierAssumption
<1>2. TypeOK /\ [Next]_vars => TypeOK'
  BY TypeStep, FrontierAssumption
<1> QED  BY <1>1, <1>2, PTL DEF Spec

-----------------------------------------------------------------------------
(* What a step leaves alone *)

\* The URLs of the queues after LPUSH and after RPOP.
LEMMA EnqueueUrls ==
  ASSUME FrontierAssumption, RedisOK, NEW e \in Entry, Enqueue(e)
  PROVE  /\ e.url \in UrlsIn(queue'[HostOf[e.url]])
         /\ \A h \in Hosts : /\ UrlsIn(queue[h]) \subseteq UrlsIn(queue'[h])
                             /\ UrlsIn(queue'[h]) \subseteq UrlsIn(queue[h]) \cup {e.url}
<1> DEFINE k == HostOf[e.url]
<1>1. k \in Hosts /\ queue[k] \in Seq(Entry)
  BY DEF FrontierAssumption, Entry, RedisOK
<1>2. queue' = [queue EXCEPT ![k] = Append(queue[k], e)]
  BY DEF Enqueue
<1>3. /\ DOMAIN Append(queue[k], e) = DOMAIN queue[k] \cup {Len(queue[k]) + 1}
      /\ Append(queue[k], e)[Len(queue[k]) + 1] = e
      /\ \A i \in DOMAIN queue[k] : Append(queue[k], e)[i] = queue[k][i]
  BY <1>1, Appended
<1>4. UrlsIn(Append(queue[k], e)) = UrlsIn(queue[k]) \cup {e.url}
  <2> HIDE DEF k
  <2>1. UrlsIn(Append(queue[k], e)) \subseteq UrlsIn(queue[k]) \cup {e.url}
    BY <1>3 DEF UrlsIn
  <2>2. UrlsIn(queue[k]) \subseteq UrlsIn(Append(queue[k], e))
    BY <1>3 DEF UrlsIn
  <2>3. e.url \in UrlsIn(Append(queue[k], e))
    BY <1>3 DEF UrlsIn
  <2> QED  BY <2>1, <2>2, <2>3
<1> QED  BY <1>1, <1>2, <1>4 DEF RedisOK

LEMMA DequeueUrls ==
  ASSUME RedisOK, NEW h \in Hosts, queue[h] # <<>>, Dequeue(h)
  PROVE  /\ Head(queue[h]).url \in UrlsIn(queue[h])
         /\ \A k \in Hosts :
              /\ UrlsIn(queue'[k]) \subseteq UrlsIn(queue[k])
              /\ UrlsIn(queue[k]) \subseteq UrlsIn(queue'[k]) \cup {Head(queue[h]).url}
<1>1. queue[h] \in Seq(Entry)
  BY DEF RedisOK
<1>2. /\ Len(Tail(queue[h])) = Len(queue[h]) - 1
      /\ Len(queue[h]) \in Nat \ {0}
      /\ DOMAIN queue[h] = 1..Len(queue[h])
      /\ DOMAIN Tail(queue[h]) = 1..(Len(queue[h]) - 1)
      /\ \A i \in DOMAIN Tail(queue[h]) : Tail(queue[h])[i] = queue[h][i + 1]
      /\ Head(queue[h]) = queue[h][1]
  BY <1>1, EmptySeq, HeadTailProperties, LenProperties
<1>3. Head(queue[h]).url \in UrlsIn(queue[h])
  BY <1>2 DEF UrlsIn
<1>4. UrlsIn(Tail(queue[h])) \subseteq UrlsIn(queue[h])
  BY <1>2 DEF UrlsIn
<1>5. ASSUME NEW i \in DOMAIN queue[h], i # 1
      PROVE  queue[h][i].url \in UrlsIn(Tail(queue[h]))
  <2>1. i - 1 \in DOMAIN Tail(queue[h]) /\ Tail(queue[h])[i - 1] = queue[h][i]
    BY <1>2, <1>5
  <2> QED  BY <2>1 DEF UrlsIn
<1>6. UrlsIn(queue[h]) \subseteq UrlsIn(Tail(queue[h])) \cup {Head(queue[h]).url}
  BY <1>2, <1>5 DEF UrlsIn
<1> QED  BY <1>3, <1>4, <1>6 DEF Dequeue, RedisOK

\* A step of one thread touches no local of another; nobody is ever removed
\* from seen:urls, nor, short of a restart, from a filter.
LEMMA Frame ==
  ASSUME FrontierAssumption, TypeOK, NEW t \in Threads,
         Submit(t) \/ Step(t) \/ Failure(t)
  PROVE  /\ \A x \in Threads \ {t} :
              /\ pc'[x] = pc[x] /\ todo'[x] = todo[x]
              /\ held'[x] = held[x] /\ pushed'[x] = pushed[x]
         /\ seen \subseteq seen'
         /\ \A p \in Procs : bloom[p] \subseteq bloom'[p]
<1> USE DEF TypeOK, LocalsOK, HistoryOK, Goto, redisVars, localVars, historyVars
<1>1. CASE Submit(t)
  BY <1>1 DEF Submit
<1>2. CASE AddURLs(t)
  <2>1. CASE TestBloom(t) \/ SIsMember(t)
    BY <2>1 DEF TestBloom, SIsMember, AbortAdd, NextUrl
  <2>2. CASE AddBloom(t)
    BY <2>2 DEF AddBloom
  <2>3. CASE SAdd(t) \/ LPush(t)
    BY <2>3 DEF SAdd, LPush
  <2>4. CASE ZAdd(t)
    BY <2>4 DEF ZAdd, NextUrl
  <2> QED  BY <1>2, <2>1, <2>2, <2>3, <2>4 DEF AddURLs
<1>3. CASE NextURL(t)
  BY <1>3 DEF NextURL, ZRange, IsReady, RPop, DropHost, Touch, LLen, RetireHost,
              NextHost, Leave
<1>4. CASE ProcessURL(t)
  BY <1>4 DEF ProcessURL, Discover, Finish
<1>5. CASE AddFails(t)
  BY <1>5 DEF AddFails, AbortAdd
<1>6. CASE ScanFails(t)
  BY <1>6 DEF ScanFails, NextHost, Leave
<1>7. CASE RPopFails(t) \/ Resend(t)
  BY <1>7 DEF RPopFails, Resend, Leave
<1> QED  BY <1>1, <1>2, <1>3, <1>4, <1>5, <1>6, <1>7 DEF Step, Failure

\* The oldest URL of a queue is one of its URLs.
LEMMA HeadUrl ==
  ASSUME RedisOK, NEW h \in Hosts, queue[h] # <<>>
  PROVE  Head(queue[h]).url \in UrlsIn(queue[h])
<1>1. queue[h] \in Seq(Entry)
  BY DEF RedisOK
<1>2. 1 \in DOMAIN queue[h] /\ Head(queue[h]) = queue[h][1]
  BY <1>1, EmptySeq, LenProperties
<1> QED  BY <1>2 DEF UrlsIn

\* The only steps that change a queue, and where the URL that left one is.
LEMMA QueueSteps ==
  ASSUME TypeOK, [Next]_vars
  PROVE  \/ UNCHANGED queue
         \/ \E t \in Threads :
              \/ pc[t] = "lpush" /\ Enqueue(Cur(t))
              \/ /\ pc[t] = "rpop" /\ queue[Host(t)] # <<>> /\ Dequeue(Host(t))
                 /\ \/ held'[t] = Head(queue[Host(t)])
                    \/ Head(queue[Host(t)]).url \in abandoned'
<1> DEFINE Goal ==
      \/ UNCHANGED queue
      \/ \E t \in Threads :
           \/ pc[t] = "lpush" /\ Enqueue(Cur(t))
           \/ /\ pc[t] = "rpop" /\ queue[Host(t)] # <<>> /\ Dequeue(Host(t))
              /\ \/ held'[t] = Head(queue[Host(t)])
                 \/ Head(queue[Host(t)]).url \in abandoned'
<1> USE DEF redisVars
<1>1. ASSUME NEW t \in Threads, Submit(t) \/ AddURLs(t) \/ ProcessURL(t) PROVE Goal
  BY <1>1 DEF Submit, AddURLs, TestBloom, SIsMember, AddBloom, SAdd, LPush, ZAdd,
              ProcessURL, Discover, Finish
<1>2. ASSUME NEW t \in Threads, NextURL(t) PROVE Goal
  <2>1. CASE RPop(t)
    BY <2>1 DEF RPop, TypeOK, LocalsOK
  <2>2. CASE ~RPop(t)
    BY <1>2, <2>2 DEF NextURL, ZRange, IsReady, DropHost, Touch, LLen, RetireHost
  <2> QED  BY <2>1, <2>2
<1>3. ASSUME NEW t \in Threads, Failure(t) PROVE Goal
  BY <1>3 DEF Failure, AddFails, ScanFails, RPopFails, Resend
<1> QED  BY <1>1, <1>2, <1>3 DEF Next, Step, Crash, DelayElapses, vars

\* The only steps that add to seen:urls.
LEMMA SeenSteps ==
  ASSUME [Next]_vars, NEW u \in seen', u \notin seen
  PROVE  \E t \in Threads : (SAdd(t) /\ u = Cur(t).url) \/ u \in dropped'
<1> USE DEF redisVars
<1>1. ASSUME NEW t \in Threads, Submit(t) \/ Step(t)
      PROVE  SAdd(t) /\ u = Cur(t).url
  BY <1>1 DEF Submit, Step, AddURLs, TestBloom, SIsMember, AddBloom, SAdd, LPush, ZAdd,
              NextURL, ZRange, IsReady, RPop, DropHost, Touch, LLen, RetireHost,
              ProcessURL, Discover, Finish
<1>2. ASSUME NEW t \in Threads, Failure(t) PROVE u \in dropped'
  BY <1>2 DEF Failure, AddFails, ScanFails, RPopFails, Resend
<1> QED  BY <1>1, <1>2 DEF Next, Crash, DelayElapses, vars

\* The record of what was done and what was lost only grows.
LEMMA HistoryGrows ==
  ASSUME [Next]_vars
  PROVE  finished \subseteq finished' /\ dropped \subseteq dropped' /\ abandoned \subseteq abandoned'
<1> USE DEF historyVars
<1>1. ASSUME NEW t \in Threads, Submit(t) \/ Step(t)
      PROVE  finished \subseteq finished' /\ UNCHANGED <<dropped, abandoned>>
  BY <1>1 DEF Submit, Step, AddURLs, TestBloom, SIsMember, AddBloom, SAdd, LPush, ZAdd,
              NextURL, ZRange, IsReady, RPop, DropHost, Touch, LLen, RetireHost,
              ProcessURL, Discover, Finish
<1>2. ASSUME NEW t \in Threads, Failure(t)
      PROVE  UNCHANGED finished /\ dropped \subseteq dropped' /\ abandoned \subseteq abandoned'
  BY <1>2 DEF Failure, AddFails, ScanFails, RPopFails, Resend
<1> QED  BY <1>1, <1>2 DEF Next, Crash, DelayElapses, vars

\* The only step that puts a URL in a thread's hands.
LEMMA HeldSteps ==
  ASSUME FrontierAssumption, TypeOK, [Next]_vars,
         NEW x \in Threads, held'[x] # NoEntry
  PROVE  \/ held'[x] = held[x]
         \/ /\ pc[x] = "rpop" /\ queue[Host(x)] # <<>>
            /\ held'[x] = Head(queue[Host(x)])
<1> USE DEF TypeOK, LocalsOK, localVars
<1>1. ASSUME NEW t \in Threads, Submit(t) \/ Step(t) \/ Failure(t), t # x
      PROVE  held'[x] = held[x]
  BY <1>1, Frame
<1>2. CASE Submit(x) \/ AddURLs(x)
  BY <1>2 DEF Submit, AddURLs, TestBloom, SIsMember, AddBloom, SAdd, LPush, ZAdd
<1>3. CASE NextURL(x)
  BY <1>3 DEF NextURL, ZRange, IsReady, RPop, DropHost, Touch, LLen, RetireHost
<1>4. CASE ProcessURL(x)
  BY <1>4 DEF ProcessURL, Discover, Finish
<1>5. CASE Failure(x)
  BY <1>5 DEF Failure, AddFails, ScanFails, RPopFails, Resend
<1>6. ASSUME NEW p \in Procs, Crash(p) PROVE held'[x] = held[x]
  BY <1>6 DEF Crash
<1> QED  BY <1>1, <1>2, <1>3, <1>4, <1>5, <1>6 DEF Next, Step, DelayElapses, vars

-----------------------------------------------------------------------------
(* One push per thread and process start *)

\* The strengthening: what a thread pushed is in its process's filter and in
\* seen:urls, so a URL that passed the check is none of them.
FreshPushes ==
    \A t \in Threads :
      /\ pushed[t] \subseteq bloom[ProcOf[t]] \cap seen
      /\ pc[t] \in {"mark", "sadd", "lpush"} => Cur(t).url \notin pushed[t]
      /\ pc[t] \in {"sadd", "lpush"} => Cur(t).url \in bloom[ProcOf[t]]
      /\ pc[t] \in {"lpush", "zadd"} => Cur(t).url \in seen

LEMMA FreshStep ==
  ASSUME FrontierAssumption, TypeOK, FreshPushes, [Next]_vars
  PROVE  FreshPushes'
<1> USE DEF TypeOK, FreshPushes, Cur
<1>1. ASSUME NEW t \in Threads, Submit(t) \/ Step(t) \/ Failure(t)
      PROVE  FreshPushes'
  <2>1. \A x \in Threads \ {t} :
          /\ pushed'[x] \subseteq bloom'[ProcOf[x]] \cap seen'
          /\ pc'[x] \in {"mark", "sadd", "lpush"} => Head(todo'[x]).url \notin pushed'[x]
          /\ pc'[x] \in {"sadd", "lpush"} => Head(todo'[x]).url \in bloom'[ProcOf[x]]
          /\ pc'[x] \in {"lpush", "zadd"} => Head(todo'[x]).url \in seen'
    BY <1>1, Frame DEF FrontierAssumption
  <2>2. /\ pushed'[t] \subseteq bloom'[ProcOf[t]] \cap seen'
        /\ pc'[t] \in {"mark", "sadd", "lpush"} => Head(todo'[t]).url \notin pushed'[t]
        /\ pc'[t] \in {"sadd", "lpush"} => Head(todo'[t]).url \in bloom'[ProcOf[t]]
        /\ pc'[t] \in {"lpush", "zadd"} => Head(todo'[t]).url \in seen'
    <3> USE DEF LocalsOK, HistoryOK, Goto, redisVars, localVars, historyVars
    <3>1. CASE Submit(t)
      BY <3>1 DEF Submit
    <3>2. CASE TestBloom(t) \/ SIsMember(t)
      BY <3>2 DEF TestBloom, SIsMember, AbortAdd, NextUrl, AfterAdd
    <3>3. CASE AddBloom(t)
      BY <3>3 DEF AddBloom, FrontierAssumption
    <3>4. CASE SAdd(t)
      BY <3>4 DEF SAdd
    <3>5. CASE LPush(t)
      BY <3>5 DEF LPush
    <3>6. CASE ZAdd(t)
      BY <3>6 DEF ZAdd, NextUrl, AfterAdd
    <3>7. CASE NextURL(t)
      BY <3>7 DEF NextURL, ZRange, IsReady, RPop, DropHost, Touch, LLen, RetireHost,
                  NextHost, Leave
    <3>8. CASE ProcessURL(t)
      BY <3>8 DEF ProcessURL, Discover, Finish
    <3>9. CASE AddFails(t)
      BY <3>9 DEF AddFails, AbortAdd, AfterAdd
    <3>10. CASE ScanFails(t)
      BY <3>10 DEF ScanFails, NextHost, Leave
    <3>11. CASE RPopFails(t) \/ Resend(t)
      BY <3>11 DEF RPopFails, Resend, Leave
    <3> QED  BY <1>1, <3>1, <3>2, <3>3, <3>4, <3>5, <3>6, <3>7, <3>8, <3>9,
                <3>10, <3>11 DEF Step, AddURLs, Failure
  <2> QED  BY <2>1, <2>2
<1>2. ASSUME NEW p \in Procs, Crash(p) PROVE FreshPushes'
  BY <1>2 DEF Crash, ThreadsOf, redisVars, HistoryOK, FrontierAssumption
<1>3. ASSUME NEW h \in Hosts, DelayElapses(h) PROVE FreshPushes'
  BY <1>3 DEF DelayElapses, localVars, historyVars
<1>4. CASE UNCHANGED vars
  BY <1>4 DEF vars, redisVars, localVars, historyVars
<1> QED  BY <1>1, <1>2, <1>3, <1>4 DEF Next

\* PushOncePerThread holds of every fleet: whatever other threads and processes
\* do, and through errors and restarts, no thread pushes a URL twice in the life
\* of its process.
THEOREM PushesAreUnique == Spec => []PushOncePerThread
<1>1. Init => FreshPushes
  BY DEF Init, FreshPushes
<1>2. TypeOK /\ FreshPushes /\ [Next]_vars => FreshPushes'
  BY FreshStep, FrontierAssumption
<1>3. FreshPushes => PushOncePerThread
  BY DEF FreshPushes, PushOncePerThread
<1> QED  BY <1>1, <1>2, <1>3, TypeCorrect, PTL DEF Spec

-----------------------------------------------------------------------------
(* How many copies of a URL there are *)

\* Where a URL is in a queue.
Spots(q, u) == {i \in DOMAIN q : q[i].url = u}

LEMMA SpotsAreFinite ==
  ASSUME NEW q \in Seq(Entry), NEW u
  PROVE  /\ IsFiniteSet(Spots(q, u)) /\ Cardinality(Spots(q, u)) \in Nat
         /\ Spots(q, u) \subseteq 1..Len(q)
<1>1. Len(q) \in Nat /\ DOMAIN q = 1..Len(q)
  BY LenProperties
<1>2. IsFiniteSet(1..Len(q)) /\ Spots(q, u) \subseteq 1..Len(q)
  BY <1>1, FS_Interval DEF Spots
<1> QED  BY <1>2, FS_Subset, FS_CardinalityType

\* A URL that is pushed has one spot more, all others have as many as before.
LEMMA SpotsAppend ==
  ASSUME NEW q \in Seq(Entry), NEW e \in Entry, NEW u
  PROVE  Cardinality(Spots(Append(q, e), u)) =
           IF e.url = u THEN Cardinality(Spots(q, u)) + 1 ELSE Cardinality(Spots(q, u))
<1>1. /\ DOMAIN Append(q, e) = DOMAIN q \cup {Len(q) + 1}
      /\ Append(q, e)[Len(q) + 1] = e
      /\ \A i \in DOMAIN q : Append(q, e)[i] = q[i]
  BY Appended
<1>2. Len(q) + 1 \notin Spots(q, u)
  BY SpotsAreFinite, LenProperties
<1>3. CASE e.url = u
  <2>1. Spots(Append(q, e), u) = Spots(q, u) \cup {Len(q) + 1}
    BY <1>1, <1>3 DEF Spots
  <2>2. IsFiniteSet(Spots(q, u))
    BY SpotsAreFinite
  <2>3. Cardinality(Spots(q, u) \cup {Len(q) + 1}) = Cardinality(Spots(q, u)) + 1
    BY <1>2, <2>2, FS_AddElement
  <2> QED  BY <1>3, <2>1, <2>3
<1>4. CASE e.url # u
  <2>1. Spots(Append(q, e), u) = Spots(q, u)
    BY <1>1, <1>4 DEF Spots
  <2> QED  BY <1>4, <2>1
<1> QED  BY <1>3, <1>4

\* A URL that is popped has one spot less.
LEMMA SpotsTail ==
  ASSUME NEW q \in Seq(Entry), q # <<>>, NEW u
  PROVE  Cardinality(Spots(Tail(q), u)) <=
           IF Head(q).url = u THEN Cardinality(Spots(q, u)) - 1 ELSE Cardinality(Spots(q, u))
<1> DEFINE old == Spots(q, u) \ {1}
           new == Spots(Tail(q), u)
           move == [i \in new |-> i + 1]
<1>1. /\ Tail(q) \in Seq(Entry)
      /\ Len(q) \in Nat \ {0} /\ DOMAIN q = 1..Len(q) /\ Head(q) = q[1]
      /\ DOMAIN Tail(q) = 1..(Len(q) - 1)
      /\ \A i \in 1..(Len(q) - 1) : Tail(q)[i] = q[i + 1]
  BY EmptySeq, HeadTailProperties, LenProperties
<1>2. ASSUME NEW i \in new PROVE i \in Nat /\ i + 1 \in old
  BY <1>1, <1>2 DEF Spots
<1>3. /\ IsFiniteSet(old) /\ Cardinality(old) \in Nat /\ Cardinality(Spots(q, u)) \in Nat
      /\ Cardinality(old) = IF 1 \in Spots(q, u) THEN Cardinality(Spots(q, u)) - 1
                                                 ELSE Cardinality(Spots(q, u))
  BY SpotsAreFinite, FS_RemoveElement, FS_CardinalityType
<1>4. Cardinality(new) \in Nat /\ (Head(q).url = u <=> 1 \in Spots(q, u))
  <2>1. Cardinality(new) \in Nat
    BY <1>1, SpotsAreFinite
  <2>2. Head(q).url = u <=> 1 \in Spots(q, u)
    BY <1>1 DEF Spots
  <2> QED  BY <2>1, <2>2
<1>5. move \in Injection(new, old)
  <2> HIDE DEF new, old
  <2>1. move \in [new -> old]
    BY <1>2
  <2>2. \A i, j \in new : move[i] = move[j] => i = j
    BY <1>2
  <2> HIDE DEF move
  <2> QED  BY <2>1, <2>2 DEF Injection, IsInjective
<1> HIDE DEF new, old, move
<1>6. Cardinality(new) <= Cardinality(old)
  BY <1>3, <1>5, FS_Injection
<1> QED  BY <1>3, <1>4, <1>6 DEF new

\* What a step does to the copies of URLs: nobody takes one (Calm), one is pushed
\* and put down as pushed, one goes from its queue into a worker's hands, a command
\* fails or is repeated, or a process forgets what it pushed.
NoneTaken == \A t \in Threads : held'[t] = held[t] \/ held'[t] = NoEntry
Calm == NoneTaken /\ UNCHANGED <<queue, pushed, faults>>
Pushes(t) ==
    /\ pc[t] = "lpush" /\ Enqueue(Cur(t))
    /\ pushed' = [pushed EXCEPT ![t] = @ \cup {Cur(t).url}]
    /\ UNCHANGED <<held, faults>>
Takes(t) ==
    /\ pc[t] = "rpop" /\ queue[Host(t)] # <<>> /\ Dequeue(Host(t))
    /\ held' = [held EXCEPT ![t] = Head(queue[Host(t)])]
    /\ UNCHANGED <<pushed, faults>>
Repeats ==
    /\ \/ UNCHANGED queue
       \/ \E t \in Threads :
            \/ pc[t] = "lpush" /\ Enqueue(Cur(t))
            \/ pc[t] = "rpop" /\ queue[Host(t)] # <<>> /\ Dequeue(Host(t))
    /\ UNCHANGED <<held, pushed>> /\ faults' = faults + 1
Forgets == NoneTaken /\ UNCHANGED queue /\ faults' = faults + 1

LEMMA CopySteps ==
  ASSUME TypeOK, [Next]_vars
  PROVE  \/ Calm \/ Repeats \/ Forgets
         \/ \E t \in Threads : Pushes(t) \/ Takes(t)
<1> USE DEF TypeOK, LocalsOK, redisVars, localVars, historyVars
<1>1. ASSUME NEW t \in Threads, Submit(t) \/ AddURLs(t) PROVE Calm \/ Pushes(t)
  BY <1>1 DEF Submit, AddURLs, TestBloom, SIsMember, AddBloom, SAdd, LPush, ZAdd,
              Calm, NoneTaken, Pushes
<1>2. ASSUME NEW t \in Threads, NextURL(t) PROVE Calm \/ Takes(t)
  BY <1>2 DEF NextURL, ZRange, IsReady, RPop, DropHost, Touch, LLen, RetireHost,
              Calm, NoneTaken, Takes
<1>3. ASSUME NEW t \in Threads, ProcessURL(t) PROVE Calm
  BY <1>3 DEF ProcessURL, Discover, Finish, Calm, NoneTaken
<1>4. ASSUME NEW t \in Threads, Failure(t) PROVE Repeats
  BY <1>4 DEF Failure, AddFails, ScanFails, RPopFails, Resend, Fault, Repeats
<1>5. ASSUME NEW p \in Procs, Crash(p) PROVE Forgets
  BY <1>5 DEF Crash, Fault, Forgets, NoneTaken
<1>6. ASSUME NEW h \in Hosts, DelayElapses(h) PROVE Calm
  BY <1>6 DEF DelayElapses, Calm, NoneTaken
<1>7. UNCHANGED vars => Calm
  BY DEF vars, Calm, NoneTaken
<1> QED  BY <1>1, <1>2, <1>3, <1>4, <1>5, <1>6, <1>7 DEF Next, Step

\* The numbers that CopiesAreFew adds up.
Copies(u) == Cardinality(CopiesOf(u))
InHand(u) == Cardinality(HoldersOf(u))
PushedBy(u) == Cardinality(PushersOf(u))
LEMMA CopyNumbers ==
  ASSUME FrontierAssumption, TypeOK, IsFiniteSet(Threads), NEW u \in Urls
  PROVE  /\ CopiesOf(u) = Spots(queue[HostOf[u]], u)
         /\ queue[HostOf[u]] \in Seq(Entry) /\ HostOf[u] \in Hosts
         /\ Copies(u) \in Nat /\ InHand(u) \in Nat /\ PushedBy(u) \in Nat
         /\ IsFiniteSet(HoldersOf(u)) /\ IsFiniteSet(PushersOf(u))
         /\ Cardinality(Threads) \in Nat /\ PushedBy(u) <= Cardinality(Threads)
         /\ faults \in Nat /\ Cardinality(Threads) * faults \in Nat
<1>1. queue[HostOf[u]] \in Seq(Entry) /\ HostOf[u] \in Hosts
  BY DEF FrontierAssumption, TypeOK, RedisOK
<1>2. CopiesOf(u) = Spots(queue[HostOf[u]], u) /\ Copies(u) \in Nat
  BY <1>1, SpotsAreFinite DEF CopiesOf, Spots, Copies
<1>3. HoldersOf(u) \subseteq Threads /\ PushersOf(u) \subseteq Threads
  BY DEF HoldersOf, PushersOf
<1>4. /\ IsFiniteSet(HoldersOf(u)) /\ InHand(u) \in Nat
      /\ IsFiniteSet(PushersOf(u)) /\ PushedBy(u) \in Nat
      /\ PushedBy(u) <= Cardinality(Threads) /\ Cardinality(Threads) \in Nat
  BY <1>3, FS_Subset, FS_CardinalityType DEF InHand, PushedBy
<1>5. faults \in Nat
  BY DEF TypeOK, HistoryOK, FrontierAssumption
<1>6. \A m, n \in Nat : m * n \in Nat
  OBVIOUS
<1> QED  BY <1>1, <1>2, <1>4, <1>5, <1>6

\* Nobody holds more, if nobody takes a URL.
LEMMA NoMoreInHand ==
  ASSUME FrontierAssumption, TypeOK, IsFiniteSet(Threads), NEW u \in Urls, NoneTaken
  PROVE  InHand(u)' <= InHand(u)
<1>1. HoldersOf(u)' \subseteq HoldersOf(u)
  BY DEF HoldersOf, NoneTaken
<1> QED  BY <1>1, CopyNumbers, FS_Subset DEF InHand

LEMMA SameCopies ==
  ASSUME UNCHANGED queue, NEW u
  PROVE  Copies(u)' = Copies(u)
BY DEF Copies, CopiesOf

LEMMA CopiesPushed ==
  ASSUME FrontierAssumption, TypeOK, IsFiniteSet(Threads), NEW u \in Urls,
         NEW e \in Entry, Enqueue(e)
  PROVE  Copies(u)' = IF e.url = u THEN Copies(u) + 1 ELSE Copies(u)
<1>1. e.url \in Urls /\ HostOf[e.url] \in Hosts
  BY DEF Entry, FrontierAssumption
<1>2. Copies(u)' = Cardinality(Spots(queue'[HostOf[u]], u))
  BY DEF Copies, CopiesOf, Spots
<1>3. Copies(u) = Cardinality(Spots(queue[HostOf[u]], u)) /\ queue[HostOf[u]] \in Seq(Entry)
      /\ HostOf[u] \in Hosts
  BY CopyNumbers DEF Copies
<1>4. CASE HostOf[e.url] = HostOf[u]
  <2>1. queue'[HostOf[u]] = Append(queue[HostOf[u]], e)
    BY <1>3, <1>4 DEF Enqueue, TypeOK, RedisOK
  <2> QED  BY <1>2, <1>3, <2>1, SpotsAppend
<1>5. CASE HostOf[e.url] # HostOf[u]
  <2>1. queue'[HostOf[u]] = queue[HostOf[u]]
    BY <1>3, <1>5 DEF Enqueue, TypeOK, RedisOK
  <2> QED  BY <1>2, <1>3, <1>5, <2>1
<1> QED  BY <1>4, <1>5

LEMMA CopiesPopped ==
  ASSUME FrontierAssumption, TypeOK, IsFiniteSet(Threads), NEW u \in Urls,
         NEW h \in Hosts, queue[h] # <<>>, Dequeue(h)
  PROVE  Copies(u)' <= IF Head(queue[h]).url = u THEN Copies(u) - 1 ELSE Copies(u)
<1>1. queue[h] \in Seq(Entry) /\ HostOf[Head(queue[h]).url] = h
  <2>1. queue[h] \in Seq(Entry)
    BY DEF TypeOK, RedisOK
  <2>2. 1 \in DOMAIN queue[h] /\ Head(queue[h]) = queue[h][1]
    BY <2>1, EmptySeq, LenProperties
  <2> QED  BY <2>1, <2>2 DEF TypeOK, RedisOK
<1>2. Copies(u)' = Cardinality(Spots(queue'[HostOf[u]], u))
  BY DEF Copies, CopiesOf, Spots
<1>3. Copies(u) = Cardinality(Spots(queue[HostOf[u]], u)) /\ Copies(u) \in Nat
      /\ HostOf[u] \in Hosts
  BY CopyNumbers DEF Copies
<1>4. CASE h = HostOf[u]
  <2>1. queue'[HostOf[u]] = Tail(queue[h])
    BY <1>3, <1>4 DEF Dequeue, TypeOK, RedisOK
  <2> QED  BY <1>1, <1>2, <1>3, <1>4, <2>1, SpotsTail
<1>5. CASE h # HostOf[u]
  <2>1. queue'[HostOf[u]] = queue[HostOf[u]]
    BY <1>3, <1>5 DEF Dequeue, TypeOK, RedisOK
  <2> QED  BY <1>1, <1>2, <1>3, <1>5, <2>1
<1> QED  BY <1>4, <1>5

LEMMA CopiesStep ==
  ASSUME FrontierAssumption, IsFiniteSet(Threads), TypeOK, TypeOK', FreshPushes,
         CopiesAreFew, [Next]_vars
  PROVE  CopiesAreFew'
<1> DEFINE T == Cardinality(Threads)
<1> SUFFICES ASSUME NEW u \in Urls
             PROVE  Copies(u)' + InHand(u)' <= PushedBy(u)' + T * faults'
  BY DEF CopiesAreFew, Copies, InHand, PushedBy
<1>1. Copies(u) + InHand(u) <= PushedBy(u) + T * faults
  BY DEF CopiesAreFew, Copies, InHand, PushedBy
<1>2. /\ Copies(u) \in Nat /\ InHand(u) \in Nat /\ PushedBy(u) \in Nat /\ PushedBy(u) <= T
      /\ T \in Nat /\ faults \in Nat /\ T * faults \in Nat
      /\ IsFiniteSet(HoldersOf(u)) /\ IsFiniteSet(PushersOf(u))
  BY CopyNumbers
<1>3. Copies(u)' \in Nat /\ InHand(u)' \in Nat /\ PushedBy(u)' \in Nat
  <2>1. /\ IsFiniteSet(CopiesOf(u)') /\ IsFiniteSet(HoldersOf(u)') /\ IsFiniteSet(PushersOf(u)')
    <3>1. queue'[HostOf[u]] \in Seq(Entry)
      BY DEF FrontierAssumption, TypeOK, RedisOK
    <3>2. CopiesOf(u)' = Spots(queue'[HostOf[u]], u)
      BY DEF CopiesOf, Spots
    <3>3. HoldersOf(u)' \subseteq Threads /\ PushersOf(u)' \subseteq Threads
      BY DEF HoldersOf, PushersOf
    <3> QED  BY <3>1, <3>2, <3>3, SpotsAreFinite, FS_Subset
  <2> QED  BY <2>1, FS_CardinalityType DEF Copies, InHand, PushedBy
<1>4. faults' = faults + 1 => T * faults' = T * faults + T
  BY <1>2
<1> HIDE DEF T
<1>5. CASE Calm
  <2>1. PushedBy(u)' = PushedBy(u) /\ Copies(u)' = Copies(u) /\ faults' = faults
    BY <1>5, SameCopies DEF Calm, PushedBy, PushersOf
  <2>2. InHand(u)' <= InHand(u)
    BY <1>5, NoMoreInHand DEF Calm
  <2> QED  BY <1>1, <1>2, <1>3, <2>1, <2>2
<1>6. ASSUME NEW t \in Threads, Pushes(t)
      PROVE  Copies(u)' + InHand(u)' <= PushedBy(u)' + T * faults'
  <2>1. /\ Cur(t) \in Entry /\ Cur(t).url \notin pushed[t] /\ pushed \in [Threads -> SUBSET Urls]
        /\ faults' = faults /\ InHand(u)' = InHand(u)
    BY <1>6, CurOK DEF TypeOK, HistoryOK, FreshPushes, Pushes, AddSteps, InHand, HoldersOf
  <2>2. Copies(u)' = IF Cur(t).url = u THEN Copies(u) + 1 ELSE Copies(u)
    BY <1>6, <2>1, CopiesPushed DEF Pushes
  <2>3. CASE Cur(t).url = u
    <3>1. PushersOf(u)' = PushersOf(u) \cup {t} /\ t \notin PushersOf(u)
      BY <1>6, <2>1, <2>3 DEF Pushes, PushersOf
    <3>2. PushedBy(u)' = PushedBy(u) + 1
      BY <1>2, <3>1, FS_AddElement DEF PushedBy
    <3> QED  BY <1>1, <1>2, <1>3, <2>1, <2>2, <2>3, <3>2
  <2>4. CASE Cur(t).url # u
    <3>1. PushersOf(u)' = PushersOf(u)
      BY <1>6, <2>1, <2>4 DEF Pushes, PushersOf
    <3> QED  BY <1>1, <1>2, <2>1, <2>2, <2>4, <3>1 DEF PushedBy
  <2> QED  BY <2>3, <2>4
<1>7. ASSUME NEW t \in Threads, Takes(t)
      PROVE  Copies(u)' + InHand(u)' <= PushedBy(u)' + T * faults'
  <2>1. /\ Host(t) \in Hosts /\ held[t] = NoEntry /\ held \in [Threads -> Entry \cup {NoEntry}]
        /\ faults' = faults /\ PushedBy(u)' = PushedBy(u)
    BY <1>7, HostOK DEF TypeOK, LocalsOK, ControlOK, TryHost, Takes, PushedBy, PushersOf
  <2>2. Copies(u)' <= IF Head(queue[Host(t)]).url = u THEN Copies(u) - 1 ELSE Copies(u)
    BY <1>7, <2>1, CopiesPopped DEF Takes
  <2>3. CASE Head(queue[Host(t)]).url = u
    <3>1. HoldersOf(u)' \subseteq HoldersOf(u) \cup {t} /\ t \notin HoldersOf(u)
      BY <1>7, <2>1 DEF Takes, HoldersOf
    <3>2. /\ IsFiniteSet(HoldersOf(u) \cup {t})
          /\ Cardinality(HoldersOf(u) \cup {t}) = InHand(u) + 1
      BY <1>2, <3>1, FS_AddElement DEF InHand
    <3>3. InHand(u)' <= InHand(u) + 1
      BY <3>1, <3>2, FS_Subset DEF InHand
    <3> QED  BY <1>1, <1>2, <1>3, <2>1, <2>2, <2>3, <3>3
  <2>4. CASE Head(queue[Host(t)]).url # u
    <3>1. HoldersOf(u)' = HoldersOf(u)
      BY <1>7, <2>1, <2>4 DEF Takes, HoldersOf
    <3> QED  BY <1>1, <1>2, <1>3, <2>1, <2>2, <2>4, <3>1 DEF InHand
  <2> QED  BY <2>3, <2>4
<1>8. CASE Repeats
  <2>1. PushedBy(u)' = PushedBy(u) /\ InHand(u)' = InHand(u) /\ faults' = faults + 1
    BY <1>8 DEF Repeats, PushedBy, PushersOf, InHand, HoldersOf
  <2>2. CASE UNCHANGED queue
    <3>1. Copies(u)' = Copies(u)
      BY <2>2, SameCopies
    <3> QED  BY <1>1, <1>2, <1>3, <1>4, <2>1, <3>1
  <2>3. ASSUME NEW t \in Threads, pc[t] = "lpush", Enqueue(Cur(t))
        PROVE  Copies(u)' + InHand(u)' <= PushedBy(u)' + T * faults'
    <3>1. Copies(u)' <= Copies(u) + 1
      <4>1. Cur(t) \in Entry
        BY <2>3, CurOK DEF TypeOK, AddSteps
      <4> QED  BY <1>2, <2>3, <4>1, CopiesPushed
    <3>2. T >= 1
      <4>1. T # 0
        BY <2>3, FS_EmptySet DEF T
      <4> QED  BY <1>2, <4>1
    <3> QED  BY <1>1, <1>2, <1>3, <1>4, <2>1, <3>1, <3>2
  <2>4. ASSUME NEW t \in Threads, pc[t] = "rpop", queue[Host(t)] # <<>>, Dequeue(Host(t))
        PROVE  Copies(u)' + InHand(u)' <= PushedBy(u)' + T * faults'
    <3>1. Host(t) \in Hosts
      BY <2>4, HostOK DEF TypeOK, TryHost
    <3>2. Copies(u)' <= Copies(u)
      BY <1>2, <1>3, <2>4, <3>1, CopiesPopped
    <3> QED  BY <1>1, <1>2, <1>3, <1>4, <2>1, <3>2
  <2> QED  BY <1>8, <2>2, <2>3, <2>4 DEF Repeats
<1>9. CASE Forgets
  <2>1. Copies(u)' = Copies(u) /\ faults' = faults + 1
    BY <1>9, SameCopies DEF Forgets
  <2>2. InHand(u)' <= InHand(u)
    BY <1>9, NoMoreInHand DEF Forgets
  <2> DEFINE paid == T * faults
             due == T * faults'
  <2>3. due = paid + T /\ paid \in Nat /\ Copies(u) + InHand(u) <= PushedBy(u) + paid
    BY <1>1, <1>2, <1>4, <2>1
  <2> HIDE DEF paid, due
  <2>4. Copies(u)' + InHand(u)' <= PushedBy(u)' + due
    BY <1>2, <1>3, <2>1, <2>2, <2>3
  <2> QED  BY <2>4 DEF due
<1> QED  BY <1>5, <1>6, <1>7, <1>8, <1>9, CopySteps

\* De-duplication is not exact, but no URL multiplies: for any finite number of threads
\* and processes, no more copies of a URL are queued or crawled at once than
\* threads have pushed it, and each fault adds at most one for each thread.
THEOREM FewCopies ==
  ASSUME IsFiniteSet(Threads)
  PROVE  Spec => []CopiesAreFew
<1>1. ASSUME Init PROVE CopiesAreFew
  <2>1. ASSUME NEW u \in Urls PROVE CopiesOf(u) = {} /\ HoldersOf(u) = {} /\ PushersOf(u) = {}
    <3>1. queue[HostOf[u]] = <<>>
      BY <1>1, FrontierAssumption DEF Init, FrontierAssumption
    <3>2. DOMAIN queue[HostOf[u]] = {}
      BY <3>1
    <3> QED  BY <1>1, <3>2 DEF Init, CopiesOf, HoldersOf, PushersOf
  <2>2. Cardinality({}) = 0 /\ Cardinality(Threads) \in Nat /\ faults = 0
    BY <1>1, FS_EmptySet, FS_CardinalityType DEF Init
  <2>3. 0 + 0 <= 0 + Cardinality(Threads) * faults
    BY <2>2
  <2> QED  BY <2>1, <2>2, <2>3 DEF CopiesAreFew
<1>2. Init => FreshPushes
  BY DEF Init, FreshPushes
<1>3. TypeOK /\ FreshPushes /\ [Next]_vars => FreshPushes'
  BY FreshStep, FrontierAssumption
<1>4. TypeOK /\ TypeOK' /\ FreshPushes /\ CopiesAreFew /\ [Next]_vars => CopiesAreFew'
  BY CopiesStep, FrontierAssumption
<1> QED  BY <1>1, <1>2, <1>3, <1>4, TypeCorrect, PTL DEF Spec

-----------------------------------------------------------------------------
(* What is queued is seen *)

LEMMA QueuedStep ==
  ASSUME FrontierAssumption, TypeOK, FreshPushes, QueuedUrlIsSeen, [Next]_vars
  PROVE  QueuedUrlIsSeen'
<1> USE DEF TypeOK
<1>1. \A h \in Hosts : UrlsIn(queue[h]) \subseteq seen
  BY DEF QueuedUrlIsSeen
<1>2. \A t \in Threads : held[t] # NoEntry => held[t].url \in seen
  BY DEF QueuedUrlIsSeen, HeldUrls
<1>3. seen \subseteq seen'
  <2>1. ASSUME NEW t \in Threads, Submit(t) \/ Step(t) \/ Failure(t) PROVE seen \subseteq seen'
    BY <2>1, Frame
  <2> QED  BY <2>1 DEF Next, Crash, DelayElapses, vars, redisVars
<1>4. \A h \in Hosts : UrlsIn(queue'[h]) \subseteq seen'
  <2>1. CASE UNCHANGED queue
    BY <2>1, <1>1, <1>3
  <2>2. ASSUME NEW t \in Threads, pc[t] = "lpush", Enqueue(Cur(t))
        PROVE  \A h \in Hosts : UrlsIn(queue'[h]) \subseteq seen'
    <3>1. Cur(t) \in Entry
      BY <2>2, CurOK DEF AddSteps
    <3>2. Cur(t).url \in seen
      BY <2>2 DEF FreshPushes
    <3>3. \A h \in Hosts : UrlsIn(queue'[h]) \subseteq UrlsIn(queue[h]) \cup {Cur(t).url}
      BY <2>2, <3>1, EnqueueUrls
    <3> QED  BY <3>2, <3>3, <1>1, <1>3
  <2>3. ASSUME NEW t \in Threads, pc[t] = "rpop", queue[Host(t)] # <<>>, Dequeue(Host(t))
        PROVE  \A h \in Hosts : UrlsIn(queue'[h]) \subseteq seen'
    <3>1. Host(t) \in Hosts
      BY <2>3, HostOK DEF TryHost
    <3> QED  BY <2>3, <3>1, <1>1, <1>3, DequeueUrls
  <2>4. UNCHANGED queue \/ \E t \in Threads :
           \/ pc[t] = "lpush" /\ Enqueue(Cur(t))
           \/ pc[t] = "rpop" /\ queue[Host(t)] # <<>> /\ Dequeue(Host(t))
    BY QueueSteps
  <2> QED  BY <2>1, <2>2, <2>3, <2>4
<1>5. ASSUME NEW x \in Threads, held'[x] # NoEntry
      PROVE  held'[x].url \in seen'
  <2>1. \/ held'[x] = held[x]
        \/ pc[x] = "rpop" /\ queue[Host(x)] # <<>> /\ held'[x] = Head(queue[Host(x)])
    BY <1>5, HeldSteps
  <2>2. CASE held'[x] = held[x]
    BY <2>2, <1>2, <1>3, <1>5
  <2>3. CASE pc[x] = "rpop" /\ queue[Host(x)] # <<>> /\ held'[x] = Head(queue[Host(x)])
    <3>1. Host(x) \in Hosts
      BY <2>3, HostOK DEF TryHost
    <3>2. Head(queue[Host(x)]).url \in UrlsIn(queue[Host(x)])
      BY <2>3, <3>1, HeadUrl
    <3> QED  BY <2>3, <3>1, <3>2, <1>1, <1>3
  <2> QED  BY <2>1, <2>2, <2>3
<1> QED  BY <1>4, <1>5 DEF QueuedUrlIsSeen, HeldUrls

\* QueuedUrlIsSeen: no step order, error or restart puts a URL in a queue or in a
\* worker's hands that is not in seen:urls.
THEOREM QueuedIsSeen == Spec => []QueuedUrlIsSeen
<1>1. Init => FreshPushes
  BY DEF Init, FreshPushes
<1>2. TypeOK /\ FreshPushes /\ [Next]_vars => FreshPushes'
  BY FreshStep, FrontierAssumption
<1>3. Init => QueuedUrlIsSeen
  BY DEF Init, QueuedUrlIsSeen, UrlsIn, HeldUrls
<1>4. TypeOK /\ FreshPushes /\ QueuedUrlIsSeen /\ [Next]_vars => QueuedUrlIsSeen'
  BY QueuedStep, FrontierAssumption
<1> QED  BY <1>1, <1>2, <1>3, <1>4, TypeCorrect, PTL DEF Spec

-----------------------------------------------------------------------------
(* No URL vanishes silently *)

\* A queued URL stays queued until RPOP hands it to a worker or loses it.
LEMMA QueuedStays ==
  ASSUME FrontierAssumption, TypeOK, TypeOK', [Next]_vars,
         NEW h \in Hosts, NEW u \in UrlsIn(queue[h])
  PROVE  Accounted(u)'
<1> USE DEF TypeOK
<1>1. CASE u \in UrlsIn(queue'[h])
  BY <1>1 DEF Accounted, InFlight, UrlsIn
<1>2. CASE u \notin UrlsIn(queue'[h])
  <2>1. ASSUME NEW t \in Threads, pc[t] = "lpush", Enqueue(Cur(t)) PROVE FALSE
    <3>1. Cur(t) \in Entry
      BY <2>1, CurOK DEF AddSteps
    <3> QED  BY <2>1, <3>1, <1>2, EnqueueUrls
  <2>2. PICK t \in Threads :
          /\ pc[t] = "rpop" /\ queue[Host(t)] # <<>> /\ Dequeue(Host(t))
          /\ \/ held'[t] = Head(queue[Host(t)])
             \/ Head(queue[Host(t)]).url \in abandoned'
    BY <1>2, <2>1, QueueSteps
  <2>3. Host(t) \in Hosts
    BY <2>2, HostOK DEF TryHost
  <2>4. u = Head(queue[Host(t)]).url /\ Head(queue[Host(t)]) \in Entry
    BY <2>2, <2>3, <1>2, DequeueUrls, DequeueOK
  <2>5. CASE held'[t] = Head(queue[Host(t)])
    <3>1. held'[t] # NoEntry
      BY <2>4, <2>5, NoEntryAssumption
    <3> QED  BY <2>4, <2>5, <3>1 DEF Accounted, InFlight, HeldUrls
  <2>6. CASE Head(queue[Host(t)]).url \in abandoned'
    BY <2>4, <2>6 DEF Accounted
  <2> QED  BY <2>2, <2>5, <2>6
<1> QED  BY <1>1, <1>2

\* A URL about to be pushed gets queued or is recorded as dropped.
LEMMA PushedStays ==
  ASSUME FrontierAssumption, TypeOK, [Next]_vars,
         NEW x \in Threads, pc[x] = "lpush", NEW u, u = Cur(x).url
  PROVE  Accounted(u)'
<1> USE DEF TypeOK
<1>1. Cur(x) \in Entry /\ HostOf[u] \in Hosts
  BY CurOK DEF AddSteps
<1>2. ASSUME Enqueue(Cur(x)) PROVE Accounted(u)'
  <2>1. u \in UrlsIn(queue'[HostOf[u]])
    BY <1>1, <1>2, EnqueueUrls
  <2> QED  BY <1>1, <2>1 DEF Accounted, InFlight, UrlsIn
<1>3. ASSUME pc'[x] = "lpush", todo'[x] = todo[x] PROVE Accounted(u)'
  BY <1>3 DEF Accounted, InFlight, Cur
<1>4. ASSUME u \in dropped' PROVE Accounted(u)'
  BY <1>4 DEF Accounted
<1>5. ASSUME NEW t \in Threads, Submit(t) \/ Step(t) \/ Failure(t) PROVE Accounted(u)'
  <2>1. CASE t # x
    BY <2>1, <1>3, <1>5, Frame
  <2>2. CASE t = x /\ (Submit(t) \/ Step(t))
    <3>1. LPush(x)
      BY <2>2 DEF Submit, Step, AddURLs, TestBloom, SIsMember, AddBloom, SAdd, ZAdd,
                  NextURL, ZRange, IsReady, RPop, DropHost, Touch, LLen, RetireHost,
                  ProcessURL, Discover, Finish
    <3> QED  BY <3>1, <1>2 DEF LPush
  <2>3. CASE t = x /\ Failure(t)
    <3>1. Enqueue(Cur(x)) \/ u \in dropped'
      BY <2>3 DEF Failure, AddFails, ScanFails, RPopFails, Resend
    <3> QED  BY <3>1, <1>2, <1>4
  <2> QED  BY <1>5, <2>1, <2>2, <2>3
<1>6. ASSUME NEW p \in Procs, Crash(p) PROVE Accounted(u)'
  <2>1. CASE x \in ThreadsOf(p)
    BY <2>1, <1>4, <1>6 DEF Crash
  <2>2. CASE x \notin ThreadsOf(p)
    BY <2>2, <1>3, <1>6 DEF Crash, LocalsOK
  <2> QED  BY <2>1, <2>2
<1>7. CASE (\E h \in Hosts : DelayElapses(h)) \/ UNCHANGED vars
  BY <1>7, <1>3 DEF DelayElapses, vars, localVars
<1> QED  BY <1>5, <1>6, <1>7 DEF Next

\* A URL in a worker's hands stays there until it is done or the worker dies.
LEMMA HeldStays ==
  ASSUME FrontierAssumption, TypeOK, [Next]_vars,
         NEW x \in Threads, held[x] # NoEntry, NEW u, u = held[x].url
  PROVE  Accounted(u)'
<1> USE DEF TypeOK
<1>1. ASSUME held'[x] = held[x] PROVE Accounted(u)'
  BY <1>1 DEF Accounted, InFlight, HeldUrls
<1>2. ASSUME NEW t \in Threads, Submit(t) \/ Step(t) \/ Failure(t)
      PROVE  Accounted(u)'
  <2>1. CASE t # x
    BY <2>1, <1>1, <1>2, Frame
  <2>2. CASE t = x
    <3>1. pc[x] # "rpop"
      BY DEF LocalsOK, ControlOK, TryHost
    <3>2. CASE Finish(x)
      BY <3>2 DEF Finish, Accounted
    <3>3. CASE ~Finish(x)
      <4>1. held' = held
        BY <1>2, <2>2, <3>1, <3>3
           DEF Submit, Step, AddURLs, TestBloom, SIsMember, AddBloom, SAdd, LPush, ZAdd,
               NextURL, ZRange, IsReady, RPop, DropHost, Touch, LLen, RetireHost,
               ProcessURL, Discover, Failure, AddFails, ScanFails, RPopFails, Resend,
               localVars
      <4> QED  BY <4>1, <1>1
    <3> QED  BY <3>2, <3>3
  <2> QED  BY <2>1, <2>2
<1>3. ASSUME NEW p \in Procs, Crash(p) PROVE Accounted(u)'
  <2>1. CASE x \in ThreadsOf(p)
    BY <2>1, <1>3 DEF Crash, Accounted
  <2>2. CASE x \notin ThreadsOf(p)
    BY <2>2, <1>1, <1>3 DEF Crash, LocalsOK
  <2> QED  BY <2>1, <2>2
<1>4. CASE (\E h \in Hosts : DelayElapses(h)) \/ UNCHANGED vars
  BY <1>4, <1>1 DEF DelayElapses, vars, localVars
<1> QED  BY <1>2, <1>3, <1>4 DEF Next

\* A URL that is accounted for stays so.
LEMMA AccountedStays ==
  ASSUME FrontierAssumption, TypeOK, TypeOK', [Next]_vars, NEW u, Accounted(u)
  PROVE  Accounted(u)'
<1>1. CASE u \in finished \cup dropped \cup abandoned
  <2>1. finished \subseteq finished' /\ dropped \subseteq dropped' /\ abandoned \subseteq abandoned'
    BY HistoryGrows
  <2> QED  BY <1>1, <2>1 DEF Accounted
<1>2. CASE \E h \in Hosts : u \in UrlsIn(queue[h])
  BY <1>2, QueuedStays
<1>3. CASE \E t \in Threads : pc[t] = "lpush" /\ Cur(t).url = u
  BY <1>3, PushedStays
<1>4. CASE u \in HeldUrls
  BY <1>4, HeldStays DEF HeldUrls
<1> QED  BY <1>1, <1>2, <1>3, <1>4 DEF Accounted, InFlight

\* A URL that becomes seen is about to be pushed, or its SADD failed.
LEMMA NewlySeen ==
  ASSUME FrontierAssumption, TypeOK, [Next]_vars, NEW u \in seen', u \notin seen
  PROVE  Accounted(u)'
<1>1. PICK t \in Threads : \/ SAdd(t) /\ u = Cur(t).url
                           \/ u \in dropped'
  BY SeenSteps
<1>2. CASE SAdd(t) /\ u = Cur(t).url
  BY <1>2 DEF SAdd, Goto, TypeOK, LocalsOK, Accounted, InFlight, Cur
<1>3. CASE u \in dropped'
  BY <1>3 DEF Accounted
<1> QED  BY <1>1, <1>2, <1>3

\* SeenUrlIsAccountedFor is inductive.
LEMMA AccountedStep ==
  ASSUME FrontierAssumption, TypeOK, TypeOK', SeenUrlIsAccountedFor, [Next]_vars
  PROVE  SeenUrlIsAccountedFor'
<1> SUFFICES ASSUME NEW u \in seen' PROVE Accounted(u)'
  BY DEF SeenUrlIsAccountedFor
<1>1. CASE u \in seen
  BY <1>1, AccountedStays DEF SeenUrlIsAccountedFor
<1>2. CASE u \notin seen
  BY <1>2, NewlySeen
<1> QED  BY <1>1, <1>2

\* SeenUrlIsAccountedFor holds of every fleet: through every interleaving, error
\* and restart, a URL that seen:urls makes everybody skip is queued, in a thread's
\* hands, done, or one of those a failure took.
THEOREM SeenIsAccountedFor == Spec => []SeenUrlIsAccountedFor
<1>1. Init => SeenUrlIsAccountedFor
  BY DEF Init, SeenUrlIsAccountedFor
<1>2. TypeOK /\ TypeOK' /\ SeenUrlIsAccountedFor /\ [Next]_vars => SeenUrlIsAccountedFor'
  BY AccountedStep, FrontierAssumption
<1> QED  BY <1>1, <1>2, TypeCorrect, PTL DEF Spec

-----------------------------------------------------------------------------
(* The depth limit *)

\* The strengthening: the URLs still to add respect the limit too.
BatchDepth(t) == \A i \in DOMAIN todo[t] : DepthLimit(todo[t][i].depth)
DepthInv == DepthIsBounded /\ \A t \in Threads : BatchDepth(t)

\* The batch of a thread comes from a request or a page, and then only shrinks.
LEMMA BatchStep ==
  ASSUME FrontierAssumption, TypeOK, DepthInv, [Next]_vars, NEW x \in Threads
  PROVE  BatchDepth(x)'
<1> USE DEF TypeOK, LocalsOK, DepthInv
<1>1. ASSUME todo'[x] = todo[x] PROVE BatchDepth(x)'
  BY <1>1 DEF BatchDepth
<1>2. ASSUME todo'[x] = <<>> PROVE BatchDepth(x)'
  <2>1. DOMAIN <<>> = {}
    BY LenProperties, EmptySeq
  <2> QED  BY <1>2, <2>1 DEF BatchDepth
<1>3. ASSUME pc[x] \in AddSteps, todo'[x] = Tail(todo[x]) PROVE BatchDepth(x)'
  <2>1. todo[x] \in Seq(Entry) /\ todo[x] # <<>>
    BY <1>3 DEF ControlOK
  <2>2. \A i \in DOMAIN Tail(todo[x]) :
           i + 1 \in DOMAIN todo[x] /\ Tail(todo[x])[i] = todo[x][i + 1]
    BY <2>1, HeadTail
  <2> QED  BY <1>3, <2>2 DEF BatchDepth
<1>4. ASSUME NEW t \in Threads, Submit(t) \/ Step(t) \/ Failure(t) PROVE BatchDepth(x)'
  <2>1. CASE t # x
    BY <2>1, <1>1, <1>4, Frame
  <2>2. CASE t = x /\ Submit(t)
    <3>1. PICK r \in Seeds : todo'[x] =
            [i \in DOMAIN r.urls |-> [url |-> r.urls[i], prio |-> r.prio, depth |-> r.depth]]
      BY <2>2 DEF Submit
    <3> QED  BY <3>1 DEF BatchDepth, DepthLimit
  <2>3. CASE t = x /\ AddURLs(t)
    <3>1. pc[x] \in AddSteps
      BY <2>3 DEF AddURLs, TestBloom, SIsMember, AddBloom, SAdd, LPush, ZAdd, AddSteps
    <3>2. todo'[x] \in {todo[x], <<>>, Tail(todo[x])}
      BY <2>3 DEF AddURLs, TestBloom, SIsMember, AddBloom, SAdd, LPush, ZAdd,
                  NextUrl, AbortAdd
    <3> QED  BY <3>1, <3>2, <1>1, <1>2, <1>3
  <2>4. CASE t = x /\ NextURL(t)
    <3>1. todo' = todo
      BY <2>4 DEF NextURL, ZRange, IsReady, RPop, DropHost, Touch, LLen, RetireHost
    <3> QED  BY <3>1, <1>1
  <2>5. CASE t = x /\ Discover(t)
    <3>1. held[x].depth \in Int /\ held[x].depth < MaxDepth
      BY <2>5 DEF Discover, ControlOK, Entry
    <3>2. DepthLimit(held[x].depth + 1)
      BY <3>1 DEF DepthLimit, FrontierAssumption
    <3>3. todo'[x] = [i \in DOMAIN Links[held[x].url] |->
             [url |-> Links[held[x].url][i], prio |-> held[x].prio,
              depth |-> held[x].depth + 1]]
      BY <2>5 DEF Discover
    <3> QED  BY <3>2, <3>3 DEF BatchDepth, DepthLimit
  <2>6. CASE t = x /\ Finish(t)
    BY <2>6, <1>1 DEF Finish
  <2>7. CASE t = x /\ Failure(t)
    <3>1. todo'[x] \in {todo[x], <<>>}
      BY <2>7 DEF Failure, AddFails, ScanFails, RPopFails, Resend, AbortAdd, localVars
    <3> QED  BY <3>1, <1>1, <1>2
  <2> QED  BY <1>4, <2>1, <2>2, <2>3, <2>4, <2>5, <2>6, <2>7 DEF Step, ProcessURL
<1>5. ASSUME NEW p \in Procs, Crash(p) PROVE BatchDepth(x)'
  <2>1. todo'[x] \in {todo[x], <<>>}
    BY <1>5 DEF Crash
  <2> QED  BY <2>1, <1>1, <1>2
<1>6. CASE (\E h \in Hosts : DelayElapses(h)) \/ UNCHANGED vars
  BY <1>6, <1>1 DEF DelayElapses, vars, localVars
<1> QED  BY <1>4, <1>5, <1>6 DEF Next

LEMMA DepthStep ==
  ASSUME FrontierAssumption, TypeOK, DepthInv, [Next]_vars
  PROVE  DepthInv'
<1> USE DEF TypeOK
<1>1. \A t \in Threads : BatchDepth(t)'
  BY BatchStep
<1>2. ASSUME NEW h \in Hosts, NEW i \in DOMAIN queue'[h]
      PROVE  DepthLimit(queue'[h][i].depth)
  <2>1. CASE UNCHANGED queue
    BY <2>1, <1>2 DEF DepthInv, DepthIsBounded
  <2>2. ASSUME NEW t \in Threads, pc[t] = "lpush", Enqueue(Cur(t))
        PROVE  DepthLimit(queue'[h][i].depth)
    <3> DEFINE k == HostOf[Cur(t).url]
    <3>1. Cur(t) \in Entry /\ k \in Hosts
      BY <2>2, CurOK DEF AddSteps
    <3>2. DepthLimit(Cur(t).depth)
      <4>1. todo[t] \in Seq(Entry) /\ todo[t] # <<>>
        BY <2>2 DEF LocalsOK, ControlOK, AddSteps
      <4>2. 1 \in DOMAIN todo[t] /\ Cur(t) = todo[t][1]
        BY <4>1, EmptySeq, LenProperties DEF Cur
      <4> QED  BY <4>2 DEF DepthInv, BatchDepth
    <3>3. queue' = [queue EXCEPT ![k] = Append(queue[k], Cur(t))] /\ queue[k] \in Seq(Entry)
      BY <2>2, <3>1 DEF Enqueue, RedisOK
    <3>4. \A j \in DOMAIN Append(queue[k], Cur(t)) :
             \/ j \in DOMAIN queue[k] /\ Append(queue[k], Cur(t))[j] = queue[k][j]
             \/ Append(queue[k], Cur(t))[j] = Cur(t)
      BY <3>1, <3>3, Appended
    <3>5. CASE h = k
      BY <3>1, <3>2, <3>3, <3>4, <3>5, <1>2 DEF RedisOK, DepthInv, DepthIsBounded
    <3>6. CASE h # k
      BY <3>3, <3>6, <1>2 DEF RedisOK, DepthInv, DepthIsBounded
    <3> QED  BY <3>5, <3>6
  <2>3. ASSUME NEW t \in Threads, pc[t] = "rpop", queue[Host(t)] # <<>>, Dequeue(Host(t))
        PROVE  DepthLimit(queue'[h][i].depth)
    <3> DEFINE k == Host(t)
    <3>1. k \in Hosts
      BY <2>3, HostOK DEF TryHost
    <3>2. queue' = [queue EXCEPT ![k] = Tail(queue[k])] /\ queue[k] \in Seq(Entry)
      BY <2>3, <3>1 DEF Dequeue, RedisOK
    <3>3. \A j \in DOMAIN Tail(queue[k]) :
             j + 1 \in DOMAIN queue[k] /\ Tail(queue[k])[j] = queue[k][j + 1]
      BY <2>3, <3>2, HeadTail
    <3>4. CASE h = k
      BY <3>1, <3>2, <3>3, <3>4, <1>2 DEF RedisOK, DepthInv, DepthIsBounded
    <3>5. CASE h # k
      BY <3>2, <3>5, <1>2 DEF RedisOK, DepthInv, DepthIsBounded
    <3> QED  BY <3>4, <3>5
  <2> QED  BY <2>1, <2>2, <2>3, QueueSteps
<1>3. ASSUME NEW x \in Threads, held'[x] # NoEntry PROVE DepthLimit(held'[x].depth)
  <2>1. CASE held'[x] = held[x]
    BY <2>1, <1>3 DEF DepthInv, DepthIsBounded
  <2>2. CASE pc[x] = "rpop" /\ queue[Host(x)] # <<>> /\ held'[x] = Head(queue[Host(x)])
    <3>1. Host(x) \in Hosts
      BY <2>2, HostOK DEF TryHost
    <3>2. queue[Host(x)] \in Seq(Entry)
      BY <3>1 DEF RedisOK
    <3>3. 1 \in DOMAIN queue[Host(x)] /\ Head(queue[Host(x)]) = queue[Host(x)][1]
      BY <2>2, <3>2, EmptySeq, LenProperties
    <3> QED  BY <2>2, <3>1, <3>3 DEF DepthInv, DepthIsBounded
  <2> QED  BY <1>3, <2>1, <2>2, HeldSteps
<1>4. DepthIsBounded'
  BY <1>2, <1>3 DEF DepthIsBounded, DepthLimit
<1> QED  BY <1>1, <1>4 DEF DepthInv

\* DepthIsBounded holds of every site and every MaxDepth: following links never
\* takes the crawl deeper than MaxDepth or than a seed request asked for.
THEOREM DepthBound == Spec => []DepthIsBounded
<1>1. Init => DepthInv
  <2>1. DOMAIN <<>> = {}
    BY LenProperties, EmptySeq
  <2> QED  BY <2>1 DEF Init, DepthInv, DepthIsBounded, BatchDepth
<1>2. TypeOK /\ DepthInv /\ [Next]_vars => DepthInv'
  BY DepthStep, FrontierAssumption
<1>3. DepthInv => DepthIsBounded
  BY DEF DepthInv
<1> QED  BY <1>1, <1>2, <1>3, TypeCorrect, PTL DEF Spec
=============================================================================
