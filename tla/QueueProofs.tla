----------------------------- MODULE QueueProofs -----------------------------
(* Theorems about the queues of the frontier: which of them may be missing in *)
(* the priority set, and what their callers see of them.  Calls overlap, fail *)
(* and are cut short as in Frontier.                                          *)
EXTENDS Listing, FrontierProofs

\* A step of a thread leaves the scans of the others alone.
LEMMA ScanFrame ==
  ASSUME TypeOK, NEW t \in Threads, Submit(t) \/ Step(t) \/ Failure(t)
  PROVE  \A x \in Threads \ {t} : scan'[x] = scan[x]
<1> USE DEF TypeOK, LocalsOK, redisVars, localVars
<1>1. CASE Submit(t)
  BY <1>1 DEF Submit
<1>2. CASE AddURLs(t)
  BY <1>2 DEF AddURLs, TestBloom, SIsMember, AddBloom, SAdd, LPush, ZAdd
<1>3. CASE NextURL(t)
  BY <1>3 DEF NextURL, ZRange, IsReady, RPop, DropHost, Touch, LLen, RetireHost,
              NextHost, Leave
<1>4. CASE ProcessURL(t)
  BY <1>4 DEF ProcessURL, Discover, Finish
<1>5. CASE Failure(t)
  BY <1>5 DEF Failure, AddFails, ScanFails, RPopFails, Resend, NextHost, Leave
<1> QED  BY <1>1, <1>2, <1>3, <1>4, <1>5 DEF Step

\* The other threads add the same URL and try the same host after the step.
LEMMA OthersStay ==
  ASSUME FrontierAssumption, TypeOK, NEW t \in Threads, Submit(t) \/ Step(t) \/ Failure(t)
  PROVE  \A x \in Threads \ {t} : pc'[x] = pc[x] /\ Cur(x)' = Cur(x) /\ Host(x)' = Host(x)
BY Frame, ScanFrame DEF Cur, Host

-----------------------------------------------------------------------------
(* Where hosts are listed *)

\* A ZREM is on its way to a host only if its queue is empty or the host adrift.
ZremIsExcused ==
    \A t \in Threads : pc[t] \in {"drop", "retire"} =>
       queue[Host(t)] = <<>> \/ Host(t) \in adrift

ListingInv == TypeOK /\ QueuedHostIsListed /\ ZremIsExcused

LEMMA ListingStart == ASSUME FrontierAssumption, ListingInit PROVE ListingInv
<1>1. QueuedHostIsListed /\ ZremIsExcused
  BY DEF ListingInit, Init, QueuedHostIsListed, ZremIsExcused
<1> QED  BY <1>1, InitType DEF ListingInv, ListingInit

\* What each step does to queues and to the priority set.
LEMMA StepQueues ==
  ASSUME FrontierAssumption, TypeOK, NEW t \in Threads, Submit(t) \/ Step(t)
  PROVE  \/ UNCHANGED <<queue, listed>> /\ pc[t] # "zadd"
         \/ pc[t] = "lpush" /\ Enqueue(Cur(t)) /\ pc'[t] = "zadd"
            /\ UNCHANGED <<listed, todo>>
         \/ pc[t] = "zadd" /\ List(Cur(t)) /\ UNCHANGED queue
         \/ pc[t] = "rpop" /\ queue[Host(t)] # <<>> /\ Dequeue(Host(t)) /\ UNCHANGED listed
         \/ pc[t] \in {"drop", "retire"} /\ Unlist(Host(t)) /\ UNCHANGED queue
<1> USE DEF TypeOK, LocalsOK, Goto, redisVars
<1>1. CASE Submit(t)
  BY <1>1 DEF Submit
<1>2. CASE TestBloom(t) \/ SIsMember(t)
  BY <1>2 DEF TestBloom, SIsMember, NextUrl, AbortAdd, AfterAdd
<1>3. CASE AddBloom(t) \/ SAdd(t)
  BY <1>3 DEF AddBloom, SAdd
<1>4. CASE LPush(t)
  BY <1>4 DEF LPush
<1>5. CASE ZAdd(t)
  BY <1>5 DEF ZAdd
<1>6. CASE ZRange(t) \/ IsReady(t)
  BY <1>6 DEF ZRange, IsReady, NextHost
<1>7. CASE RPop(t)
  BY <1>7 DEF RPop
<1>8. CASE DropHost(t) \/ RetireHost(t)
  BY <1>8 DEF DropHost, RetireHost, NextHost, Leave
<1>9. CASE Touch(t) \/ LLen(t)
  BY <1>9 DEF Touch, LLen, Leave
<1>10. CASE ProcessURL(t)
  BY <1>10 DEF ProcessURL, Discover, Finish
<1> QED  BY <1>1, <1>2, <1>3, <1>4, <1>5, <1>6, <1>7, <1>8, <1>9, <1>10
         DEF Step, AddURLs, NextURL

\* ZREM comes next only if RPOP or LLEN has just found the queue empty.
LEMMA StepUnlists ==
  ASSUME FrontierAssumption, TypeOK, NEW t \in Threads, Submit(t) \/ Step(t),
         pc'[t] \in {"drop", "retire"}
  PROVE  scan' = scan /\ queue' = queue /\ queue[Host(t)] = <<>>
<1> USE DEF TypeOK, LocalsOK, Goto, redisVars
<1>1. CASE RPop(t)
  BY <1>1 DEF RPop
<1>2. CASE LLen(t)
  BY <1>2 DEF LLen, Leave
<1>3. CASE Submit(t) \/ AddURLs(t)
  BY <1>3 DEF Submit, AddURLs, TestBloom, SIsMember, AddBloom, SAdd, LPush, ZAdd,
              NextUrl, AbortAdd, AfterAdd
<1>4. CASE ZRange(t) \/ IsReady(t) \/ DropHost(t) \/ Touch(t) \/ RetireHost(t)
  BY <1>4 DEF ZRange, IsReady, DropHost, Touch, RetireHost, NextHost, Leave
<1>5. CASE ProcessURL(t)
  BY <1>5 DEF ProcessURL, Discover, Finish
<1> QED  BY <1>1, <1>2, <1>3, <1>4, <1>5 DEF Step, NextURL

\* What a failure does to them.
LEMMA FailureQueues ==
  ASSUME FrontierAssumption, TypeOK, NEW t \in Threads, Failure(t)
  PROVE  /\ listed \subseteq listed'
         /\ \/ UNCHANGED queue
            \/ pc[t] = "lpush" /\ Enqueue(Cur(t))
            \/ pc[t] = "rpop" /\ queue[Host(t)] # <<>> /\ Dequeue(Host(t))
         /\ pc'[t] \in {"drop", "retire"} =>
               scan' = scan /\ queue' = queue /\ pc[t] = "llen"
<1> USE DEF TypeOK, LocalsOK, Goto, redisVars, localVars
<1>1. CASE AddFails(t)
  <2>1. listed \subseteq listed'
    BY <1>1 DEF AddFails, List
  <2>2. UNCHANGED queue \/ (pc[t] = "lpush" /\ Enqueue(Cur(t)))
    BY <1>1 DEF AddFails
  <2>3. pc'[t] \notin {"drop", "retire"}
    BY <1>1 DEF AddFails, AbortAdd, AfterAdd
  <2> QED  BY <2>1, <2>2, <2>3
<1>2. CASE ScanFails(t)
  BY <1>2 DEF ScanFails, NextHost, Leave
<1>3. CASE RPopFails(t)
  BY <1>3 DEF RPopFails, Leave
<1>4. CASE Resend(t)
  BY <1>4 DEF Resend
<1> QED  BY <1>1, <1>2, <1>3, <1>4 DEF Failure

\* LPUSH makes its own queue longer, RPOP none.
LEMMA EnqueueAt ==
  ASSUME FrontierAssumption, TypeOK, NEW t \in Threads, pc[t] = "lpush", Enqueue(Cur(t)),
         NEW h \in Hosts
  PROVE  IF h = HostOf[Cur(t).url] THEN queue'[h] # queue[h] /\ queue'[h] # <<>>
         ELSE queue'[h] = queue[h]
<1>1. Cur(t) \in Entry /\ HostOf[Cur(t).url] \in Hosts
  BY CurOK DEF TypeOK, AddSteps
<1>2. queue \in [Hosts -> Seq(Entry)]
  BY DEF TypeOK, RedisOK
<1>3. CASE h = HostOf[Cur(t).url]
  <2> DEFINE q == queue[h]
             e == Cur(t)
  <2>1. queue'[h] = Append(q, e)
    BY <1>1, <1>2, <1>3 DEF Enqueue
  <2>2. q \in Seq(Entry) /\ e \in Entry
    BY <1>1, <1>2
  <2> HIDE DEF q, e
  <2>3. Len(Append(q, e)) = Len(q) + 1 /\ Len(q) \in Nat /\ Append(q, e) \in Seq(Entry)
    BY <2>2, AppendProperties, LenProperties
  <2>4. Append(q, e) # q
    <3>1. Len(Append(q, e)) # Len(q)
      BY <2>3
    <3> QED  BY <3>1
  <2>5. Append(q, e) # <<>>
    BY <2>2, AppendProperties
  <2> QED  BY <1>3, <2>1, <2>4, <2>5 DEF q
<1>4. CASE h # HostOf[Cur(t).url]
  BY <1>1, <1>2, <1>4 DEF Enqueue
<1> QED  BY <1>3, <1>4

LEMMA DequeueAt ==
  ASSUME TypeOK, NEW k \in Hosts, Dequeue(k), NEW h \in Hosts, queue[h] = <<>>, queue[k] # <<>>
  PROVE  queue'[h] = <<>>
BY DEF Dequeue, TypeOK, RedisOK

\* A thread that is at ZREM, and another one that moves.
LEMMA ZremStaysExcused ==
  ASSUME FrontierAssumption, ListingInv,
         NEW t \in Threads, Submit(t) \/ Step(t) \/ Failure(t),
         NEW x \in Threads \ {t}, pc'[x] \in {"drop", "retire"},
         adrift \cup Overtaken(t) \subseteq adrift' \cup Relisted(t)
  PROVE  queue'[Host(x)'] = <<>> \/ Host(x)' \in adrift'
<1> DEFINE k == Host(x)
<1>1. pc[x] \in {"drop", "retire"} /\ Host(x)' = k
  BY OthersStay DEF ListingInv
<1>2. k \in Hosts
  BY <1>1, HostOK DEF ListingInv, TypeOK, TryHost, TookUrl
<1>3. Unlisting(k)
  BY <1>1 DEF Unlisting
<1>4. k \notin Relisted(t)
  BY <1>3 DEF Relisted, AddingTo
<1>5. queue[k] = <<>> \/ k \in adrift
  BY <1>1 DEF ListingInv, ZremIsExcused
<1> HIDE DEF k
<1>6. queue[k] = <<>> /\ queue'[k] # <<>> => k \in Overtaken(t)
  <2> SUFFICES ASSUME queue[k] = <<>>, queue'[k] # <<>> PROVE k \in Overtaken(t)
    OBVIOUS
  <2>1. \/ UNCHANGED queue
        \/ pc[t] = "lpush" /\ Enqueue(Cur(t))
        \/ pc[t] = "rpop" /\ queue[Host(t)] # <<>> /\ Dequeue(Host(t))
    BY StepQueues, FailureQueues DEF ListingInv
  <2>2. pc[t] = "rpop" => Host(t) \in Hosts
    BY HostOK DEF ListingInv, TypeOK, TryHost, TookUrl
  <2>3. pc[t] = "lpush" /\ Enqueue(Cur(t))
    BY <1>2, <2>1, <2>2, DequeueAt DEF ListingInv
  <2>4. k = HostOf[Cur(t).url]
    BY <1>2, <2>3, EnqueueAt DEF ListingInv
  <2> QED  BY <1>2, <1>3, <2>3, <2>4 DEF Overtaken, AddingTo
<1> QED  BY <1>1, <1>4, <1>5, <1>6

LEMMA ListingByStep ==
  ASSUME FrontierAssumption, ListingInv, NEW t \in Threads, Submit(t) \/ Step(t),
         adrift' = (adrift \cup Overtaken(t)) \ Relisted(t)
  PROVE  QueuedHostIsListed' /\ ZremIsExcused'
<1>1. \A x \in Threads \ {t} : pc'[x] = pc[x] /\ Cur(x)' = Cur(x)
  BY OthersStay DEF ListingInv
<1>2. ZremIsExcused'
  <2>1. ASSUME pc'[t] \in {"drop", "retire"} PROVE queue'[Host(t)'] = <<>>
    BY <2>1, StepUnlists DEF Host, ListingInv
  <2>2. ASSUME NEW x \in Threads \ {t}, pc'[x] \in {"drop", "retire"}
        PROVE  queue'[Host(x)'] = <<>> \/ Host(x)' \in adrift'
    BY <2>2, ZremStaysExcused
  <2> QED  BY <2>1, <2>2 DEF ZremIsExcused
<1>3. QueuedHostIsListed'
  <2> SUFFICES ASSUME NEW h \in Hosts, queue'[h] # <<>>,
                      \A x \in Threads : ~(pc'[x] = "zadd" /\ HostOf[Cur(x)'.url] = h)
               PROVE  h \in listed' \cup adrift'
    BY DEF QueuedHostIsListed
  <2>1. \A x \in Threads \ {t} : ~(pc[x] = "zadd" /\ HostOf[Cur(x).url] = h)
    BY <1>1
  <2>2. queue[h] # <<>> =>
          h \in listed \cup adrift \/ (pc[t] = "zadd" /\ HostOf[Cur(t).url] = h)
    BY <2>1 DEF ListingInv, QueuedHostIsListed
  <2>3. h \in Relisted(t) => pc[t] = "zadd" /\ h = HostOf[Cur(t).url]
    BY DEF Relisted, AddingTo
  <2>4. CASE UNCHANGED <<queue, listed>> /\ pc[t] # "zadd"
    BY <2>2, <2>3, <2>4
  <2>5. CASE pc[t] = "lpush" /\ Enqueue(Cur(t)) /\ pc'[t] = "zadd" /\ UNCHANGED <<listed, todo>>
    <3>1. HostOf[Cur(t).url] # h
      BY <2>5 DEF Cur
    <3>2. queue'[h] = queue[h]
      BY <2>5, <3>1, EnqueueAt DEF ListingInv
    <3> QED  BY <2>2, <2>3, <2>5, <3>2
  <2>6. CASE pc[t] = "zadd" /\ List(Cur(t)) /\ UNCHANGED queue
    BY <2>2, <2>3, <2>6 DEF List
  <2>7. CASE pc[t] = "rpop" /\ queue[Host(t)] # <<>> /\ Dequeue(Host(t)) /\ UNCHANGED listed
    <3>1. Host(t) \in Hosts
      BY <2>7, HostOK DEF ListingInv, TypeOK, TryHost, TookUrl
    <3>2. queue[h] # <<>>
      BY <2>7, <3>1, DequeueAt DEF ListingInv
    <3> QED  BY <2>2, <2>3, <2>7, <3>2
  <2>8. CASE pc[t] \in {"drop", "retire"} /\ Unlist(Host(t)) /\ UNCHANGED queue
    <3>1. queue[Host(t)] = <<>> \/ Host(t) \in adrift
      BY <2>8 DEF ListingInv, ZremIsExcused
    <3> QED  BY <2>2, <2>3, <2>8, <3>1 DEF Unlist
  <2> QED  BY <2>4, <2>5, <2>6, <2>7, <2>8, StepQueues DEF ListingInv
<1> QED  BY <1>2, <1>3

LEMMA ListingByFailure ==
  ASSUME FrontierAssumption, ListingInv, NEW t \in Threads, Failure(t),
         adrift' = adrift \cup Overtaken(t) \cup CutShort(t) \cup Misread(t)
  PROVE  QueuedHostIsListed' /\ ZremIsExcused'
<1>1. \A x \in Threads \ {t} : pc'[x] = pc[x] /\ Cur(x)' = Cur(x)
  BY OthersStay DEF ListingInv
<1>2. /\ listed \subseteq listed'
      /\ \/ UNCHANGED queue
         \/ pc[t] = "lpush" /\ Enqueue(Cur(t))
         \/ pc[t] = "rpop" /\ queue[Host(t)] # <<>> /\ Dequeue(Host(t))
      /\ pc'[t] \in {"drop", "retire"} =>
            scan' = scan /\ queue' = queue /\ pc[t] = "llen"
  BY FailureQueues DEF ListingInv
<1>3. ZremIsExcused'
  <2>1. ASSUME pc'[t] \in {"drop", "retire"}
        PROVE  queue'[Host(t)'] = <<>> \/ Host(t)' \in adrift'
    <3>1. Host(t)' = Host(t) /\ queue' = queue /\ pc[t] = "llen"
      BY <1>2, <2>1 DEF Host
    <3>2. Host(t) \in Hosts
      BY <3>1, HostOK DEF ListingInv, TypeOK, TryHost, TookUrl
    <3>3. queue[Host(t)] # <<>> => Host(t) \in Misread(t)
      BY <3>1, <3>2 DEF Misread
    <3> QED  BY <3>1, <3>3
  <2>2. ASSUME NEW x \in Threads \ {t}, pc'[x] \in {"drop", "retire"}
        PROVE  queue'[Host(x)'] = <<>> \/ Host(x)' \in adrift'
    BY <2>2, ZremStaysExcused
  <2> QED  BY <2>1, <2>2 DEF ZremIsExcused
<1>4. QueuedHostIsListed'
  <2> SUFFICES ASSUME NEW h \in Hosts, queue'[h] # <<>>, h \notin listed' \cup adrift',
                      \A x \in Threads : ~(pc'[x] = "zadd" /\ HostOf[Cur(x)'.url] = h)
               PROVE  FALSE
    BY DEF QueuedHostIsListed
  <2>1. \A x \in Threads \ {t} : ~(pc[x] = "zadd" /\ HostOf[Cur(x).url] = h)
    BY <1>1
  <2>2. ~(pc[t] \in {"lpush", "zadd"} /\ h = HostOf[Cur(t).url])
    BY DEF CutShort, AddingTo
  <2>3. queue[h] = <<>>
    BY <1>2, <2>1, <2>2 DEF ListingInv, QueuedHostIsListed
  <2>4. pc[t] = "rpop" => Host(t) \in Hosts
    BY HostOK DEF ListingInv, TypeOK, TryHost, TookUrl
  <2> QED  BY <1>2, <2>2, <2>3, <2>4, EnqueueAt, DequeueAt DEF ListingInv
<1> QED  BY <1>3, <1>4

LEMMA ListingByCrash ==
  ASSUME FrontierAssumption, ListingInv, NEW p \in Procs, Crash(p),
         adrift' = adrift \cup UNION {CutShort(t) : t \in ThreadsOf(p)}
  PROVE  QueuedHostIsListed' /\ ZremIsExcused'
<1>1. /\ \A x \in Threads \ ThreadsOf(p) :
            pc'[x] = pc[x] /\ todo'[x] = todo[x] /\ scan'[x] = scan[x]
      /\ \A x \in ThreadsOf(p) : pc'[x] = "idle"
      /\ UNCHANGED <<queue, listed>>
  BY DEF Crash, redisVars, ThreadsOf
<1>2. ZremIsExcused'
  BY <1>1 DEF ListingInv, ZremIsExcused, Host
<1>3. QueuedHostIsListed'
  <2> SUFFICES ASSUME NEW h \in Hosts, queue[h] # <<>>, h \notin listed \cup adrift',
                      \A x \in Threads : ~(pc'[x] = "zadd" /\ HostOf[Cur(x)'.url] = h)
               PROVE  FALSE
    BY <1>1 DEF QueuedHostIsListed
  <2>1. PICK x \in Threads : pc[x] = "zadd" /\ HostOf[Cur(x).url] = h
    BY DEF ListingInv, QueuedHostIsListed
  <2>2. x \in ThreadsOf(p)
    BY <1>1, <2>1 DEF Cur
  <2>3. h \in CutShort(x)
    BY <1>1, <2>1 DEF CutShort, AddingTo
  <2> QED  BY <2>2, <2>3
<1> QED  BY <1>2, <1>3

LEMMA ListingStep ==
  ASSUME FrontierAssumption, ListingInv, [ListingNext]_listingVars
  PROVE  ListingInv'
<1>1. TypeOK'
  BY TypeStep DEF ListingInv, ListingNext, Next, listingVars
<1>2. CASE UNCHANGED listingVars
  BY <1>1, <1>2 DEF ListingInv, QueuedHostIsListed, ZremIsExcused, Cur, Host, listingVars,
                    vars, redisVars, localVars
<1>3. ASSUME NEW t \in Threads, Submit(t) \/ Step(t),
             adrift' = (adrift \cup Overtaken(t)) \ Relisted(t)
      PROVE  ListingInv'
  BY <1>1, <1>3, ListingByStep DEF ListingInv
<1>4. ASSUME NEW t \in Threads, Failure(t),
             adrift' = adrift \cup Overtaken(t) \cup CutShort(t) \cup Misread(t)
      PROVE  ListingInv'
  BY <1>1, <1>4, ListingByFailure DEF ListingInv
<1>5. ASSUME NEW p \in Procs, Crash(p),
             adrift' = adrift \cup UNION {CutShort(t) : t \in ThreadsOf(p)}
      PROVE  ListingInv'
  BY <1>1, <1>5, ListingByCrash DEF ListingInv
<1>6. ASSUME NEW h \in Hosts, DelayElapses(h), UNCHANGED adrift
      PROVE  ListingInv'
  BY <1>1, <1>6 DEF DelayElapses, ListingInv, QueuedHostIsListed, ZremIsExcused, Cur, Host,
                    localVars
<1> QED  BY <1>2, <1>3, <1>4, <1>5, <1>6 DEF ListingNext

\* A host with queued URLs is in the priority set, where NextURL looks for it, or
\* about to get there, unless a ZREM came late or a fault hit AddURLs or LLEN, and
\* then only until the next AddURLs for it: for any number of workers, seeders and
\* faults, however their calls overlap.
THEOREM HostsStayListed == ListingSpec => []QueuedHostIsListed
<1>1. ListingInit => ListingInv
  BY ListingStart, FrontierAssumption
<1>2. ListingInv /\ [ListingNext]_listingVars => ListingInv'
  BY ListingStep, FrontierAssumption
<1>3. ListingInv => QueuedHostIsListed
  BY DEF ListingInv
<1> QED  BY <1>1, <1>2, <1>3, PTL DEF ListingSpec

-----------------------------------------------------------------------------
(* What the callers see *)

UrlSeq(q) == [i \in DOMAIN q |-> q[i].url]

\* The URLs of a queue, in its order.
LEMMA UrlSeqType ==
  ASSUME NEW q \in Seq(Entry)
  PROVE  UrlSeq(q) \in Seq(Urls) /\ Len(UrlSeq(q)) = Len(q)
         /\ \A i \in 1..Len(q) : UrlSeq(q)[i] = q[i].url
<1>1. Len(q) \in Nat /\ DOMAIN q = 1..Len(q) /\ \A i \in 1..Len(q) : q[i] \in Entry
  BY LenProperties, ElementOfSeq
<1>2. UrlSeq(q) \in [1..Len(q) -> Urls]
  BY <1>1 DEF UrlSeq, Entry
<1>3. UrlSeq(q) \in Seq(Urls)
  BY <1>1, <1>2, SeqDef
<1> QED  BY <1>1, <1>2, <1>3 DEF UrlSeq

LEMMA UrlSeqAppend ==
  ASSUME NEW q \in Seq(Entry), NEW e \in Entry
  PROVE  UrlSeq(Append(q, e)) = Append(UrlSeq(q), e.url)
<1> DEFINE p == Append(q, e)
           l == UrlSeq(p)
           r == Append(UrlSeq(q), e.url)
<1>1. e.url \in Urls
  BY DEF Entry
<1>2. /\ p \in Seq(Entry) /\ Len(q) \in Nat /\ Len(p) = Len(q) + 1
      /\ p[Len(q) + 1] = e /\ \A i \in 1..Len(q) : p[i] = q[i]
  BY LenProperties, AppendProperties
<1>3. UrlSeq(q) \in Seq(Urls) /\ Len(UrlSeq(q)) = Len(q) /\ \A i \in 1..Len(q) : UrlSeq(q)[i] = q[i].url
  BY UrlSeqType
<1>4. /\ r \in Seq(Urls) /\ Len(r) = Len(q) + 1
      /\ r[Len(q) + 1] = e.url /\ \A i \in 1..Len(q) : r[i] = q[i].url
  BY <1>1, <1>3, AppendProperties
<1> HIDE DEF p
<1>5. l \in Seq(Urls) /\ Len(l) = Len(p) /\ \A i \in 1..Len(p) : l[i] = p[i].url
  BY <1>2, UrlSeqType
<1> HIDE DEF l, r
<1>6. \A i \in 1..Len(l) : l[i] = r[i]
  <2> SUFFICES ASSUME NEW i \in 1..(Len(q) + 1) PROVE l[i] = r[i]
    BY <1>2, <1>5
  <2>1. i = Len(q) + 1 \/ i \in 1..Len(q)
    BY <1>2
  <2> QED  BY <2>1, <1>2, <1>4, <1>5
<1>7. l = r
  BY <1>2, <1>4, <1>5, <1>6, SeqEqual
<1> QED  BY <1>7 DEF l, r, p

LEMMA UrlSeqTail ==
  ASSUME NEW q \in Seq(Entry), q # <<>>
  PROVE  /\ UrlSeq(Tail(q)) = Tail(UrlSeq(q))
         /\ Head(UrlSeq(q)) = Head(q).url
         /\ UrlSeq(q) # <<>>
<1> DEFINE l == UrlSeq(Tail(q))
           r == Tail(UrlSeq(q))
<1>1. Len(q) \in Nat \ {0} /\ Tail(q) \in Seq(Entry) /\ Len(Tail(q)) = Len(q) - 1
      /\ \A i \in 1..(Len(q) - 1) : Tail(q)[i] = q[i + 1]
  BY EmptySeq, LenProperties
<1>2. UrlSeq(q) \in Seq(Urls) /\ Len(UrlSeq(q)) = Len(q) /\ UrlSeq(q) # <<>>
  BY <1>1, UrlSeqType, EmptySeq
<1>3. Head(UrlSeq(q)) = UrlSeq(q)[1] /\ Head(q) = q[1]
  BY <1>2
<1>4. Head(UrlSeq(q)) = Head(q).url
  BY <1>1, <1>3, UrlSeqType
<1>5. l \in Seq(Urls) /\ Len(l) = Len(q) - 1 /\ \A i \in 1..(Len(q) - 1) : l[i] = Tail(q)[i].url
  BY <1>1, UrlSeqType
<1>6. r \in Seq(Urls) /\ Len(r) = Len(q) - 1 /\ \A i \in 1..(Len(q) - 1) : r[i] = UrlSeq(q)[i + 1]
  BY <1>1, <1>2
<1>7. \A i \in 1..(Len(q) - 1) : l[i] = r[i]
  BY <1>1, <1>5, <1>6, UrlSeqType
<1> HIDE DEF l, r
<1>8. l = r
  BY <1>5, <1>6, <1>7, SeqEqual
<1> QED  BY <1>2, <1>4, <1>8 DEF l, r

\* The refinement mapping of ImplementsAtomicFrontier.
QueueBar  == [h \in Hosts |-> UrlSeq(queue[h])]
PermitBar == [t \in Threads |-> HostsAt(t, "rpop")]
OwedBar   == [t \in Threads |-> HostsAt(t, "touch")]
HeldBar   == [t \in Threads |-> IF held[t] = NoEntry THEN {} ELSE {held[t].url}]

\* LPUSH and RPOP in the terms of AtomicFrontier.
LEMMA EnqueueBar ==
  ASSUME FrontierAssumption, TypeOK, NEW t \in Threads, pc[t] = "lpush", Enqueue(Cur(t))
  PROVE  \E u \in Urls : QueueBar' = [QueueBar EXCEPT ![HostOf[u]] = Append(@, u)]
<1> DEFINE e == Cur(t)
<1>1. e \in Entry /\ e.url \in Urls /\ HostOf[e.url] \in Hosts
  BY CurOK DEF TypeOK, AddSteps
<1> HIDE DEF e
<1>2. queue \in [Hosts -> Seq(Entry)]
  BY DEF TypeOK, RedisOK
<1>3. queue' = [queue EXCEPT ![HostOf[e.url]] = Append(@, e)]
  BY DEF Enqueue, e
<1>4. UrlSeq(Append(queue[HostOf[e.url]], e)) = Append(UrlSeq(queue[HostOf[e.url]]), e.url)
  BY <1>1, <1>2, UrlSeqAppend
<1>5. QueueBar' = [h \in Hosts |-> UrlSeq(queue'[h])]
  BY DEF QueueBar, UrlSeq
<1>6. QueueBar' = [QueueBar EXCEPT ![HostOf[e.url]] = Append(@, e.url)]
  BY <1>1, <1>2, <1>3, <1>4, <1>5 DEF QueueBar
<1> QED  BY <1>1, <1>6

LEMMA DequeueBar ==
  ASSUME TypeOK, NEW k \in Hosts, queue[k] # <<>>, Dequeue(k)
  PROVE  /\ QueueBar' = [QueueBar EXCEPT ![k] = Tail(@)]
         /\ QueueBar[k] # <<>> /\ Head(QueueBar[k]) = Head(queue[k]).url
         /\ Head(queue[k]) \in Entry
<1>1. queue \in [Hosts -> Seq(Entry)] /\ queue' = [queue EXCEPT ![k] = Tail(@)]
  BY DEF TypeOK, RedisOK, Dequeue
<1>2. /\ UrlSeq(Tail(queue[k])) = Tail(UrlSeq(queue[k]))
      /\ Head(UrlSeq(queue[k])) = Head(queue[k]).url
      /\ UrlSeq(queue[k]) # <<>>
  BY <1>1, UrlSeqTail
<1>3. Head(queue[k]) \in Entry
  BY <1>1, HeadTail
<1>4. QueueBar' = [h \in Hosts |-> UrlSeq(queue'[h])]
  BY DEF QueueBar, UrlSeq
<1>5. QueueBar' = [QueueBar EXCEPT ![k] = Tail(@)]
  BY <1>1, <1>2, <1>4 DEF QueueBar
<1> QED  BY <1>2, <1>3, <1>5 DEF QueueBar

\* What a thread may take and has to start, and how a step of it changes that.
LEMMA PermitOf ==
  ASSUME NEW t \in Threads
  PROVE  /\ PermitBar[t] = IF pc[t] = "rpop" THEN {Host(t)} ELSE {}
         /\ OwedBar[t] = IF pc[t] = "touch" THEN {Host(t)} ELSE {}
         /\ HeldBar[t] = IF held[t] = NoEntry THEN {} ELSE {held[t].url}
BY DEF PermitBar, OwedBar, HeldBar, HostsAt

LEMMA BarFrame ==
  ASSUME FrontierAssumption, TypeOK, NEW t \in Threads, Submit(t) \/ Step(t) \/ Failure(t)
  PROVE  /\ PermitBar' = [PermitBar EXCEPT ![t] = HostsAt(t, "rpop")']
         /\ OwedBar' = [OwedBar EXCEPT ![t] = HostsAt(t, "touch")']
<1>1. \A x \in Threads \ {t} :
        HostsAt(x, "rpop")' = HostsAt(x, "rpop") /\ HostsAt(x, "touch")' = HostsAt(x, "touch")
  BY OthersStay DEF HostsAt
<1> QED  BY <1>1 DEF PermitBar, OwedBar

\* What each step does to delays, permits and held URLs.
LEMMA StepEffects ==
  ASSUME FrontierAssumption, TypeOK, NEW t \in Threads, Submit(t) \/ Step(t)
  PROVE  \/ /\ UNCHANGED <<queue, cooling, held>>
            /\ {pc[t], pc'[t]} \cap {"rpop", "touch"} = {}
         \/ /\ pc[t] = "lpush" /\ pc'[t] = "zadd" /\ Enqueue(Cur(t))
            /\ UNCHANGED <<cooling, held>>
         \/ /\ pc[t] = "ready" /\ pc'[t] = "rpop" /\ Host(t) \notin cooling
            /\ UNCHANGED <<queue, cooling, held, scan>>
         \/ pc[t] = "rpop" /\ pc'[t] = "drop" /\ UNCHANGED <<queue, cooling, held>>
         \/ /\ pc[t] = "rpop" /\ pc'[t] = "touch" /\ queue[Host(t)] # <<>> /\ Dequeue(Host(t))
            /\ held' = [held EXCEPT ![t] = Head(queue[Host(t)])] /\ UNCHANGED <<cooling, scan>>
         \/ /\ pc[t] = "touch" /\ pc'[t] = "llen" /\ cooling' = cooling \cup {Host(t)}
            /\ UNCHANGED <<queue, held>>
         \/ /\ pc[t] \in {"process", "finish"} /\ pc'[t] = "idle"
            /\ held' = [held EXCEPT ![t] = NoEntry] /\ UNCHANGED <<queue, cooling>>
<1> USE DEF TypeOK, LocalsOK, Goto, redisVars
<1>1. CASE Submit(t)
  BY <1>1 DEF Submit
<1>2. CASE TestBloom(t) \/ SIsMember(t)
  BY <1>2 DEF TestBloom, SIsMember, NextUrl, AbortAdd, AfterAdd
<1>3. CASE AddBloom(t) \/ SAdd(t)
  BY <1>3 DEF AddBloom, SAdd
<1>4. CASE LPush(t)
  BY <1>4 DEF LPush
<1>5. CASE ZAdd(t)
  BY <1>5 DEF ZAdd, NextUrl, AfterAdd
<1>6. CASE ZRange(t)
  BY <1>6 DEF ZRange
<1>7. CASE IsReady(t)
  BY <1>7 DEF IsReady, NextHost
<1>8. CASE RPop(t)
  BY <1>8 DEF RPop
<1>9. CASE DropHost(t) \/ RetireHost(t)
  BY <1>9 DEF DropHost, RetireHost, NextHost, Leave
<1>10. CASE Touch(t) \/ LLen(t)
  BY <1>10 DEF Touch, LLen, Leave
<1>11. CASE Discover(t)
  BY <1>11 DEF Discover
<1>12. CASE Finish(t)
  BY <1>12 DEF Finish
<1> QED  BY <1>1, <1>2, <1>3, <1>4, <1>5, <1>6, <1>7, <1>8, <1>9, <1>10, <1>11, <1>12
         DEF Step, AddURLs, NextURL, ProcessURL

\* A thread's step maps to one regular step of AtomicFrontier, or to none.
LEMMA RegularStep ==
  ASSUME FrontierAssumption, NoEntryAssumption, TypeOK, NEW t \in Threads, Submit(t) \/ Step(t)
  PROVE  Atomic!Regular \/ UNCHANGED <<QueueBar, cooling, PermitBar, OwedBar, HeldBar>>
<1> USE DEF Atomic!Regular
<1>1. /\ PermitBar' = [PermitBar EXCEPT ![t] = HostsAt(t, "rpop")']
      /\ OwedBar' = [OwedBar EXCEPT ![t] = HostsAt(t, "touch")']
  BY BarFrame
<1>2. /\ HostsAt(t, "rpop")' = IF pc'[t] = "rpop" THEN {Host(t)'} ELSE {}
      /\ HostsAt(t, "touch")' = IF pc'[t] = "touch" THEN {Host(t)'} ELSE {}
  BY DEF HostsAt
<1>3. /\ PermitBar[t] = IF pc[t] = "rpop" THEN {Host(t)} ELSE {}
      /\ OwedBar[t] = IF pc[t] = "touch" THEN {Host(t)} ELSE {}
      /\ HeldBar[t] = IF held[t] = NoEntry THEN {} ELSE {held[t].url}
  BY PermitOf
<1>4. /\ PermitBar = [PermitBar EXCEPT ![t] = PermitBar[t]]
      /\ OwedBar = [OwedBar EXCEPT ![t] = OwedBar[t]]
  BY DEF PermitBar, OwedBar
<1>5. UNCHANGED queue => UNCHANGED QueueBar
  BY DEF QueueBar
<1>6. UNCHANGED held => UNCHANGED HeldBar
  BY DEF HeldBar
<1>7. pc[t] \in TryHost \cup TookUrl => Host(t) \in Hosts
  BY HostOK DEF TypeOK
<1>8. held \in [Threads -> Entry \cup {NoEntry}] /\ ControlOK(t)
  BY DEF TypeOK, LocalsOK
<1>9. CASE UNCHANGED <<queue, cooling, held>> /\ {pc[t], pc'[t]} \cap {"rpop", "touch"} = {}
  <2>1. PermitBar' = PermitBar /\ OwedBar' = OwedBar
    BY <1>1, <1>2, <1>3, <1>4, <1>9
  <2> QED  BY <2>1, <1>5, <1>6, <1>9
<1>10. CASE pc[t] = "lpush" /\ pc'[t] = "zadd" /\ Enqueue(Cur(t)) /\ UNCHANGED <<cooling, held>>
  <2>1. PermitBar' = PermitBar /\ OwedBar' = OwedBar
    BY <1>1, <1>2, <1>3, <1>4, <1>10
  <2>2. \E u \in Urls : Atomic!Add(u)
    BY <2>1, <1>6, <1>10, EnqueueBar
    DEF Atomic!Add, QueueBar, PermitBar, OwedBar, HeldBar, UrlSeq
  <2> QED  BY <2>2
<1>11. CASE /\ pc[t] = "ready" /\ pc'[t] = "rpop" /\ Host(t) \notin cooling
            /\ UNCHANGED <<queue, cooling, held, scan>>
  <2>1. Host(t)' = Host(t) /\ Host(t) \in Hosts /\ HeldBar[t] = {}
    BY <1>3, <1>7, <1>8, <1>11 DEF Host, ControlOK, TryHost
  <2>2. PermitBar' = [PermitBar EXCEPT ![t] = {Host(t)}] /\ OwedBar' = OwedBar
    BY <1>1, <1>2, <1>3, <1>4, <1>11, <2>1
  <2>3. Atomic!Permit(t, Host(t))
    BY <2>1, <2>2, <1>5, <1>6, <1>11
    DEF Atomic!Permit, QueueBar, PermitBar, OwedBar, HeldBar, UrlSeq
  <2> QED  BY <2>1, <2>3
<1>12. CASE pc[t] = "rpop" /\ pc'[t] = "drop" /\ UNCHANGED <<queue, cooling, held>>
  <2>1. PermitBar' = [PermitBar EXCEPT ![t] = {}] /\ OwedBar' = OwedBar
    BY <1>1, <1>2, <1>3, <1>4, <1>12
  <2>2. Atomic!Withdraw(t)
    BY <2>1, <1>5, <1>6, <1>12
    DEF Atomic!Withdraw, QueueBar, PermitBar, OwedBar, HeldBar, UrlSeq
  <2> QED  BY <2>2
<1>13. CASE /\ pc[t] = "rpop" /\ pc'[t] = "touch" /\ queue[Host(t)] # <<>> /\ Dequeue(Host(t))
            /\ held' = [held EXCEPT ![t] = Head(queue[Host(t)])] /\ UNCHANGED <<cooling, scan>>
  <2>1. PICK k \in Hosts : k = Host(t) /\ Host(t)' = k /\ held[t] = NoEntry
    BY <1>7, <1>8, <1>13 DEF Host, ControlOK, TryHost
  <2> DEFINE e == Head(queue[k])
  <2>2. /\ QueueBar' = [QueueBar EXCEPT ![k] = Tail(@)]
        /\ QueueBar[k] # <<>> /\ Head(QueueBar[k]) = e.url /\ e \in Entry
    BY <1>13, <2>1, DequeueBar
  <2>3. PermitBar' = [PermitBar EXCEPT ![t] = {}] /\ OwedBar' = [OwedBar EXCEPT ![t] = {k}]
    BY <1>1, <1>2, <1>13, <2>1
  <2>4. k \in PermitBar[t]
    BY <1>3, <1>13, <2>1
  <2>5. held' = [held EXCEPT ![t] = e]
    BY <1>13, <2>1
  <2> HIDE DEF e
  <2>6. HeldBar[t] = {} /\ HeldBar' = [HeldBar EXCEPT ![t] = {Head(QueueBar[k])}]
    BY <1>8, <2>1, <2>2, <2>5, NoEntryAssumption DEF HeldBar
  <2>7. Atomic!Take(t, k)
    BY <2>1, <2>2, <2>3, <2>4, <2>6, <1>13
    DEF Atomic!Take, QueueBar, PermitBar, OwedBar, HeldBar, UrlSeq
  <2> QED  BY <2>7
<1>14. CASE /\ pc[t] = "touch" /\ pc'[t] = "llen" /\ cooling' = cooling \cup {Host(t)}
            /\ UNCHANGED <<queue, held>>
  <2>1. PermitBar' = PermitBar /\ OwedBar' = [OwedBar EXCEPT ![t] = {}]
    BY <1>1, <1>2, <1>3, <1>4, <1>14
  <2>2. OwedBar[t] # {} /\ cooling' = cooling \cup OwedBar[t]
    BY <1>3, <1>14
  <2>3. Atomic!StartDelay(t)
    BY <2>1, <2>2, <1>5, <1>6, <1>14
    DEF Atomic!StartDelay, QueueBar, PermitBar, OwedBar, HeldBar, UrlSeq
  <2> QED  BY <2>3
<1>15. CASE /\ pc[t] \in {"process", "finish"} /\ pc'[t] = "idle"
            /\ held' = [held EXCEPT ![t] = NoEntry] /\ UNCHANGED <<queue, cooling>>
  <2>1. PermitBar' = PermitBar /\ OwedBar' = OwedBar /\ OwedBar[t] = {}
    BY <1>1, <1>2, <1>3, <1>4, <1>15
  <2>2. HeldBar[t] # {} /\ HeldBar' = [HeldBar EXCEPT ![t] = {}]
    BY <1>8, <1>15 DEF HeldBar, ControlOK
  <2>3. Atomic!Done(t)
    BY <2>1, <2>2, <1>5, <1>15
    DEF Atomic!Done, QueueBar, PermitBar, OwedBar, HeldBar, UrlSeq
  <2> QED  BY <2>3
<1> QED  BY <1>9, <1>10, <1>11, <1>12, <1>13, <1>14, <1>15, StepEffects

\* What a failure does.
LEMMA FailureEffects ==
  ASSUME FrontierAssumption, TypeOK, NEW t \in Threads, Failure(t)
  PROVE  /\ Fault /\ UNCHANGED <<cooling, held>>
         /\ \/ UNCHANGED queue /\ {pc[t], pc'[t]} \cap {"rpop", "touch"} = {}
            \/ /\ pc[t] = "lpush" /\ Enqueue(Cur(t))
               /\ {pc[t], pc'[t]} \cap {"rpop", "touch"} = {}
            \/ pc[t] = "touch" /\ pc'[t] = "llen" /\ UNCHANGED queue
            \/ pc[t] = "rpop" /\ pc'[t] = "idle" /\ UNCHANGED queue
            \/ /\ pc[t] = "rpop" /\ queue[Host(t)] # <<>> /\ Dequeue(Host(t))
               /\ pc'[t] = "idle" \/ (pc'[t] = "rpop" /\ UNCHANGED scan)
<1> USE DEF TypeOK, LocalsOK, Goto, redisVars, localVars
<1>1. CASE AddFails(t)
  <2>1. pc[t] \in AddSteps /\ pc'[t] \in {"finish", "idle"}
    BY <1>1 DEF AddFails, AbortAdd, AfterAdd, AddSteps
  <2>2. UNCHANGED queue \/ (pc[t] = "lpush" /\ Enqueue(Cur(t)))
    BY <1>1 DEF AddFails
  <2>3. Fault /\ UNCHANGED <<cooling, held>>
    BY <1>1 DEF AddFails
  <2> QED  BY <2>1, <2>2, <2>3 DEF AddSteps
<1>2. CASE ScanFails(t)
  BY <1>2 DEF ScanFails, NextHost, Leave
<1>3. CASE RPopFails(t)
  BY <1>3 DEF RPopFails, Leave
<1>4. CASE Resend(t)
  BY <1>4 DEF Resend
<1> QED  BY <1>1, <1>2, <1>3, <1>4 DEF Failure

\* A failure of a thread maps to one mishap of AtomicFrontier.
LEMMA MishapStep ==
  ASSUME FrontierAssumption, TypeOK, NEW t \in Threads, Failure(t)
  PROVE  Atomic!Mishap
<1> USE DEF Atomic!Mishap
<1>1. /\ PermitBar' = [PermitBar EXCEPT ![t] = HostsAt(t, "rpop")']
      /\ OwedBar' = [OwedBar EXCEPT ![t] = HostsAt(t, "touch")']
  BY BarFrame
<1>2. /\ HostsAt(t, "rpop")' = IF pc'[t] = "rpop" THEN {Host(t)'} ELSE {}
      /\ HostsAt(t, "touch")' = IF pc'[t] = "touch" THEN {Host(t)'} ELSE {}
  BY DEF HostsAt
<1>3. /\ PermitBar[t] = IF pc[t] = "rpop" THEN {Host(t)} ELSE {}
      /\ OwedBar[t] = IF pc[t] = "touch" THEN {Host(t)} ELSE {}
  BY PermitOf
<1>4. /\ PermitBar = [PermitBar EXCEPT ![t] = PermitBar[t]]
      /\ OwedBar = [OwedBar EXCEPT ![t] = OwedBar[t]]
  BY DEF PermitBar, OwedBar
<1>5. UNCHANGED queue => UNCHANGED QueueBar
  BY DEF QueueBar
<1>6. UNCHANGED <<cooling, held, HeldBar>>
  BY FailureEffects DEF HeldBar
<1>7. CASE UNCHANGED queue /\ {pc[t], pc'[t]} \cap {"rpop", "touch"} = {}
  <2>1. PermitBar' = PermitBar /\ OwedBar' = OwedBar
    BY <1>1, <1>2, <1>3, <1>4, <1>7
  <2> QED  BY <2>1, <1>5, <1>6, <1>7 DEF QueueBar, PermitBar, OwedBar, HeldBar, UrlSeq
<1>8. CASE /\ pc[t] = "lpush" /\ Enqueue(Cur(t))
           /\ {pc[t], pc'[t]} \cap {"rpop", "touch"} = {}
  <2>1. PermitBar' = PermitBar /\ OwedBar' = OwedBar
    BY <1>1, <1>2, <1>3, <1>4, <1>8
  <2>2. \E u \in Urls : Atomic!Add(u)
    BY <2>1, <1>6, <1>8, EnqueueBar
    DEF Atomic!Add, QueueBar, PermitBar, OwedBar, HeldBar, UrlSeq
  <2> QED  BY <2>2
<1>9. CASE pc[t] = "touch" /\ pc'[t] = "llen" /\ UNCHANGED queue
  <2>1. PermitBar' = PermitBar /\ OwedBar' = [OwedBar EXCEPT ![t] = {}]
    BY <1>1, <1>2, <1>3, <1>4, <1>9
  <2>2. Atomic!SkipDelay(t)
    BY <2>1, <1>5, <1>6, <1>9
    DEF Atomic!SkipDelay, QueueBar, PermitBar, OwedBar, HeldBar, UrlSeq
  <2> QED  BY <2>2
<1>10. CASE pc[t] = "rpop" /\ pc'[t] = "idle" /\ UNCHANGED queue
  <2>1. PermitBar' = [PermitBar EXCEPT ![t] = {}] /\ OwedBar' = OwedBar
    BY <1>1, <1>2, <1>3, <1>4, <1>10
  <2>2. Atomic!Withdraw(t)
    BY <2>1, <1>5, <1>6, <1>10
    DEF Atomic!Withdraw, QueueBar, PermitBar, OwedBar, HeldBar, UrlSeq
  <2> QED  BY <2>2
<1>11. CASE /\ pc[t] = "rpop" /\ queue[Host(t)] # <<>> /\ Dequeue(Host(t))
            /\ pc'[t] = "idle" \/ (pc'[t] = "rpop" /\ UNCHANGED scan)
  <2>1. PICK k \in Hosts : k = Host(t)
    BY <1>11, HostOK DEF TypeOK, TryHost, TookUrl
  <2>2. QueueBar' = [QueueBar EXCEPT ![k] = Tail(@)] /\ QueueBar[k] # <<>>
    BY <1>11, <2>1, DequeueBar
  <2>3. k \in PermitBar[t] /\ OwedBar' = OwedBar
    BY <1>1, <1>2, <1>3, <1>4, <1>11, <2>1
  <2>4. PermitBar' = PermitBar \/ PermitBar' = [PermitBar EXCEPT ![t] = {}]
    BY <1>1, <1>2, <1>3, <1>4, <1>11 DEF Host
  <2>5. Atomic!Lose(t, k)
    BY <2>2, <2>3, <2>4, <1>6
    DEF Atomic!Lose, QueueBar, PermitBar, OwedBar, HeldBar, UrlSeq
  <2> QED  BY <2>5
<1> QED  BY <1>7, <1>8, <1>9, <1>10, <1>11, FailureEffects

\* A crash takes permits, debts and URLs from the threads of its process.
LEMMA ForgetStep ==
  ASSUME NEW p \in Procs, Crash(p)
  PROVE  Atomic!Forget(p)
<1>1. /\ \A t \in Threads : ProcOf[t] = p => pc'[t] = "idle" /\ held'[t] = NoEntry
      /\ \A t \in Threads : ProcOf[t] # p =>
            pc'[t] = pc[t] /\ scan'[t] = scan[t] /\ held'[t] = held[t]
      /\ UNCHANGED <<queue, cooling>>
  BY DEF Crash, ThreadsOf, redisVars
<1>2. /\ PermitBar' = [t \in Threads |-> IF ProcOf[t] = p THEN {} ELSE PermitBar[t]]
      /\ OwedBar' = [t \in Threads |-> IF ProcOf[t] = p THEN {} ELSE OwedBar[t]]
  BY <1>1 DEF PermitBar, OwedBar, HostsAt, Host
<1>3. HeldBar' = [t \in Threads |-> IF ProcOf[t] = p THEN {} ELSE HeldBar[t]]
  BY <1>1 DEF HeldBar
<1> QED  BY <1>1, <1>2, <1>3 DEF Atomic!Forget, QueueBar, PermitBar, OwedBar, HeldBar, UrlSeq

\* Each step maps to one of AtomicFrontier, or to none.
LEMMA AtomicStep ==
  ASSUME FrontierAssumption, NoEntryAssumption, TypeOK, [Next]_vars
  PROVE  [Atomic!AtomicNext]_(Atomic!atomicVars)
<1> USE DEF Atomic!AtomicNext
<1>1. ASSUME NEW t \in Threads, Submit(t) \/ Step(t)
      PROVE  Atomic!AtomicNext \/ UNCHANGED Atomic!atomicVars
  <2>1. UNCHANGED faults
    BY <1>1 DEF Submit, Step, AddURLs, TestBloom, SIsMember, AddBloom, SAdd, LPush, ZAdd,
                NextURL, ZRange, IsReady, RPop, DropHost, Touch, LLen, RetireHost,
                ProcessURL, Discover, Finish
  <2> QED  BY <1>1, <2>1, RegularStep
           DEF Atomic!atomicVars, QueueBar, PermitBar, OwedBar, HeldBar, UrlSeq
<1>2. ASSUME NEW t \in Threads, Failure(t)
      PROVE  Atomic!AtomicNext
  BY <1>2, MishapStep, FailureEffects DEF Fault
<1>3. ASSUME NEW p \in Procs, Crash(p)
      PROVE  Atomic!AtomicNext
  <2>1. Fault
    BY <1>3 DEF Crash
  <2> QED  BY <1>3, <2>1, ForgetStep DEF Fault, Atomic!Mishap
<1>4. ASSUME NEW h \in Hosts, DelayElapses(h)
      PROVE  Atomic!AtomicNext
  <2>1. Atomic!DelayIsOver(h) /\ UNCHANGED faults
    BY <1>4 DEF DelayElapses, Atomic!DelayIsOver, localVars, HostsAt, Host
  <2> QED  BY <2>1 DEF Atomic!Regular
<1>5. UNCHANGED vars => UNCHANGED Atomic!atomicVars
  BY DEF vars, redisVars, localVars, HostsAt, Host, Atomic!atomicVars
<1> QED  BY <1>1, <1>2, <1>3, <1>4, <1>5 DEF Next

LEMMA AtomicStart == ASSUME Init PROVE Atomic!AtomicInit
BY DEF Init, HostsAt, Atomic!AtomicInit

\* Whatever overlaps, fails or is cut short, the callers of AddURLs and NextURL see
\* the queues of AtomicFrontier: first in, first out, each URL to one thread with a
\* permit used up by it, the delay started for each, URLs lost to faults only.
THEOREM QueuesAreAtomic == Spec => ImplementsAtomicFrontier
<1>1. Init => TypeOK /\ Atomic!AtomicInit
  BY InitType, AtomicStart, FrontierAssumption
<1>2. TypeOK /\ [Next]_vars => TypeOK'
  BY TypeStep, FrontierAssumption
<1>3. TypeOK /\ [Next]_vars => [Atomic!AtomicNext]_(Atomic!atomicVars)
  BY AtomicStep, FrontierAssumption, NoEntryAssumption
<1> QED  BY <1>1, <1>2, <1>3, PTL DEF Spec, ImplementsAtomicFrontier, Atomic!AtomicSpec
=============================================================================
