------------------------------ MODULE Frontier ------------------------------
(***************************************************************************)
(* The URL frontier: internal/frontier/frontier.go and bloom.go over one   *)
(* Redis server, used at the same time by the worker loops (cmd/worker)    *)
(* and by the request handlers that seed it (cmd/scheduler, cmd/seed-api,  *)
(* cmd/cli).  Every Redis command is one atomic step, because that is the  *)
(* only atomicity the code has: AddURLs is IsSeen, MarkSeen, LPUSH, ZADD   *)
(* per URL, and NextURL is ZRANGE and then, host by host, HGET, RPOP,      *)
(* HSET, LLEN, ZREM.  Threads of one process share its Bloom filter.       *)
(*                                                                         *)
(* A queue is the Redis list read from its RPOP end: LPUSH appends to the  *)
(* sequence and RPOP takes its head.  Time is abstracted to `cooling`, the *)
(* hosts whose last_fetch + delay is still ahead; a delay may elapse at    *)
(* any moment, which also covers a Touch with an old timestamp.            *)
(***************************************************************************)
EXTENDS Integers, Sequences, FiniteSets, Functions

CONSTANTS
    Urls,        \* normalised URLs
    Hosts,
    HostOf,      \* URL -> host
    Links,       \* URL -> the links NewURL accepts on its page, in order
    Unstable,    \* URLs whose normal form NormalizeURL rejects (an empty host)
    Seeds,       \* seed requests: the URLs, their priority and depth
    MaxDepth,    \* cfg.Crawler.MaxDepth
    ScanWindow,  \* hosts that ZRANGE 0 100 returns: 101 in the code
    Threads,     \* worker loops and request handlers
    Workers,     \* the threads that run worker.run
    Procs,
    ProcOf,      \* thread -> its process
    MaxFaults    \* bound on crashes, Redis errors and resent commands

Entry == [url : Urls, prio : Int, depth : Int]
Request == [urls : Seq(Urls), prio : Int, depth : Int]

ASSUME FrontierAssumption ==
    /\ HostOf \in [Urls -> Hosts]
    /\ Links \in [Urls -> Seq(Urls)]
    /\ Unstable \subseteq Urls
    /\ \A r \in Seeds : r \in Request /\ r.urls # <<>>
    /\ MaxDepth \in Int
    /\ ScanWindow \in Nat \ {0}
    /\ Workers \subseteq Threads
    /\ ProcOf \in [Threads -> Procs]
    /\ MaxFaults \in Nat

NoEntry == [none |-> TRUE]
ASSUME NoEntryAssumption == NoEntry \notin Entry

VARIABLES
    \* Redis
    queue,      \* frontier:host:<host>
    listed,     \* the members of frontier:priority
    score,      \* and their scores (0 for a host that is not a member)
    seen,       \* seen:urls
    cooling,    \* hosts that IsReady refuses
    \* process memory
    bloom,      \* process -> what its Bloom filter was given
    \* thread locals
    pc,
    todo,       \* AddURLs: the URLs still to add, the current one first
    scan,       \* NextURL: the hosts still to try, the current one first
    held,       \* the URL that NextURL returned and processURL works on
    \* environment and history
    faults,
    pushed,     \* URLs a thread pushed since its process started
    finished,   \* URLs that processURL returned from
    dropped,    \* URLs that were marked seen and whose push was cut short
    abandoned   \* URLs popped by a caller that never got to process them

redisVars   == <<queue, listed, score, seen, cooling>>
localVars   == <<pc, todo, scan, held>>
historyVars == <<pushed, finished, dropped, abandoned>>
vars == <<redisVars, bloom, localVars, faults, historyVars>>

AddSteps  == {"bloom", "sismember", "mark", "sadd", "lpush", "zadd"}
TryHost   == {"ready", "rpop", "drop"}
TookUrl   == {"touch", "llen", "retire"}
Labels    == {"idle", "process", "finish"} \cup AddSteps \cup TryHost \cup TookUrl

UrlsIn(s) == {s[i].url : i \in DOMAIN s}

Cur(t)  == Head(todo[t])
Host(t) == Head(scan[t])
HeldUrls == {held[t].url : t \in {x \in Threads : held[x] # NoEntry}}
ThreadsOf(p) == {t \in Threads : ProcOf[t] = p}

Goto(t, label) == pc' = [pc EXCEPT ![t] = label]

Init ==
    /\ queue = [h \in Hosts |-> <<>>]
    /\ listed = {} /\ score = [h \in Hosts |-> 0]
    /\ seen = {} /\ cooling = {}
    /\ bloom = [p \in Procs |-> {}]
    /\ pc = [t \in Threads |-> "idle"]
    /\ todo = [t \in Threads |-> <<>>]
    /\ scan = [t \in Threads |-> <<>>]
    /\ held = [t \in Threads |-> NoEntry]
    /\ faults = 0
    /\ pushed = [t \in Threads |-> {}]
    /\ finished = {} /\ dropped = {} /\ abandoned = {}

-----------------------------------------------------------------------------
(* AddURLs *)

\* Where AddURLs returns to: processURL for a worker, the response for a
\* request handler.
AfterAdd(t) == IF t \in Workers THEN "finish" ELSE "idle"

\* Mutant: the batch loop runs once too often.
NextUrlOnceMore(t) ==
    /\ todo' = [todo EXCEPT ![t] = Tail(@)]
    /\ Goto(t, IF todo[t] = <<>> THEN AfterAdd(t) ELSE "bloom")

NextUrl(t) ==
    /\ todo' = [todo EXCEPT ![t] = Tail(@)]
    /\ Goto(t, IF Len(todo[t]) = 1 THEN AfterAdd(t) ELSE "bloom")

AbortAdd(t) ==
    /\ todo' = [todo EXCEPT ![t] = <<>>]
    /\ Goto(t, AfterAdd(t))

\* A seed request reaches an idle handler (or a CLI run starts).
Submit(t) ==
    /\ t \notin Workers /\ pc[t] = "idle"
    /\ \E r \in Seeds :
         todo' = [todo EXCEPT ![t] =
           [i \in DOMAIN r.urls |->
              [url |-> r.urls[i], prio |-> r.prio, depth |-> r.depth]]]
    /\ Goto(t, "bloom")
    /\ UNCHANGED <<redisVars, bloom, scan, held, faults, historyVars>>

\* Mutant: a negative answer of the filter is always possible.
TestBloomForgetful(t) ==
    /\ pc[t] = "bloom"
    /\ \/ Cur(t).url \in Unstable /\ AbortAdd(t)
       \/ /\ Cur(t).url \notin Unstable
          /\ Goto(t, "sismember") \/ Goto(t, "mark")
          /\ UNCHANGED todo
    /\ UNCHANGED <<redisVars, bloom, scan, held, faults, historyVars>>

\* Mutant: "possibly" is taken for "seen".
TestBloomAlone(t) ==
    /\ pc[t] = "bloom"
    /\ \/ Cur(t).url \in Unstable /\ AbortAdd(t)
       \/ /\ Cur(t).url \notin Unstable
          /\ \/ NextUrl(t)
             \/ Cur(t).url \notin bloom[ProcOf[t]] /\ Goto(t, "mark") /\ UNCHANGED todo
    /\ UNCHANGED <<redisVars, bloom, scan, held, faults, historyVars>>

\* IsSeen normalises the URL once more, then asks the process-local filter,
\* which may answer "possibly" for a URL it was never given.
TestBloom(t) ==
    /\ pc[t] = "bloom"
    /\ \/ Cur(t).url \in Unstable /\ AbortAdd(t)
       \/ /\ Cur(t).url \notin Unstable
          /\ \/ Goto(t, "sismember")
             \/ Cur(t).url \notin bloom[ProcOf[t]] /\ Goto(t, "mark")
          /\ UNCHANGED todo
    /\ UNCHANGED <<redisVars, bloom, scan, held, faults, historyVars>>

SIsMember(t) ==
    /\ pc[t] = "sismember"
    /\ \/ Cur(t).url \in seen /\ NextUrl(t)
       \/ Cur(t).url \notin seen /\ Goto(t, "mark") /\ UNCHANGED todo
    /\ UNCHANGED <<redisVars, bloom, scan, held, faults, historyVars>>

\* Mutants: MarkSeen without SADD, and without the filter.
AddBloomOnly(t) ==
    /\ pc[t] = "mark"
    /\ bloom' = [bloom EXCEPT ![ProcOf[t]] = @ \cup {Cur(t).url}]
    /\ Goto(t, "lpush")
    /\ UNCHANGED <<redisVars, todo, scan, held, faults, historyVars>>

AddBloomNot(t) ==
    /\ pc[t] = "mark"
    /\ Goto(t, "sadd")
    /\ UNCHANGED <<redisVars, bloom, todo, scan, held, faults, historyVars>>

\* MarkSeen: the filter first, then the Redis set.
AddBloom(t) ==
    /\ pc[t] = "mark"
    /\ bloom' = [bloom EXCEPT ![ProcOf[t]] = @ \cup {Cur(t).url}]
    /\ Goto(t, "sadd")
    /\ UNCHANGED <<redisVars, todo, scan, held, faults, historyVars>>

SAdd(t) ==
    /\ pc[t] = "sadd"
    /\ seen' = seen \cup {Cur(t).url}
    /\ Goto(t, "lpush")
    /\ UNCHANGED <<queue, listed, score, cooling, bloom, todo, scan, held,
                   faults, historyVars>>

Enqueue(e) == queue' = [queue EXCEPT ![HostOf[e.url]] = Append(@, e)]

LPush(t) ==
    /\ pc[t] = "lpush"
    /\ Enqueue(Cur(t))
    /\ pushed' = [pushed EXCEPT ![t] = @ \cup {Cur(t).url}]
    /\ Goto(t, "zadd")
    /\ UNCHANGED <<listed, score, seen, cooling, bloom, todo, scan, held,
                   faults, finished, dropped, abandoned>>

\* Mutant: ZADD XX, which lists no new host.
ListKnown(e) ==
    /\ listed' = listed
    /\ score' = [score EXCEPT ![HostOf[e.url]] =
                   IF HostOf[e.url] \in listed THEN e.prio ELSE @]

\* The host takes the priority of the URL added last.
List(e) ==
    /\ listed' = listed \cup {HostOf[e.url]}
    /\ score' = [score EXCEPT ![HostOf[e.url]] = e.prio]

ZAdd(t) ==
    /\ pc[t] = "zadd"
    /\ List(Cur(t))
    /\ NextUrl(t)
    /\ UNCHANGED <<queue, seen, cooling, bloom, scan, held, faults, historyVars>>

-----------------------------------------------------------------------------
(* NextURL *)

\* What ZRANGE 0 100 may return: the lowest scores first, cut at the window.
\* Redis orders equal scores by name; here their order is open.
Snapshots ==
    LET size == IF Cardinality(listed) < ScanWindow
                THEN Cardinality(listed) ELSE ScanWindow
    IN  {s \in [1..size -> listed] :
           /\ \A i, j \in 1..size :
                i < j => s[i] # s[j] /\ score[s[i]] <= score[s[j]]
           /\ \A h \in listed \ Range(s) : \A i \in 1..size : score[s[i]] <= score[h]}

ZRange(t) ==
    /\ t \in Workers /\ pc[t] = "idle"
    /\ listed # {}
    /\ \E s \in Snapshots : scan' = [scan EXCEPT ![t] = s]
    /\ Goto(t, "ready")
    /\ UNCHANGED <<redisVars, bloom, todo, held, faults, historyVars>>

\* `continue`: the next host of the snapshot, or ErrNoURLs after the last.
NextHost(t) ==
    /\ scan' = [scan EXCEPT ![t] = Tail(@)]
    /\ Goto(t, IF Len(scan[t]) = 1 THEN "idle" ELSE "ready")

\* NextURL returns to the worker loop.
Leave(t, label) ==
    /\ scan' = [scan EXCEPT ![t] = <<>>]
    /\ Goto(t, label)

\* Mutant: politeness is not checked.
IsReadyAlways(t) ==
    /\ pc[t] = "ready"
    /\ Goto(t, "rpop")
    /\ UNCHANGED <<redisVars, bloom, todo, scan, held, faults, historyVars>>

IsReady(t) ==
    /\ pc[t] = "ready"
    /\ \/ Host(t) \in cooling /\ NextHost(t)
       \/ Host(t) \notin cooling /\ Goto(t, "rpop") /\ UNCHANGED scan
    /\ UNCHANGED <<redisVars, bloom, todo, held, faults, historyVars>>

Dequeue(h) == queue' = [queue EXCEPT ![h] = Tail(@)]

RPop(t) ==
    /\ pc[t] = "rpop"
    /\ \/ /\ queue[Host(t)] = <<>>
          /\ Goto(t, "drop")
          /\ UNCHANGED <<queue, held>>
       \/ /\ queue[Host(t)] # <<>>
          /\ held' = [held EXCEPT ![t] = Head(queue[Host(t)])]
          /\ Dequeue(Host(t))
          /\ Goto(t, "touch")
    /\ UNCHANGED <<listed, score, seen, cooling, bloom, todo, scan, faults,
                   historyVars>>

Unlist(h) ==
    /\ listed' = listed \ {h}
    /\ score' = [score EXCEPT ![h] = 0]

\* Mutant: an empty host stays in the priority set.
DropHostNot(t) ==
    /\ pc[t] = "drop"
    /\ NextHost(t)
    /\ UNCHANGED <<redisVars, bloom, todo, held, faults, historyVars>>

\* ZREM after RPOP found no URL.
DropHost(t) ==
    /\ pc[t] = "drop"
    /\ Unlist(Host(t))
    /\ NextHost(t)
    /\ UNCHANGED <<queue, seen, cooling, bloom, todo, held, faults, historyVars>>

Touch(t) ==
    /\ pc[t] = "touch"
    /\ cooling' = cooling \cup {Host(t)}
    /\ Goto(t, "llen")
    /\ UNCHANGED <<queue, listed, score, seen, bloom, todo, scan, held, faults,
                   historyVars>>

\* Mutant: off by one, a queue of one counts as empty.
LLenOffByOne(t) ==
    /\ pc[t] = "llen"
    /\ \/ Len(queue[Host(t)]) <= 1 /\ Goto(t, "retire") /\ UNCHANGED scan
       \/ Len(queue[Host(t)]) > 1 /\ Leave(t, "process")
    /\ UNCHANGED <<redisVars, bloom, todo, held, faults, historyVars>>

LLen(t) ==
    /\ pc[t] = "llen"
    /\ \/ queue[Host(t)] = <<>> /\ Goto(t, "retire") /\ UNCHANGED scan
       \/ queue[Host(t)] # <<>> /\ Leave(t, "process")
    /\ UNCHANGED <<redisVars, bloom, todo, held, faults, historyVars>>

\* ZREM after LLEN said 0.
RetireHost(t) ==
    /\ pc[t] = "retire"
    /\ Unlist(Host(t))
    /\ Leave(t, "process")
    /\ UNCHANGED <<queue, seen, cooling, bloom, todo, held, faults, historyVars>>

-----------------------------------------------------------------------------
(* processURL, as far as the frontier sees it *)

\* Mutant: off by one at the depth limit.
DiscoverTooDeep(t) ==
    /\ pc[t] = "process"
    /\ held[t].depth <= MaxDepth
    /\ Links[held[t].url] # <<>>
    /\ todo' = [todo EXCEPT ![t] =
         [i \in DOMAIN Links[held[t].url] |->
            [url |-> Links[held[t].url][i], prio |-> held[t].prio,
             depth |-> held[t].depth + 1]]]
    /\ Goto(t, "bloom")
    /\ UNCHANGED <<redisVars, bloom, scan, held, faults, historyVars>>

\* A page that was fetched and is no duplicate: its links go to AddURLs.
Discover(t) ==
    /\ pc[t] = "process"
    /\ held[t].depth < MaxDepth
    /\ Links[held[t].url] # <<>>
    /\ todo' = [todo EXCEPT ![t] =
         [i \in DOMAIN Links[held[t].url] |->
            [url |-> Links[held[t].url][i], prio |-> held[t].prio,
             depth |-> held[t].depth + 1]]]
    /\ Goto(t, "bloom")
    /\ UNCHANGED <<redisVars, bloom, scan, held, faults, historyVars>>

\* Every return of processURL: blocked by robots.txt, Fail, a duplicate,
\* no links to add, or Complete after AddURLs (an error of it is only logged).
Finish(t) ==
    /\ pc[t] \in {"process", "finish"}
    /\ finished' = finished \cup {held[t].url}
    /\ held' = [held EXCEPT ![t] = NoEntry]
    /\ Goto(t, "idle")
    /\ UNCHANGED <<redisVars, bloom, todo, scan, faults, pushed, dropped, abandoned>>

-----------------------------------------------------------------------------
(* Failures.  A Redis command that returns an error may have taken effect. *)

Fault == faults < MaxFaults /\ faults' = faults + 1

AddFails(t) ==
    /\ Fault /\ AbortAdd(t)
    /\ \/ pc[t] = "sismember"
          /\ UNCHANGED <<queue, listed, score, seen, dropped>>
       \/ /\ pc[t] = "sadd"
          /\ \/ UNCHANGED <<seen, dropped>>
             \/ /\ seen' = seen \cup {Cur(t).url}
                /\ dropped' = dropped \cup {Cur(t).url}
          /\ UNCHANGED <<queue, listed, score>>
       \/ /\ pc[t] = "lpush"
          /\ \/ Enqueue(Cur(t)) /\ UNCHANGED dropped
             \/ dropped' = dropped \cup {Cur(t).url} /\ UNCHANGED queue
          /\ UNCHANGED <<listed, score, seen>>
       \/ /\ pc[t] = "zadd"
          /\ \/ UNCHANGED <<listed, score>>
             \/ List(Cur(t))
          /\ UNCHANGED <<queue, seen, dropped>>
    /\ UNCHANGED <<cooling, bloom, scan, held, pushed, finished, abandoned>>

\* Mutant: NextURL returns the error of Touch instead of ignoring it.
ScanFailsAtTouch(t) ==
    /\ Fault
    /\ pc[t] = "touch" /\ Leave(t, "idle")
    /\ held' = [held EXCEPT ![t] = NoEntry]
    /\ UNCHANGED <<redisVars, bloom, todo, historyVars>>

\* Errors of IsReady, HSET, LLEN and ZREM are ignored; LLEN then yields 0.
ScanFails(t) ==
    /\ Fault
    /\ \/ pc[t] \in {"ready", "drop"} /\ NextHost(t)
       \/ pc[t] = "touch" /\ Goto(t, "llen") /\ UNCHANGED scan
       \/ pc[t] = "llen" /\ Goto(t, "retire") /\ UNCHANGED scan
       \/ pc[t] = "retire" /\ Leave(t, "process")
    /\ UNCHANGED <<redisVars, bloom, todo, held, historyVars>>

\* RPOP fails, with the URL gone or not.
RPopFails(t) ==
    /\ Fault
    /\ pc[t] = "rpop"
    /\ Leave(t, "idle")
    /\ \/ UNCHANGED <<queue, abandoned>>
       \/ /\ queue[Host(t)] # <<>>
          /\ abandoned' = abandoned \cup {Head(queue[Host(t)]).url}
          /\ Dequeue(Host(t))
    /\ UNCHANGED <<listed, score, seen, cooling, bloom, todo, held, pushed,
                   finished, dropped>>

\* The client library resends a command whose reply was lost; of the commands
\* used here, LPUSH and RPOP are not idempotent.
Resend(t) ==
    /\ Fault
    /\ \/ pc[t] = "lpush" /\ Enqueue(Cur(t)) /\ UNCHANGED abandoned
       \/ /\ pc[t] = "rpop"
          /\ queue[Host(t)] # <<>>
          /\ abandoned' = abandoned \cup {Head(queue[Host(t)]).url}
          /\ Dequeue(Host(t))
    /\ UNCHANGED <<listed, score, seen, cooling, bloom, localVars, pushed,
                   finished, dropped>>

\* A process dies and starts again (a CLI run: exits, and the next one starts).
\* What Redis holds stays; the filter and every local are gone.
Crash(p) ==
    /\ Fault
    /\ LET mine == ThreadsOf(p)
       IN  /\ dropped' = dropped \cup
                {Cur(t).url : t \in {x \in mine : pc[x] = "lpush"}}
           /\ abandoned' = abandoned \cup
                {held[t].url : t \in {x \in mine : held[x] # NoEntry}}
           /\ pc'   = [t \in Threads |-> IF t \in mine THEN "idle" ELSE pc[t]]
           /\ todo' = [t \in Threads |-> IF t \in mine THEN <<>> ELSE todo[t]]
           /\ scan' = [t \in Threads |-> IF t \in mine THEN <<>> ELSE scan[t]]
           /\ held' = [t \in Threads |-> IF t \in mine THEN NoEntry ELSE held[t]]
           /\ pushed' = [t \in Threads |-> IF t \in mine THEN {} ELSE pushed[t]]
    /\ bloom' = [bloom EXCEPT ![p] = {}]
    /\ UNCHANGED <<redisVars, finished>>

\* The politeness delay of a host is over.
DelayElapses(h) ==
    /\ h \in cooling
    /\ cooling' = cooling \ {h}
    /\ UNCHANGED <<queue, listed, score, seen, bloom, localVars, faults, historyVars>>

-----------------------------------------------------------------------------
AddURLs(t) == TestBloom(t) \/ SIsMember(t) \/ AddBloom(t) \/ SAdd(t) \/ LPush(t) \/ ZAdd(t)
NextURL(t) == ZRange(t) \/ IsReady(t) \/ RPop(t) \/ DropHost(t) \/ Touch(t)
                \/ LLen(t) \/ RetireHost(t)
ProcessURL(t) == Discover(t) \/ Finish(t)

Step(t) == AddURLs(t) \/ NextURL(t) \/ ProcessURL(t)
Failure(t) == AddFails(t) \/ ScanFails(t) \/ RPopFails(t) \/ Resend(t)

Next == \/ \E t \in Threads : Submit(t) \/ Step(t) \/ Failure(t)
        \/ \E p \in Procs : Crash(p)
        \/ \E h \in Hosts : DelayElapses(h)

Spec == Init /\ [][Next]_vars

\* Every thread is a goroutine the Go scheduler keeps running, Redis answers,
\* and time passes.  Nobody is obliged to submit seeds, and nothing must fail.
Fairness == /\ \A t \in Threads : WF_vars(Step(t))
            /\ \A h \in Hosts : WF_vars(DelayElapses(h))
FairSpec == Spec /\ Fairness

-----------------------------------------------------------------------------
(* Properties *)

\* Where each local is in use: AddURLs has a URL to add exactly between its
\* first and last step, NextURL a host to try exactly while it scans, a worker
\* holds a URL from RPOP until processURL returns, and a handler only adds.
ControlOK(t) ==
    /\ pc[t] \in AddSteps <=> todo[t] # <<>>
    /\ pc[t] \in TryHost \cup TookUrl <=> scan[t] # <<>>
    /\ pc[t] \in TookUrl \cup {"process", "finish"} => held[t] # NoEntry
    /\ pc[t] \in {"idle"} \cup TryHost => held[t] = NoEntry
    /\ pc[t] \in AddSteps => (held[t] # NoEntry <=> t \in Workers)
    /\ t \notin Workers => pc[t] \in {"idle"} \cup AddSteps

LocalsOK ==
    /\ pc \in [Threads -> Labels]
    /\ todo \in [Threads -> Seq(Entry)]
    /\ scan \in [Threads -> Seq(Hosts)]
    /\ held \in [Threads -> Entry \cup {NoEntry}]
    /\ \A t \in Threads : ControlOK(t)

\* A queue holds URLs of its own host only.
RedisOK ==
    /\ queue \in [Hosts -> Seq(Entry)]
    /\ \A h \in Hosts : \A i \in DOMAIN queue[h] : HostOf[queue[h][i].url] = h
    /\ listed \subseteq Hosts /\ IsFiniteSet(listed)
    /\ cooling \subseteq Hosts
    /\ score \in [Hosts -> Int]
    /\ seen \subseteq Urls

HistoryOK ==
    /\ bloom \in [Procs -> SUBSET Urls]
    /\ faults \in 0..MaxFaults
    /\ pushed \in [Threads -> SUBSET Urls]
    /\ finished \subseteq Urls /\ dropped \subseteq Urls /\ abandoned \subseteq Urls

\* Types of the variables, and where each thread is.
TypeOK == RedisOK /\ LocalsOK /\ HistoryOK

\* A URL is somewhere on its way.
InFlight(u) ==
    \/ \E h \in Hosts : u \in UrlsIn(queue[h])
    \/ \E t \in Threads : pc[t] = "lpush" /\ Cur(t).url = u
    \/ u \in HeldUrls

Accounted(u) == InFlight(u) \/ u \in finished \cup dropped \cup abandoned

\* No URL vanishes silently: a URL in seen:urls, which every later AddURLs will
\* skip and every caller is told "already exists" about, is queued, about to be
\* pushed, held by a worker or done, unless a failure cut its push short or
\* took it from a worker.  (AddURLs, NextURL and processURL against each other.)
SeenUrlIsAccountedFor == \A u \in seen : Accounted(u)

\* The converse: whatever is queued or being crawled is in seen:urls, so that
\* the SIsMember check can refuse it (MarkSeen comes before addToHostQueue).
QueuedUrlIsSeen ==
    /\ \A h \in Hosts : UrlsIn(queue[h]) \subseteq seen
    /\ HeldUrls \subseteq seen

\* How far de-duplication goes in spite of its check-then-act steps and its
\* process-local filter: one thread never pushes a URL twice in the life of its
\* process, whatever the others do.  A URL is thus queued at most once per
\* thread and process start (the client library's resends apart).
PushOncePerThread ==
    \A t \in Threads : pc[t] = "lpush" => Cur(t).url \notin pushed[t]

\* What that comes to for a URL: as many copies of it are queued or being crawled
\* at once as threads have pushed it, and a fault (a process that forgets, a command
\* that is sent twice) adds at most one for each thread.
CopiesOf(u) == {i \in DOMAIN queue[HostOf[u]] : queue[HostOf[u]][i].url = u}
HoldersOf(u) == {t \in Threads : held[t] # NoEntry /\ held[t].url = u}
PushersOf(u) == {t \in Threads : u \in pushed[t]}
CopiesAreFew ==
    \A u \in Urls :
        Cardinality(CopiesOf(u)) + Cardinality(HoldersOf(u))
            <= Cardinality(PushersOf(u)) + Cardinality(Threads) * faults

\* The depth limit: no queued URL and no URL being crawled is deeper than
\* MaxDepth, unless a seed request asked for that depth.
DepthLimit(d) == d <= MaxDepth \/ \E r \in Seeds : d = r.depth
DepthIsBounded ==
    /\ \A h \in Hosts : \A i \in DOMAIN queue[h] : DepthLimit(queue[h][i].depth)
    /\ \A t \in Threads : held[t] # NoEntry => DepthLimit(held[t].depth)

\* The worker loops serve every host that is listed: time and again its queue is
\* empty or it is off the priority set, however narrow the window of the scan
\* and whatever the priorities (NextURL, with politeness delays in between).
ListedHostIsServed == \A h \in Hosts : []<>(queue[h] = <<>> \/ h \notin listed)

\* What the callers see of it all is AtomicFrontier: calls of any threads overlap,
\* fail and are cut short, and still the queues are first in, first out, each URL
\* goes to one thread, with a permit of IsReady that is used up by it, and a delay
\* is started for it before the thread is done.  (A permit is out between IsReady
\* and RPOP; a delay is owed between RPOP and Touch.)
HostsAt(t, label) == IF pc[t] = label THEN {Host(t)} ELSE {}
Atomic == INSTANCE AtomicFrontier WITH
    queue  <- [h \in Hosts |-> [i \in DOMAIN queue[h] |-> queue[h][i].url]],
    permit <- [t \in Threads |-> HostsAt(t, "rpop")],
    owed   <- [t \in Threads |-> HostsAt(t, "touch")],
    held   <- [t \in Threads |-> IF held[t] = NoEntry THEN {} ELSE {held[t].url}]
ImplementsAtomicFrontier == Atomic!AtomicSpec

-----------------------------------------------------------------------------
(* What comments and documents say *)

\* frontier.go:138 and 150: a host leaves the priority set when its queue is
\* empty (or when an AddURLs that has pushed a URL is about to put it back).
OnlyEmptyHostsAreUnlisted ==
    [][\A h \in listed \ listed' :
         queue[h] = <<>> \/ \E t \in Threads : pc[t] = "zadd" /\ HostOf[Cur(t).url] = h]_vars

\* DESIGN.md:70: the duplicate check prevents redundant crawling: at most one
\* copy of a URL is queued, held or done.
CrawledAtMostOnce ==
    /\ \A h \in Hosts : \A i \in DOMAIN queue[h] :
         /\ \A j \in DOMAIN queue[h] : queue[h][i].url = queue[h][j].url => i = j
         /\ queue[h][i].url \notin finished \cup HeldUrls
    /\ \A t \in Threads : held[t] # NoEntry =>
         /\ held[t].url \notin finished
         /\ \A s \in Threads \ {t} : held[s] # NoEntry => held[s].url # held[t].url

\* ARCHITECTURE.md:485-491: the URL of a crashed worker returns to its queue.
AbandonedUrlReturns ==
    \A u \in Urls : u \in abandoned ~> u \in UrlsIn(queue[HostOf[u]])
=============================================================================
