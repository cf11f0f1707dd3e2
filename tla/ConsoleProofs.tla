--------------------------- MODULE ConsoleProofs ---------------------------
(* Theorems about Console: a clear and the answers to seed requests, beside *)
(* any fleet of workers and handlers.                                       *)
EXTENDS Console, FrontierProofs

-----------------------------------------------------------------------------
(* What the steps of the threads, of a clear and of a report leave alone *)

Threaded ==
    \/ Disturbance
    \/ \E t \in Threads : Ask(t) \/ Seed(t) \/ Work(t) \/ Count(t)

LEMMA ThreadedStep ==
  ASSUME Threaded
  PROVE  Next /\ UNCHANGED clearVars /\ UNCHANGED readVars
<1>1. CASE Disturbance
  BY <1>1 DEF Disturbance, Next
<1>2. CASE \E t \in Threads : Ask(t) \/ Seed(t) \/ Work(t) \/ Count(t)
  BY <1>2 DEF Ask, Seed, Work, Count, Next, Step, ProcessURL
<1> QED  BY <1>1, <1>2 DEF Threaded

\* Deleting keys leaves what the threads rely on in order.
LEMMA DeleteType ==
  ASSUME TypeOK, DeleteListed, UNCHANGED <<bloom, localVars, historyVars>>, faults' \in 0..MaxFaults
  PROVE  TypeOK'
<1>1. RedisOK'
  <2>1. queue' \in [Hosts -> Seq(Entry)]
    BY DEF DeleteListed, TypeOK, RedisOK
  <2>2. \A h \in Hosts : \A i \in DOMAIN queue'[h] : HostOf[queue'[h][i].url] = h
    <3>1. DOMAIN <<>> = {}
      BY LenProperties, EmptySeq
    <3> QED  BY <3>1 DEF DeleteListed, TypeOK, RedisOK
  <2>3. listed' \subseteq Hosts /\ IsFiniteSet(listed') /\ score' \in [Hosts -> Int]
    BY FS_EmptySet DEF DeleteListed, TypeOK, RedisOK
  <2> QED  BY <2>1, <2>2, <2>3 DEF DeleteListed, TypeOK, RedisOK
<1>2. LocalsOK' /\ HistoryOK'
  BY DEF TypeOK, LocalsOK, ControlOK, HistoryOK, localVars, historyVars
<1> QED  BY <1>1, <1>2 DEF TypeOK

\* A failure of the console is one more failure.
LEMMA FaultType ==
  ASSUME FrontierAssumption, TypeOK, Fault
  PROVE  faults' \in 0..MaxFaults
BY DEF Fault, TypeOK, HistoryOK, FrontierAssumption

\* Where nothing but the count of failures changes, the types stay.
LEMMA SameType ==
  ASSUME TypeOK, UNCHANGED <<redisVars, bloom, localVars, historyVars>>, faults' \in 0..MaxFaults
  PROVE  TypeOK'
BY DEF TypeOK, RedisOK, LocalsOK, ControlOK, HistoryOK, redisVars, localVars, historyVars

-----------------------------------------------------------------------------
(* Types *)

\* The variables of Frontier keep their types beside the console's commands.
LEMMA FrontierTypeStep ==
  ASSUME FrontierAssumption, TypeOK, [ConsoleNext]_allVars
  PROVE  TypeOK'
<1>1. CASE Threaded
  BY <1>1, ThreadedStep, TypeStep
<1>2. CASE ListKeys \/ ListSeen \/ Stats \/ UNCHANGED allVars
  BY <1>2, TypeStep DEF ListKeys, ListSeen, Stats, allVars
<1>3. CASE DelKeys
  <2>1. faults' \in 0..MaxFaults
    BY <1>3 DEF DelKeys, TypeOK, HistoryOK
  <2> QED  BY <1>3, <2>1, DeleteType DEF DelKeys
<1>4. CASE DelSeen
  BY <1>4 DEF DelSeen, TypeOK, RedisOK, LocalsOK, ControlOK, HistoryOK, localVars
<1>5. CASE ClearFails
  <2>1. faults' \in 0..MaxFaults
    BY <1>5, FaultType DEF ClearFails
  <2> QED  BY <1>5, <2>1, DeleteType, SameType DEF ClearFails
<1>6. ASSUME NEW t \in Threads, CountAgain(t) PROVE TypeOK'
  BY <1>6, FaultType, SameType DEF CountAgain
<1> QED  BY <1>1, <1>2, <1>3, <1>4, <1>5, <1>6 DEF ConsoleNext, Clear, Threaded

ClearTypeOK ==
    /\ cmd \in {"idle", "del", "seenkeys", "delseen"}
    /\ keys \subseteq Hosts /\ ranked \subseteq Hosts
    /\ cmd # "del" => keys = {} /\ ranked = {}
    /\ removed \subseteq Urls /\ cut \in {"whole", "cut"}

LEMMA ClearTypeStep ==
  ASSUME FrontierAssumption, TypeOK, ClearTypeOK, [ConsoleNext]_allVars
  PROVE  ClearTypeOK'
<1> USE DEF ClearTypeOK
<1>1. CASE Threaded
  BY <1>1, ThreadedStep DEF clearVars
<1>2. \A h \in Hosts : UrlsIn(queue[h]) \subseteq Urls
  <2>1. ASSUME NEW h \in Hosts, NEW i \in DOMAIN queue[h] PROVE queue[h][i].url \in Urls
    <3>1. queue[h] \in Seq(Entry) /\ queue[h][i] \in Entry
      BY <2>1 DEF TypeOK, RedisOK
    <3> QED  BY <3>1 DEF Entry
  <2> QED  BY <2>1 DEF UrlsIn
<1>3. ASSUME DeleteListed PROVE removed' \subseteq Urls
  BY <1>2, <1>3 DEF DeleteListed
<1>4. CASE ListKeys
  BY <1>4 DEF ListKeys, ClearOrder, TypeOK, RedisOK
<1>5. CASE DelKeys
  BY <1>3, <1>5 DEF DelKeys, ClearOrder
<1>6. CASE ListSeen
  BY <1>6 DEF ListSeen, ClearOrder
<1>7. CASE DelSeen
  BY <1>7 DEF DelSeen, ClearOrder
<1>8. CASE ClearFails
  BY <1>3, <1>8 DEF ClearFails
<1>9. CASE Stats \/ UNCHANGED allVars \/ \E t \in Threads : CountAgain(t)
  BY <1>9 DEF Stats, CountAgain, allVars, clearVars
<1> QED  BY <1>1, <1>4, <1>5, <1>6, <1>7, <1>8, <1>9 DEF ConsoleNext, Clear, Threaded

-----------------------------------------------------------------------------
(* A clear takes nothing away for good *)

\* What a deletion leaves seen without a place is recorded as removed.
LEMMA DeleteKeeps ==
  ASSUME TypeOK, DeleteListed, UNCHANGED <<localVars, historyVars>>,
         NEW u, Accounted(u)
  PROVE  Accounted(u)' \/ u \in removed'
<1>1. CASE \E h \in Hosts : u \in UrlsIn(queue[h])
  <2>1. PICK h \in Hosts : u \in UrlsIn(queue[h])
    BY <1>1
  <2>2. CASE h \in keys
    BY <2>1, <2>2 DEF DeleteListed
  <2>3. CASE h \notin keys
    BY <2>1, <2>3 DEF DeleteListed, Accounted, InFlight
  <2> QED  BY <2>2, <2>3
<1>2. CASE ~\E h \in Hosts : u \in UrlsIn(queue[h])
  BY <1>2 DEF Accounted, InFlight, HeldUrls, Cur, localVars, historyVars
<1> QED  BY <1>1, <1>2

\* SeenSurvivesClear is inductive.
LEMMA SurvivesStep ==
  ASSUME FrontierAssumption, TypeOK, ClearTypeOK, SeenSurvivesClear, [ConsoleNext]_allVars
  PROVE  SeenSurvivesClear'
<1> USE DEF ClearTypeOK
<1>1. TypeOK'
  BY FrontierTypeStep
<1>2. CASE Threaded
  <2>1. Next /\ UNCHANGED clearVars
    BY <1>2, ThreadedStep
  <2> SUFFICES ASSUME NEW u \in seen', ~Accounted(u)'
               PROVE  u \in removed' /\ (cmd' \in {"seenkeys", "delseen"} \/ cut' = "cut")
    BY DEF SeenSurvivesClear
  <2>2. u \in seen
    BY <2>1, NewlySeen
  <2>3. ~Accounted(u)
    BY <1>1, <2>1, AccountedStays
  <2> QED  BY <2>1, <2>2, <2>3 DEF SeenSurvivesClear, clearVars
<1>3. ASSUME DeleteListed, UNCHANGED <<localVars, historyVars>>,
             cmd' \in {"seenkeys", "delseen"} \/ cut' = "cut"
      PROVE  SeenSurvivesClear'
  <2>1. seen' = seen /\ removed \subseteq removed'
    BY <1>3 DEF DeleteListed
  <2> QED  BY <1>3, <2>1, DeleteKeeps DEF SeenSurvivesClear
<1>4. ASSUME UNCHANGED <<redisVars, localVars, historyVars, removed>>,
             cmd' \in {"seenkeys", "delseen"} \/ cut' = "cut" \/
               (cmd \notin {"seenkeys", "delseen"} /\ cut' = cut)
      PROVE  SeenSurvivesClear'
  BY <1>4 DEF SeenSurvivesClear, Accounted, InFlight, HeldUrls, Cur, UrlsIn,
              redisVars, localVars, historyVars
<1>5. CASE ListKeys
  BY <1>4, <1>5 DEF ListKeys, vars
<1>6. CASE DelKeys
  BY <1>3, <1>6 DEF DelKeys, ClearOrder
<1>7. CASE ListSeen
  <2>1. CASE seen = {}
    BY <1>7, <2>1 DEF ListSeen, SeenSurvivesClear, vars, redisVars
  <2>2. CASE seen # {}
    BY <1>4, <1>7, <2>2 DEF ListSeen, ClearOrder, vars
  <2> QED  BY <2>1, <2>2
<1>8. CASE DelSeen
  BY <1>8 DEF DelSeen, SeenSurvivesClear
<1>9. CASE ClearFails
  <2>1. CASE DeleteListed /\ cut' = "cut"
    BY <1>3, <1>9, <2>1 DEF ClearFails
  <2>2. CASE ~(DeleteListed /\ cut' = "cut")
    BY <1>4, <1>9, <2>2 DEF ClearFails
  <2> QED  BY <2>1, <2>2
<1>10. CASE Stats \/ UNCHANGED allVars \/ \E t \in Threads : CountAgain(t)
  <2>1. UNCHANGED <<redisVars, localVars, historyVars, removed, cmd, cut>>
    BY <1>10 DEF Stats, CountAgain, allVars, vars, clearVars
  <2> QED  BY <1>4, <2>1
<1> QED  BY <1>2, <1>5, <1>6, <1>7, <1>8, <1>9, <1>10 DEF ConsoleNext, Clear, Threaded

\* SeenSurvivesClear holds of every fleet, whatever the workers and handlers do
\* between the commands of a clear: only one that stopped half-way leaves URLs
\* that are refused as known and queued nowhere.
THEOREM ClearKeepsPromises == ConsoleSpec => []SeenSurvivesClear
<1>1. ConsoleInit => TypeOK /\ ClearTypeOK /\ SeenSurvivesClear
  <2>1. ASSUME ConsoleInit PROVE seen = {} /\ Init
    BY <2>1 DEF ConsoleInit, Init
  <2> QED  BY <2>1, InitType, FrontierAssumption
           DEF ConsoleInit, ClearTypeOK, SeenSurvivesClear
<1>2. /\ TypeOK /\ ClearTypeOK /\ SeenSurvivesClear /\ [ConsoleNext]_allVars
      => TypeOK' /\ ClearTypeOK' /\ SeenSurvivesClear'
  BY FrontierTypeStep, ClearTypeStep, SurvivesStep, FrontierAssumption
<1> QED  BY <1>1, <1>2, PTL DEF ConsoleSpec

-----------------------------------------------------------------------------
(* Answers *)

\* The strengthening: those that a request is past are seen, or a clear came later.
RequestOK(t) ==
    pc[t] \in AddSteps => request[t] \ wiped[t] \subseteq seen \cup Ahead(t)
AnswerInv ==
    /\ request \in [Threads -> SUBSET Urls] /\ wiped \in [Threads -> SUBSET Urls]
    /\ AnsweredIsSeen
    /\ \A t \in Threads \ Workers : RequestOK(t)

\* A batch is its first URL and the rest.
LEMMA BatchUrls ==
  ASSUME NEW s \in Seq(Entry), s # <<>>
  PROVE  /\ UrlsIn(s) \subseteq UrlsIn(Tail(s)) \cup {Head(s).url}
         /\ Len(s) = 1 => UrlsIn(Tail(s)) = {}
         /\ UrlsIn(s) \subseteq Urls
<1>1. /\ Len(s) \in Nat \ {0} /\ DOMAIN s = 1..Len(s) /\ Head(s) = s[1]
      /\ DOMAIN Tail(s) = 1..(Len(s) - 1)
      /\ \A i \in DOMAIN Tail(s) : Tail(s)[i] = s[i + 1]
      /\ \A i \in DOMAIN s : s[i] \in Entry
  BY EmptySeq, HeadTailProperties, LenProperties
<1>2. ASSUME NEW i \in DOMAIN s, i # 1 PROVE s[i].url \in UrlsIn(Tail(s))
  <2>1. i - 1 \in DOMAIN Tail(s) /\ Tail(s)[i - 1] = s[i]
    BY <1>1, <1>2
  <2> QED  BY <2>1 DEF UrlsIn
<1>3. UrlsIn(s) \subseteq UrlsIn(Tail(s)) \cup {Head(s).url}
  BY <1>1, <1>2 DEF UrlsIn
<1>4. Len(s) = 1 => UrlsIn(Tail(s)) = {}
  BY <1>1 DEF UrlsIn
<1>5. UrlsIn(s) \subseteq Urls
  BY <1>1 DEF UrlsIn, Entry
<1> QED  BY <1>3, <1>4, <1>5

\* A handler's own steps: what it leaves behind is seen.
LEMMA SeedStep ==
  ASSUME FrontierAssumption, TypeOK, AnswerInv, NEW t \in Threads \ Workers, Seed(t)
  PROVE  AnsweredIsSeen' /\ RequestOK(t)'
<1> USE DEF TypeOK, LocalsOK, AddSteps
<1>1. /\ pc[t] \in AddSteps /\ request' = request /\ wiped' = wiped /\ seen \subseteq seen'
  BY DEF Seed, AddURLs, TestBloom, SIsMember, AddBloom, SAdd, LPush, ZAdd, redisVars
<1>2. todo[t] \in Seq(Entry) /\ todo[t] # <<>>
  BY <1>1 DEF ControlOK
<1>3. /\ UrlsIn(todo[t]) \subseteq UrlsIn(Tail(todo[t])) \cup {Cur(t).url}
      /\ Len(todo[t]) = 1 => UrlsIn(Tail(todo[t])) = {}
  BY <1>2, BatchUrls DEF Cur
<1>4. told \subseteq seen /\ request[t] \ wiped[t] \subseteq seen \cup Ahead(t)
  BY <1>1 DEF AnswerInv, AnsweredIsSeen, RequestOK
<1>5. ASSUME NextUrl(t), request[t] \ wiped[t] \subseteq seen \cup UrlsIn(Tail(todo[t]))
      PROVE  AnsweredIsSeen' /\ RequestOK(t)'
  <2>1. todo'[t] = Tail(todo[t]) /\ pc'[t] = (IF Len(todo[t]) = 1 THEN "idle" ELSE "bloom")
    BY <1>5 DEF NextUrl, Goto, AfterAdd
  <2>2. pc'[t] = "idle" => request[t] \ wiped[t] \subseteq seen
    BY <1>3, <1>5, <2>1
  <2>3. AnsweredIsSeen'
    BY <1>1, <1>4, <2>2 DEF Seed, Answer, AnsweredIsSeen
  <2>4. RequestOK(t)'
    BY <1>1, <1>5, <2>1 DEF RequestOK, Ahead
  <2> QED  BY <2>3, <2>4
<1>6. ASSUME pc'[t] # "idle", told' = told, todo'[t] = todo[t], request[t] \ wiped[t] \subseteq seen' \cup Ahead(t)'
      PROVE  AnsweredIsSeen' /\ RequestOK(t)'
  BY <1>1, <1>4, <1>6 DEF AnsweredIsSeen, RequestOK
<1>7. pc'[t] # "idle" => told' = told
  BY DEF Seed, Answer
<1>8. CASE TestBloom(t)
  <2>1. CASE Cur(t).url \in Unstable
    <3>1. pc'[t] = "idle" /\ told' = told
      BY <1>8, <2>1 DEF TestBloom, AbortAdd, AfterAdd, Goto, Seed, Answer
    <3> QED  BY <1>1, <1>4, <3>1 DEF AnsweredIsSeen, RequestOK
  <2>2. CASE Cur(t).url \notin Unstable
    <3>1. pc'[t] \in {"sismember", "mark"} /\ todo'[t] = todo[t] /\ pc[t] = "bloom"
      BY <1>8, <2>2 DEF TestBloom, Goto
    <3> QED  BY <1>1, <1>4, <1>6, <1>7, <3>1 DEF Ahead
  <2> QED  BY <2>1, <2>2
<1>9. CASE SIsMember(t)
  <2>1. CASE Cur(t).url \in seen
    BY <1>3, <1>4, <1>5, <1>9, <2>1 DEF SIsMember, Ahead
  <2>2. CASE Cur(t).url \notin seen
    <3>1. pc'[t] = "mark" /\ todo'[t] = todo[t] /\ pc[t] = "sismember"
      BY <1>9, <2>2 DEF SIsMember, Goto
    <3> QED  BY <1>1, <1>4, <1>6, <1>7, <3>1 DEF Ahead
  <2> QED  BY <2>1, <2>2
<1>10. CASE AddBloom(t)
  <2>1. pc'[t] = "sadd" /\ todo'[t] = todo[t] /\ pc[t] = "mark"
    BY <1>10 DEF AddBloom, Goto
  <2> QED  BY <1>1, <1>4, <1>6, <1>7, <2>1 DEF Ahead
<1>11. CASE SAdd(t)
  <2>1. /\ pc'[t] = "lpush" /\ todo'[t] = todo[t] /\ pc[t] = "sadd"
        /\ seen' = seen \cup {Cur(t).url}
    BY <1>11 DEF SAdd, Goto
  <2> QED  BY <1>3, <1>4, <1>6, <1>7, <2>1 DEF Ahead
<1>12. CASE LPush(t)
  <2>1. pc'[t] = "zadd" /\ todo'[t] = todo[t] /\ pc[t] = "lpush"
    BY <1>12 DEF LPush, Goto
  <2> QED  BY <1>1, <1>4, <1>6, <1>7, <2>1 DEF Ahead
<1>13. CASE ZAdd(t)
  BY <1>4, <1>5, <1>13 DEF ZAdd, Ahead
<1> QED  BY <1>8, <1>9, <1>10, <1>11, <1>12, <1>13 DEF Seed, AddURLs

\* What becomes of a handler by the steps of others and by failures: it is where
\* it was, or idle.
LEMMA Elsewhere ==
  ASSUME FrontierAssumption, TypeOK, AnswerInv, NEW x \in Threads \ Workers,
         request'[x] = request[x], wiped'[x] = wiped[x], seen \subseteq seen',
         \/ pc'[x] = pc[x] /\ todo'[x] = todo[x]
         \/ pc'[x] = "idle"
  PROVE  RequestOK(x)'
BY DEF AnswerInv, RequestOK, Ahead, AddSteps

LEMMA AnswerStep ==
  ASSUME FrontierAssumption, TypeOK, AnswerInv, [ConsoleNext]_allVars
  PROVE  AnswerInv'
<1> USE DEF TypeOK
<1>1. ASSUME UNCHANGED seedVars, seen \subseteq seen',
             \A x \in Threads \ Workers :
                \/ pc'[x] = pc[x] /\ todo'[x] = todo[x]
                \/ pc'[x] = "idle"
      PROVE  AnswerInv'
  BY <1>1, Elsewhere DEF AnswerInv, AnsweredIsSeen, seedVars
<1>2. ASSUME NEW t \in Threads, Ask(t) PROVE AnswerInv'
  <2>1. /\ Submit(t) /\ t \in Threads \ Workers /\ told' = told /\ seen' = seen
        /\ request' = [request EXCEPT ![t] = UrlsIn(todo'[t])]
        /\ wiped' = [wiped EXCEPT ![t] = {}]
    BY <1>2 DEF Ask, Submit, redisVars
  <2>2. LocalsOK' /\ pc'[t] = "bloom"
    BY <2>1, SubmitType DEF Submit, Goto, LocalsOK
  <2>3. UrlsIn(todo'[t]) \subseteq Urls
    <3>1. todo'[t] \in Seq(Entry) /\ todo'[t] # <<>>
      BY <2>2 DEF LocalsOK, ControlOK, AddSteps
    <3> QED  BY <3>1, BatchUrls
  <2>4. request' \in [Threads -> SUBSET Urls] /\ wiped' \in [Threads -> SUBSET Urls]
    BY <2>1, <2>3 DEF AnswerInv
  <2>5. RequestOK(t)'
    BY <2>1, <2>2 DEF RequestOK, Ahead, AnswerInv
  <2>6. ASSUME NEW x \in Threads \ Workers, x # t PROVE RequestOK(x)'
    <3>1. pc'[x] = pc[x] /\ todo'[x] = todo[x] /\ request'[x] = request[x] /\ wiped'[x] = wiped[x]
      BY <2>1, <2>6, Frame DEF AnswerInv
    <3> QED  BY <2>1, <3>1, Elsewhere
  <2> QED  BY <2>1, <2>4, <2>5, <2>6 DEF AnswerInv, AnsweredIsSeen
<1>3. ASSUME NEW t \in Threads, Seed(t) PROVE AnswerInv'
  <2>1. t \in Threads \ Workers /\ request' = request /\ wiped' = wiped /\ Step(t)
    BY <1>3 DEF Seed, Step
  <2>2. AnsweredIsSeen' /\ RequestOK(t)'
    BY <1>3, <2>1, SeedStep
  <2>3. ASSUME NEW x \in Threads \ Workers, x # t PROVE RequestOK(x)'
    BY <2>1, <2>3, Frame, Elsewhere
  <2> QED  BY <2>1, <2>2, <2>3 DEF AnswerInv
<1>4. ASSUME NEW t \in Threads, Work(t) \/ Count(t) PROVE AnswerInv'
  <2>1. Step(t) /\ UNCHANGED seedVars
    BY <1>4 DEF Work, Count, Step, ProcessURL
  <2>2. t \in Workers
    BY <1>4 DEF Work, Count, Finish, LocalsOK, ControlOK, AddSteps
  <2> QED  BY <1>1, <2>1, <2>2, Frame
<1>5. ASSUME NEW t \in Threads, Failure(t), UNCHANGED seedVars PROVE AnswerInv'
  <2>1. t \notin Workers => \/ pc'[t] = pc[t] /\ todo'[t] = todo[t]
                            \/ pc'[t] = "idle"
    BY <1>5 DEF Failure, AddFails, AbortAdd, AfterAdd, ScanFails, RPopFails, Resend, Leave,
                Goto, localVars, LocalsOK, ControlOK, AddSteps
  <2> QED  BY <1>1, <1>5, <2>1, Frame
<1>6. ASSUME NEW p \in Procs, Crash(p), UNCHANGED seedVars PROVE AnswerInv'
  <2>1. \A x \in Threads \ Workers : \/ pc'[x] = pc[x] /\ todo'[x] = todo[x]
                                     \/ pc'[x] = "idle"
    BY <1>6 DEF Crash
  <2>2. seen' = seen
    BY <1>6 DEF Crash, redisVars
  <2> QED  BY <1>1, <1>6, <2>1, <2>2
<1>7. CASE Disturbance
  <2>1. CASE \E h \in Hosts : DelayElapses(h)
    BY <1>1, <1>7, <2>1 DEF Disturbance, DelayElapses, localVars
  <2> QED  BY <1>5, <1>6, <1>7, <2>1 DEF Disturbance
<1>8. CASE DelSeen
  <2>1. /\ UNCHANGED <<pc, todo, request>> /\ seen' = {} /\ told' = {}
        /\ \A x \in Threads : wiped'[x] = wiped[x] \cup (request[x] \ Ahead(x))
        /\ wiped' \in [Threads -> SUBSET Urls]
    BY <1>8 DEF DelSeen, localVars, AnswerInv
  <2>2. \A x \in Threads : RequestOK(x)'
    BY <2>1 DEF RequestOK, Ahead
  <2> QED  BY <2>1, <2>2 DEF AnswerInv, AnsweredIsSeen
<1>9. CASE ListKeys \/ DelKeys \/ ListSeen \/ ClearFails \/ Stats \/ UNCHANGED allVars
           \/ \E t \in Threads : CountAgain(t)
  <2>1. UNCHANGED <<seedVars, pc, todo, seen>>
    BY <1>9 DEF ListKeys, DelKeys, ListSeen, ClearFails, DeleteListed, Stats, CountAgain,
                allVars, vars, redisVars, localVars
  <2> QED  BY <1>1, <2>1
<1> QED  BY <1>2, <1>3, <1>4, <1>7, <1>8, <1>9 DEF ConsoleNext, Clear

\* AnsweredIsSeen holds of every fleet and every batch: no answer of a Bloom filter
\* and no interleaving makes a handler report success for a URL that is not seen.
THEOREM AnswersAreKept == ConsoleSpec => []AnsweredIsSeen
<1>1. ConsoleInit => TypeOK /\ AnswerInv
  <2>1. ASSUME ConsoleInit PROVE Init /\ AnswerInv
    BY <2>1 DEF ConsoleInit, Init, AnswerInv, AnsweredIsSeen, RequestOK
  <2> QED  BY <2>1, InitType, FrontierAssumption
<1>2. TypeOK /\ AnswerInv /\ [ConsoleNext]_allVars => TypeOK' /\ AnswerInv'
  BY FrontierTypeStep, AnswerStep, FrontierAssumption
<1>3. AnswerInv => AnsweredIsSeen
  BY DEF AnswerInv
<1> QED  BY <1>1, <1>2, <1>3, PTL DEF ConsoleSpec

-----------------------------------------------------------------------------
(* Types of the figures *)

FiguresOK ==
    /\ pages \in Nat /\ errors \in Nat /\ inserted \in Nat
    /\ reader \in {"idle", "errors", "hosts", "len"} /\ ask \subseteq Hosts
    /\ report \in [completed : Nat, failed : Nat, pending : Nat]
    /\ commands \in 0..MaxCommands

LEMMA FiguresStep ==
  ASSUME FrontierAssumption, ConsoleAssumption, TypeOK, FiguresOK, [ConsoleNext]_allVars
  PROVE  FiguresOK'
<1> USE DEF FiguresOK, countVars, readVars
<1>1. ASSUME Insertions PROVE inserted' \in Nat
  BY <1>1 DEF Insertions
<1>2. CASE Disturbance
  BY <1>1, <1>2 DEF Disturbance
<1>3. ASSUME NEW t \in Threads, Ask(t) \/ Seed(t) \/ Work(t) \/ Count(t) \/ CountAgain(t)
      PROVE  FiguresOK'
  BY <1>1, <1>3 DEF Ask, Seed, Work, Count, CountAgain
<1>4. CASE Clear
  BY <1>4 DEF Clear, ListKeys, DelKeys, ListSeen, DelSeen, ClearFails, ConsoleAssumption
<1>5. CASE Stats
  <2>1. \A h \in Hosts : Len(queue[h]) \in Nat
    BY LenProperties DEF TypeOK, RedisOK
  <2>2. UNCHANGED countVars
    BY <1>5 DEF Stats
  <2>3. CASE ReadPages
    <3>1. PICK n \in {0, pages} : report' = [completed |-> n, failed |-> 0, pending |-> 0]
      BY <2>3 DEF ReadPages
    <3>2. report' \in [completed : Nat, failed : Nat, pending : Nat]
      BY <3>1
    <3>3. commands' \in 0..MaxCommands /\ reader' = "errors" /\ ask' = ask
      BY <2>3 DEF ReadPages, ConsoleAssumption
    <3> QED  BY <2>2, <3>2, <3>3
  <2>4. CASE ReadErrors
    <3>1. PICK n \in {0, errors} : report' = [report EXCEPT !.failed = n]
      BY <2>4 DEF ReadErrors
    <3>2. report' \in [completed : Nat, failed : Nat, pending : Nat]
      BY <3>1
    <3>3. reader' = "hosts" /\ ask' = ask /\ commands' = commands
      BY <2>4 DEF ReadErrors
    <3> QED  BY <2>2, <3>2, <3>3
  <2>5. CASE ReadHosts
    <3>1. listed \subseteq Hosts
      BY DEF TypeOK, RedisOK
    <3> QED  BY <2>2, <2>5, <3>1 DEF ReadHosts
  <2>6. CASE Report
    BY <2>2, <2>6 DEF Report
  <2>7. CASE ReadLen
    <3>1. PICK h \in ask : \E n \in {0, Len(queue[h])} :
             report' = [report EXCEPT !.pending = @ + n]
      BY <2>7 DEF ReadLen
    <3>2. report' \in [completed : Nat, failed : Nat, pending : Nat]
      BY <2>1, <3>1
    <3> QED  BY <2>2, <2>7, <3>2 DEF ReadLen
  <2> QED  BY <1>5, <2>3, <2>4, <2>5, <2>6, <2>7 DEF Stats
<1>6. CASE UNCHANGED allVars
  BY <1>6 DEF allVars
<1> QED  BY <1>2, <1>3, <1>4, <1>5, <1>6 DEF ConsoleNext

\* Type correctness of the console, with that of Frontier beside it.
THEOREM ConsoleTypeCorrect == ConsoleSpec => []ConsoleTypeOK
<1>1. ConsoleInit => TypeOK /\ ClearTypeOK /\ AnswerInv /\ FiguresOK
  <2>1. ASSUME ConsoleInit PROVE Init /\ AnswerInv /\ ClearTypeOK
    BY <2>1 DEF ConsoleInit, Init, AnswerInv, AnsweredIsSeen, RequestOK, ClearTypeOK
  <2>2. ASSUME ConsoleInit PROVE FiguresOK
    BY <2>2, ConsoleAssumption DEF ConsoleInit, FiguresOK
  <2> QED  BY <2>1, <2>2, InitType, FrontierAssumption
<1>2. /\ TypeOK /\ ClearTypeOK /\ AnswerInv /\ FiguresOK /\ [ConsoleNext]_allVars
      => TypeOK' /\ ClearTypeOK' /\ AnswerInv' /\ FiguresOK'
  BY FrontierTypeStep, ClearTypeStep, AnswerStep, FiguresStep, FrontierAssumption,
     ConsoleAssumption
<1>3. TypeOK /\ ClearTypeOK /\ AnswerInv /\ FiguresOK => ConsoleTypeOK
  BY DEF TypeOK, RedisOK, ClearTypeOK, AnswerInv, AnsweredIsSeen, FiguresOK, ConsoleTypeOK
<1> QED  BY <1>1, <1>2, <1>3, PTL DEF ConsoleSpec

-----------------------------------------------------------------------------
(* The figures of a report *)

\* The places of the URLs in the queues of some hosts; there are as many as the
\* lengths of these queues add up to.
PlacesOf(q, hs) == {p \in hs \X (Nat \ {0}) : p[2] <= Len(q[p[1]])}
Queues == [Hosts -> Seq(Entry)]

LEMMA PlacesIn ==
  ASSUME NEW q, NEW hs, NEW h, NEW i
  PROVE  <<h, i>> \in PlacesOf(q, hs) <=> h \in hs /\ i \in Nat \ {0} /\ i <= Len(q[h])
BY DEF PlacesOf

\* Of shorter queues, or fewer hosts, there are no more places.
LEMMA FewerPlaces ==
  ASSUME NEW q \in Queues, NEW r \in Queues,
         NEW hs \in SUBSET Hosts, NEW gs \in SUBSET hs,
         \A h \in gs : Len(r[h]) <= Len(q[h]),
         IsFiniteSet(PlacesOf(q, hs))
  PROVE  /\ IsFiniteSet(PlacesOf(r, gs))
         /\ Cardinality(PlacesOf(r, gs)) <= Cardinality(PlacesOf(q, hs))
<1>1. ASSUME NEW p \in PlacesOf(r, gs) PROVE p \in PlacesOf(q, hs)
  <2>1. /\ p = <<p[1], p[2]>> /\ p[1] \in gs
        /\ p[2] \in Nat \ {0} /\ p[2] <= Len(r[p[1]])
    BY <1>1 DEF PlacesOf
  <2>2. Len(r[p[1]]) \in Nat /\ Len(q[p[1]]) \in Nat
    BY <2>1, LenProperties DEF Queues
  <2>3. p[2] <= Len(q[p[1]])
    BY <2>1, <2>2
  <2> QED  BY <2>1, <2>3, PlacesIn
<1> QED  BY <1>1, FS_Subset

\* A URL that is pushed takes one more place.
LEMMA OnePlaceMore ==
  ASSUME NEW q \in Queues, NEW r, NEW hs \in SUBSET Hosts, NEW g \in Hosts, NEW e \in Entry,
         r = [q EXCEPT ![g] = Append(@, e)],
         IsFiniteSet(PlacesOf(q, hs))
  PROVE  /\ IsFiniteSet(PlacesOf(r, hs))
         /\ Cardinality(PlacesOf(r, hs)) <= Cardinality(PlacesOf(q, hs)) + 1
<1> DEFINE New == <<g, Len(q[g]) + 1>>
<1>1. Len(q[g]) \in Nat /\ Len(r[g]) = Len(q[g]) + 1
  BY AppendProperties, LenProperties DEF Queues
<1>2. ASSUME NEW p \in PlacesOf(r, hs) PROVE p \in PlacesOf(q, hs) \cup {New}
  <2>1. /\ p = <<p[1], p[2]>> /\ p[1] \in hs
        /\ p[2] \in Nat \ {0} /\ p[2] <= Len(r[p[1]])
    BY <1>2 DEF PlacesOf
  <2>2. CASE p[1] # g
    <3>1. r[p[1]] = q[p[1]]
      BY <2>1, <2>2 DEF Queues
    <3> QED  BY <2>1, <3>1, PlacesIn
  <2>3. CASE p[1] = g
    <3>1. p[2] = Len(q[g]) + 1 \/ p[2] <= Len(q[g])
      BY <1>1, <2>1, <2>3
    <3> QED  BY <2>1, <2>3, <3>1, PlacesIn
  <2> QED  BY <2>2, <2>3
<1>3. /\ IsFiniteSet(PlacesOf(q, hs) \cup {New})
      /\ Cardinality(PlacesOf(q, hs) \cup {New}) <= Cardinality(PlacesOf(q, hs)) + 1
      /\ Cardinality(PlacesOf(q, hs)) \in Nat
  <2>1. Cardinality(PlacesOf(q, hs)) \in Nat
    BY FS_CardinalityType
  <2> HIDE DEF New
  <2>2. /\ IsFiniteSet(PlacesOf(q, hs) \cup {New})
        /\ Cardinality(PlacesOf(q, hs) \cup {New}) =
             IF New \in PlacesOf(q, hs) THEN Cardinality(PlacesOf(q, hs))
                                        ELSE Cardinality(PlacesOf(q, hs)) + 1
    BY FS_AddElement
  <2> QED  BY <2>1, <2>2
<1>4. PlacesOf(r, hs) \subseteq PlacesOf(q, hs) \cup {New}
  BY <1>2
<1> HIDE DEF New
<1>5. /\ IsFiniteSet(PlacesOf(r, hs))
      /\ Cardinality(PlacesOf(r, hs)) <= Cardinality(PlacesOf(q, hs) \cup {New})
  BY <1>3, <1>4, FS_Subset
<1>6. Cardinality(PlacesOf(r, hs)) \in Nat /\ Cardinality(PlacesOf(q, hs) \cup {New}) \in Nat
  BY <1>3, <1>5, FS_CardinalityType
<1> QED  BY <1>3, <1>5, <1>6

\* A URL that is popped leaves one place.
LEMMA OnePlaceLess ==
  ASSUME NEW q \in Queues, NEW r \in Queues, NEW g \in Hosts, q[g] # <<>>,
         Len(r[g]) = Len(q[g]) - 1, \A h \in Hosts \ {g} : r[h] = q[h],
         IsFiniteSet(PlacesOf(q, Hosts))
  PROVE  /\ IsFiniteSet(PlacesOf(r, Hosts))
         /\ Cardinality(PlacesOf(r, Hosts)) + 1 <= Cardinality(PlacesOf(q, Hosts))
<1> DEFINE Old == <<g, Len(q[g])>>
<1>1. Len(q[g]) \in Nat \ {0} /\ Len(r[g]) = Len(q[g]) - 1
  BY LenProperties, EmptySeq DEF Queues
<1>2. Old \in PlacesOf(q, Hosts)
  BY <1>1, PlacesIn
<1>3. ASSUME NEW p \in PlacesOf(r, Hosts) PROVE p \in PlacesOf(q, Hosts) \ {Old}
  <2>1. /\ p = <<p[1], p[2]>> /\ p[1] \in Hosts
        /\ p[2] \in Nat \ {0} /\ p[2] <= Len(r[p[1]])
    BY <1>3 DEF PlacesOf
  <2>2. CASE p[1] # g
    <3>1. r[p[1]] = q[p[1]]
      BY <2>1, <2>2
    <3>2. p # Old
      BY <2>2
    <3> QED  BY <2>1, <3>1, <3>2, PlacesIn
  <2>3. CASE p[1] = g
    <3>1. p[2] <= Len(q[g]) /\ p[2] # Len(q[g])
      BY <1>1, <2>1, <2>3
    <3>2. p # Old
      BY <3>1
    <3> QED  BY <2>1, <2>3, <3>1, <3>2, PlacesIn
  <2> QED  BY <2>2, <2>3
<1>4. /\ IsFiniteSet(PlacesOf(q, Hosts) \ {Old})
      /\ Cardinality(PlacesOf(q, Hosts) \ {Old}) = Cardinality(PlacesOf(q, Hosts)) - 1
      /\ Cardinality(PlacesOf(q, Hosts)) \in Nat
  BY <1>2, FS_RemoveElement, FS_CardinalityType
<1>5. PlacesOf(r, Hosts) \subseteq PlacesOf(q, Hosts) \ {Old}
  BY <1>3
<1>6. /\ IsFiniteSet(PlacesOf(r, Hosts)) /\ Cardinality(PlacesOf(r, Hosts)) \in Nat
      /\ Cardinality(PlacesOf(r, Hosts)) <= Cardinality(PlacesOf(q, Hosts) \ {Old})
  BY <1>4, <1>5, FS_Subset, FS_CardinalityType
<1> QED  BY <1>4, <1>6

\* A host that was counted leaves as many places as its queue has URLs.
LEMMA PlacesOfHost ==
  ASSUME NEW q \in Queues, NEW hs \in SUBSET Hosts, NEW g \in hs,
         IsFiniteSet(PlacesOf(q, hs))
  PROVE  /\ IsFiniteSet(PlacesOf(q, hs \ {g}))
         /\ Cardinality(PlacesOf(q, hs)) = Cardinality(PlacesOf(q, hs \ {g})) + Len(q[g])
<1> DEFINE Mine == {g} \X (1..Len(q[g]))
           Rest == PlacesOf(q, hs \ {g})
<1>1. Len(q[g]) \in Nat
  BY LenProperties DEF Queues
<1>2. IsFiniteSet(Mine) /\ Cardinality(Mine) = Len(q[g])
  <2>1. IsFiniteSet(1..Len(q[g])) /\ Cardinality(1..Len(q[g])) = Len(q[g])
    BY <1>1, FS_Interval
  <2>2. IsFiniteSet({g}) /\ Cardinality({g}) = 1
    BY FS_Singleton
  <2>3. IsFiniteSet(Mine) /\ Cardinality(Mine) = Cardinality({g}) * Cardinality(1..Len(q[g]))
    BY <2>1, <2>2, FS_Product
  <2> QED  BY <1>1, <2>1, <2>2, <2>3
<1>3. Mine \cap Rest = {}
  BY DEF PlacesOf
<1>4. Mine \cup Rest = PlacesOf(q, hs)
  BY <1>1 DEF PlacesOf
<1>5. IsFiniteSet(Rest)
  <2>1. Rest \subseteq PlacesOf(q, hs)
    BY <1>4
  <2> HIDE DEF Rest
  <2> QED  BY <2>1, FS_Subset
<1> HIDE DEF Mine, Rest
<1>6. Cardinality(PlacesOf(q, hs)) = Cardinality(Mine) + Cardinality(Rest) - Cardinality({})
  BY <1>2, <1>3, <1>4, <1>5, FS_Union
<1>7. Cardinality({}) = 0 /\ Cardinality(Rest) \in Nat
  BY <1>5, FS_EmptySet, FS_CardinalityType
<1>8. Cardinality(PlacesOf(q, hs)) = Cardinality(Rest) + Len(q[g])
  BY <1>1, <1>2, <1>6, <1>7
<1> QED  BY <1>5, <1>8 DEF Rest

Holders == {t \in Threads : held[t] # NoEntry}

\* What a step of Frontier does to the URLs on their way: none comes in, or one is
\* pushed, or one goes from its queue into a worker's hands.
NoneMore == Holders' \subseteq Holders /\ \A h \in Hosts : Len(queue'[h]) <= Len(queue[h])
OnePushed == Holders' = Holders /\ \E e \in Entry : HostOf[e.url] \in Hosts /\ Enqueue(e)
OneTaken ==
    \E t \in Threads, h \in Hosts :
        queue[h] # <<>> /\ Dequeue(h) /\ Holders' \subseteq Holders \cup {t}

LEMMA SameFlow ==
  ASSUME TypeOK, UNCHANGED <<queue, held>>
  PROVE  NoneMore
<1>1. \A h \in Hosts : Len(queue[h]) \in Nat
  BY LenProperties DEF TypeOK, RedisOK
<1> QED  BY <1>1 DEF NoneMore, Holders

LEMMA DequeueFlow ==
  ASSUME TypeOK, UNCHANGED held, NEW h \in Hosts, queue[h] # <<>>, Dequeue(h)
  PROVE  NoneMore
<1>1. queue \in [Hosts -> Seq(Entry)]
  BY DEF TypeOK, RedisOK
<1>2. ASSUME NEW g \in Hosts PROVE Len(queue'[g]) <= Len(queue[g])
  <2>1. Len(queue[g]) \in Nat
    BY <1>1, LenProperties
  <2>2. CASE g = h
    <3>1. queue[h] \in Seq(Entry) /\ queue'[h] = Tail(queue[h])
      BY <1>1 DEF Dequeue
    <3>2. Len(Tail(queue[h])) = Len(queue[h]) - 1
      BY <3>1, HeadTailProperties
    <3> QED  BY <2>1, <2>2, <3>1, <3>2
  <2>3. CASE g # h
    <3>1. queue'[g] = queue[g]
      BY <1>1, <2>3 DEF Dequeue
    <3> QED  BY <2>1, <3>1
  <2> QED  BY <2>2, <2>3
<1> QED  BY <1>2 DEF NoneMore, Holders

LEMMA PushFlow ==
  ASSUME FrontierAssumption, TypeOK, UNCHANGED held,
         NEW t \in Threads, pc[t] = "lpush", Enqueue(Cur(t))
  PROVE  OnePushed
<1>1. Cur(t) \in Entry
  BY CurOK DEF TypeOK, LocalsOK, AddSteps
<1>2. HostOf[Cur(t).url] \in Hosts
  BY <1>1 DEF Entry, FrontierAssumption
<1> QED  BY <1>1, <1>2 DEF OnePushed, Holders

LEMMA FlowStep ==
  ASSUME FrontierAssumption, TypeOK, Next
  PROVE  NoneMore \/ OnePushed \/ OneTaken
<1> USE DEF redisVars, localVars
<1>1. ASSUME NEW t \in Threads, Submit(t) \/ AddURLs(t) PROVE NoneMore \/ OnePushed
  <2>1. CASE LPush(t)
    BY <2>1, PushFlow DEF LPush
  <2>2. CASE ~LPush(t)
    <3>1. UNCHANGED <<queue, held>>
      BY <1>1, <2>2 DEF Submit, AddURLs, TestBloom, SIsMember, AddBloom, SAdd, ZAdd
    <3> QED  BY <3>1, SameFlow
  <2> QED  BY <2>1, <2>2
<1>2. ASSUME NEW t \in Threads, NextURL(t) PROVE NoneMore \/ OneTaken
  <2>1. CASE RPop(t)
    <3>1. Host(t) \in Hosts
      BY <2>1, HostOK DEF RPop, TypeOK, TryHost
    <3>2. CASE queue[Host(t)] = <<>>
      BY <2>1, <3>2, SameFlow DEF RPop
    <3>3. CASE queue[Host(t)] # <<>>
      <4>1. Dequeue(Host(t)) /\ held' = [held EXCEPT ![t] = Head(queue[Host(t)])]
        BY <2>1, <3>3 DEF RPop
      <4>2. Holders' \subseteq Holders \cup {t}
        BY <4>1 DEF Holders, TypeOK, LocalsOK
      <4> QED  BY <3>1, <3>3, <4>1, <4>2 DEF OneTaken
    <3> QED  BY <3>2, <3>3
  <2>2. CASE ~RPop(t)
    <3>1. UNCHANGED <<queue, held>>
      BY <1>2, <2>2 DEF NextURL, ZRange, IsReady, DropHost, Touch, LLen, RetireHost
    <3> QED  BY <3>1, SameFlow
  <2> QED  BY <2>1, <2>2
<1>3. ASSUME NEW t \in Threads, Discover(t) PROVE NoneMore
  BY <1>3, SameFlow DEF Discover
<1>4. ASSUME UNCHANGED queue, Holders' \subseteq Holders PROVE NoneMore
  <2>1. \A h \in Hosts : Len(queue[h]) \in Nat
    BY LenProperties DEF TypeOK, RedisOK
  <2> QED  BY <1>4, <2>1 DEF NoneMore
<1>5. ASSUME NEW t \in Threads, Finish(t) PROVE NoneMore
  <2>1. UNCHANGED queue /\ held' = [held EXCEPT ![t] = NoEntry]
    BY <1>5 DEF Finish
  <2>2. Holders' \subseteq Holders
    BY <2>1 DEF Holders, TypeOK, LocalsOK
  <2> QED  BY <1>4, <2>1, <2>2
<1>6. ASSUME NEW t \in Threads, Failure(t) PROVE NoneMore \/ OnePushed
  <2>1. UNCHANGED held
    BY <1>6 DEF Failure, AddFails, ScanFails, RPopFails, Resend
  <2>2. \/ UNCHANGED queue
        \/ pc[t] = "lpush" /\ Enqueue(Cur(t))
        \/ pc[t] = "rpop" /\ queue[Host(t)] # <<>> /\ Dequeue(Host(t))
    BY <1>6 DEF Failure, AddFails, ScanFails, RPopFails, Resend
  <2>3. pc[t] = "rpop" => Host(t) \in Hosts
    BY HostOK DEF TypeOK, TryHost
  <2> QED  BY <2>1, <2>2, <2>3, SameFlow, PushFlow, DequeueFlow
<1>7. ASSUME NEW p \in Procs, Crash(p) PROVE NoneMore
  <2>1. UNCHANGED queue /\ Holders' \subseteq Holders
    BY <1>7 DEF Crash, Holders
  <2> QED  BY <1>4, <2>1
<1>8. ASSUME NEW h \in Hosts, DelayElapses(h) PROVE NoneMore
  BY <1>8, SameFlow DEF DelayElapses
<1> QED  BY <1>1, <1>2, <1>3, <1>5, <1>6, <1>7, <1>8 DEF Next, Step, ProcessURL

\* The strengthening: every URL that was ever pushed, and every command that failed
\* or was sent twice, pays for at most one page counted, one URL held or one place in
\* a queue; and a report in the making has counted no more than was paid for by URLs
\* that are done, or that are not in the queues it has yet to read.
Reported == report.completed + report.failed + report.pending
Paid == pages + errors + Cardinality(Holders) + Cardinality(PlacesOf(queue, Hosts))
          <= inserted + faults
ReportPaid ==
    /\ reader = "errors" => report.failed = 0 /\ report.pending = 0 /\ report.completed <= pages
    /\ reader = "hosts" => report.pending = 0 /\ report.completed + report.failed <= pages + errors
    /\ reader = "len" => Reported + Cardinality(PlacesOf(queue, ask)) <= inserted + faults
FlowInv ==
    /\ IsFiniteSet(Holders) /\ IsFiniteSet(PlacesOf(queue, Hosts))
    /\ Paid /\ ReportPaid /\ StatsNeverOvercount

\* The numbers that FlowInv adds up.
LEMMA Numbers ==
  ASSUME TypeOK, FiguresOK, FlowInv
  PROVE  /\ pages \in Nat /\ errors \in Nat /\ inserted \in Nat /\ faults \in Nat
         /\ Cardinality(Holders) \in Nat /\ Cardinality(PlacesOf(queue, Hosts)) \in Nat
         /\ IsFiniteSet(PlacesOf(queue, ask)) /\ Cardinality(PlacesOf(queue, ask)) \in Nat
         /\ report.completed \in Nat /\ report.failed \in Nat /\ report.pending \in Nat
         /\ Reported \in Nat
<1>1. queue \in Queues /\ ask \subseteq Hosts /\ \A h \in Hosts : Len(queue[h]) \in Nat
  BY LenProperties DEF TypeOK, RedisOK, Queues, FiguresOK
<1>2. IsFiniteSet(PlacesOf(queue, ask))
  BY <1>1, FewerPlaces DEF FlowInv
<1>3. report.completed \in Nat /\ report.failed \in Nat /\ report.pending \in Nat
  BY DEF FiguresOK
<1>4. Reported \in Nat
  BY <1>3 DEF Reported
<1> QED  BY <1>2, <1>3, <1>4, FS_CardinalityType DEF FlowInv, FiguresOK, TypeOK, HistoryOK

\* If no more is on its way and no less was paid, a report stays right.
LEMMA LessToCount ==
  ASSUME TypeOK, TypeOK', FiguresOK, FiguresOK', FlowInv, UNCHANGED <<reader, ask, report>>,
         NoneMore, pages' = pages, errors' = errors, inserted <= inserted', faults <= faults'
  PROVE  FlowInv'
<1>1. queue \in Queues /\ queue' \in Queues /\ ask \subseteq Hosts
  BY DEF TypeOK, RedisOK, Queues, FiguresOK
<1>2. /\ IsFiniteSet(Holders')
      /\ Cardinality(Holders') <= Cardinality(Holders)
  BY FS_Subset DEF NoneMore, FlowInv
<1>3. /\ IsFiniteSet(PlacesOf(queue, Hosts)')
      /\ Cardinality(PlacesOf(queue, Hosts)') <= Cardinality(PlacesOf(queue, Hosts))
  BY <1>1, FewerPlaces DEF NoneMore, FlowInv
<1>4. /\ IsFiniteSet(PlacesOf(queue, ask)')
      /\ Cardinality(PlacesOf(queue, ask)') <= Cardinality(PlacesOf(queue, ask))
  <2>1. IsFiniteSet(PlacesOf(queue, ask)) /\ ask' = ask
    BY Numbers
  <2>2. IsFiniteSet(PlacesOf(queue', ask))
        /\ Cardinality(PlacesOf(queue', ask)) <= Cardinality(PlacesOf(queue, ask))
    BY <1>1, <2>1, FewerPlaces DEF NoneMore
  <2> QED  BY <2>1, <2>2
<1>5. /\ Cardinality(Holders') \in Nat /\ Cardinality(PlacesOf(queue, Hosts)') \in Nat
      /\ Cardinality(PlacesOf(queue, ask)') \in Nat
  BY <1>2, <1>3, <1>4, FS_CardinalityType
<1>6. inserted' \in Nat /\ faults' \in Nat /\ reader' = reader /\ report' = report
  BY DEF FiguresOK, TypeOK, HistoryOK
<1>7. Paid'
  BY <1>2, <1>3, <1>5, <1>6, Numbers DEF Paid, FlowInv
<1>8. ReportPaid' /\ StatsNeverOvercount'
  BY <1>4, <1>5, <1>6, Numbers DEF ReportPaid, Reported, StatsNeverOvercount, FlowInv
<1> QED  BY <1>2, <1>3, <1>7, <1>8 DEF FlowInv

\* A URL that is pushed is paid for.
LEMMA PushIsPaid ==
  ASSUME TypeOK, TypeOK', FiguresOK, FiguresOK', FlowInv, UNCHANGED readVars,
         OnePushed, pages' = pages, errors' = errors, Insertions, faults <= faults'
  PROVE  FlowInv'
<1>1. queue \in Queues /\ ask \subseteq Hosts
  BY DEF TypeOK, RedisOK, Queues, FiguresOK
<1>2. PICK e \in Entry : HostOf[e.url] \in Hosts /\ Enqueue(e)
  BY DEF OnePushed
<1>3. queue' = [queue EXCEPT ![HostOf[e.url]] = Append(@, e)]
  BY <1>2 DEF Enqueue
<1>4. inserted' = inserted + 1
  <2>1. Len(queue'[HostOf[e.url]]) > Len(queue[HostOf[e.url]])
    <3>1. queue[HostOf[e.url]] \in Seq(Entry)
      BY <1>1, <1>2 DEF Queues
    <3>2. Len(Append(queue[HostOf[e.url]], e)) = Len(queue[HostOf[e.url]]) + 1
          /\ Len(queue[HostOf[e.url]]) \in Nat
      BY <3>1, AppendProperties, LenProperties
    <3>3. queue'[HostOf[e.url]] = Append(queue[HostOf[e.url]], e)
      BY <1>1, <1>2, <1>3 DEF Queues
    <3> QED  BY <3>2, <3>3
  <2> QED  BY <1>2, <2>1 DEF Insertions
<1>5. /\ IsFiniteSet(PlacesOf(queue, Hosts)')
      /\ Cardinality(PlacesOf(queue, Hosts)') <= Cardinality(PlacesOf(queue, Hosts)) + 1
  BY <1>1, <1>2, <1>3, OnePlaceMore DEF FlowInv
<1>6. /\ IsFiniteSet(PlacesOf(queue, ask)')
      /\ Cardinality(PlacesOf(queue, ask)') <= Cardinality(PlacesOf(queue, ask)) + 1
  <2>1. IsFiniteSet(PlacesOf(queue, ask)) /\ ask' = ask
    BY Numbers DEF readVars
  <2>2. IsFiniteSet(PlacesOf(queue', ask))
        /\ Cardinality(PlacesOf(queue', ask)) <= Cardinality(PlacesOf(queue, ask)) + 1
    BY <1>1, <1>2, <1>3, <2>1, OnePlaceMore
  <2> QED  BY <2>1, <2>2
<1>7. /\ Cardinality(PlacesOf(queue, Hosts)') \in Nat
      /\ Cardinality(PlacesOf(queue, ask)') \in Nat /\ Holders' = Holders
      /\ faults' \in Nat /\ reader' = reader /\ report' = report
  BY <1>5, <1>6, FS_CardinalityType DEF OnePushed, TypeOK, HistoryOK, readVars
<1>8. Paid'
  BY <1>4, <1>5, <1>7, Numbers DEF Paid, FlowInv
<1>9. ReportPaid' /\ StatsNeverOvercount'
  BY <1>4, <1>6, <1>7, Numbers DEF ReportPaid, Reported, StatsNeverOvercount, FlowInv
<1>10. IsFiniteSet(Holders')
  BY <1>7 DEF FlowInv
<1> QED  BY <1>5, <1>8, <1>9, <1>10 DEF FlowInv

\* A URL that is popped is held in exchange for its place.
LEMMA TakenIsPaid ==
  ASSUME TypeOK, TypeOK', FiguresOK, FiguresOK', FlowInv, UNCHANGED readVars,
         OneTaken, pages' = pages, errors' = errors, inserted <= inserted', faults <= faults'
  PROVE  FlowInv'
<1>1. queue \in Queues /\ queue' \in Queues /\ ask \subseteq Hosts
  BY DEF TypeOK, RedisOK, Queues, FiguresOK
<1>2. PICK t \in Threads, g \in Hosts :
        queue[g] # <<>> /\ Dequeue(g) /\ Holders' \subseteq Holders \cup {t}
  BY DEF OneTaken
<1>3. queue' = [queue EXCEPT ![g] = Tail(@)]
  BY <1>2 DEF Dequeue
<1>4. /\ IsFiniteSet(PlacesOf(queue, Hosts)')
      /\ Cardinality(PlacesOf(queue, Hosts)') + 1 <= Cardinality(PlacesOf(queue, Hosts))
  <2>1. IsFiniteSet(PlacesOf(queue, Hosts)) /\ queue[g] # <<>>
    BY <1>2 DEF FlowInv
  <2>2. \A h \in Hosts \ {g} : queue'[h] = queue[h]
    BY <1>1, <1>3 DEF Queues
  <2>3. Len(queue'[g]) = Len(queue[g]) - 1
    BY <1>1, <1>3, <2>1, HeadTailProperties DEF Queues
  <2>4. IsFiniteSet(PlacesOf(queue', Hosts))
        /\ Cardinality(PlacesOf(queue', Hosts)) + 1 <= Cardinality(PlacesOf(queue, Hosts))
    BY <1>1, <2>1, <2>2, <2>3, OnePlaceLess
  <2> QED  BY <2>4
<1>5. IsFiniteSet(Holders') /\ Cardinality(Holders') <= Cardinality(Holders) + 1
  <2>1. IsFiniteSet(Holders) /\ Cardinality(Holders) \in Nat
    BY Numbers DEF FlowInv
  <2>2. /\ IsFiniteSet(Holders \cup {t})
        /\ Cardinality(Holders \cup {t}) <= Cardinality(Holders) + 1
    BY <2>1, FS_AddElement
  <2>3. IsFiniteSet(Holders') /\ Cardinality(Holders') <= Cardinality(Holders \cup {t})
    BY <1>2, <2>2, FS_Subset
  <2>4. Cardinality(Holders') \in Nat /\ Cardinality(Holders \cup {t}) \in Nat
    BY <2>2, <2>3, FS_CardinalityType
  <2> QED  BY <2>1, <2>2, <2>3, <2>4
<1>6. /\ IsFiniteSet(PlacesOf(queue, ask)')
      /\ Cardinality(PlacesOf(queue, ask)') <= Cardinality(PlacesOf(queue, ask))
  <2>1. IsFiniteSet(PlacesOf(queue, ask)) /\ ask' = ask
    BY Numbers DEF readVars
  <2>2. \A h \in ask : Len(queue'[h]) <= Len(queue[h])
    <3>1. ASSUME NEW h \in ask PROVE Len(queue'[h]) <= Len(queue[h])
      <4>1. queue[h] \in Seq(Entry) /\ Len(queue[h]) \in Nat
        BY <1>1, LenProperties DEF Queues
      <4>2. CASE h = g
        BY <1>1, <1>2, <1>3, <4>1, <4>2, HeadTailProperties DEF Queues
      <4>3. CASE h # g
        BY <1>1, <1>3, <4>1, <4>3 DEF Queues
      <4> QED  BY <4>2, <4>3
    <3> QED  BY <3>1
  <2>3. IsFiniteSet(PlacesOf(queue', ask))
        /\ Cardinality(PlacesOf(queue', ask)) <= Cardinality(PlacesOf(queue, ask))
    BY <1>1, <2>1, <2>2, FewerPlaces
  <2> QED  BY <2>1, <2>3
<1>7. /\ Cardinality(PlacesOf(queue, Hosts)') \in Nat
      /\ Cardinality(PlacesOf(queue, ask)') \in Nat /\ Cardinality(Holders') \in Nat
      /\ inserted' \in Nat /\ faults' \in Nat /\ reader' = reader /\ report' = report
  BY <1>4, <1>5, <1>6, FS_CardinalityType DEF FiguresOK, TypeOK, HistoryOK, readVars
<1>8. Paid'
  BY <1>4, <1>5, <1>7, Numbers DEF Paid, FlowInv
<1>9. ReportPaid' /\ StatsNeverOvercount'
  BY <1>6, <1>7, Numbers DEF ReportPaid, Reported, StatsNeverOvercount, FlowInv
<1> QED  BY <1>4, <1>5, <1>8, <1>9 DEF FlowInv

\* Steps of the threads, failures and time.
LEMMA ThreadedFlow ==
  ASSUME FrontierAssumption, TypeOK, TypeOK', FiguresOK, FiguresOK', FlowInv, UNCHANGED readVars,
         Next, pages' = pages, errors' = errors, Insertions
  PROVE  FlowInv'
<1>1. inserted <= inserted'
  BY DEF Insertions, FiguresOK
<1>2. faults <= faults'
  <2>1. faults \in Nat
    BY DEF TypeOK, HistoryOK
  <2>2. ASSUME NEW t \in Threads, Submit(t) \/ Step(t) PROVE faults' = faults
    BY <2>2 DEF Submit, Step, AddURLs, TestBloom, SIsMember, AddBloom, SAdd, LPush, ZAdd,
                NextURL, ZRange, IsReady, RPop, DropHost, Touch, LLen, RetireHost,
                ProcessURL, Discover, Finish
  <2>3. ASSUME \/ \E t \in Threads : Failure(t)
               \/ \E p \in Procs : Crash(p)
        PROVE  faults' = faults + 1
    BY <2>3 DEF Failure, AddFails, ScanFails, RPopFails, Resend, Crash, Fault
  <2>4. ASSUME NEW h \in Hosts, DelayElapses(h) PROVE faults' = faults
    BY <2>4 DEF DelayElapses
  <2> QED  BY <2>1, <2>2, <2>3, <2>4 DEF Next
<1> QED  BY <1>1, <1>2, FlowStep, LessToCount, PushIsPaid, TakenIsPaid DEF readVars

\* A page is counted when its URL leaves the hands of a worker.
LEMMA CountIsPaid ==
  ASSUME TypeOK, TypeOK', FiguresOK, FiguresOK', FlowInv, NEW t \in Threads, Count(t)
  PROVE  FlowInv'
<1>1. /\ held[t] # NoEntry /\ held' = [held EXCEPT ![t] = NoEntry]
      /\ queue' = queue /\ faults' = faults /\ inserted' = inserted
      /\ reader' = reader /\ ask' = ask /\ report' = report
  BY DEF Count, Finish, TypeOK, LocalsOK, ControlOK, redisVars, readVars
<1>2. Holders' = Holders \ {t} /\ t \in Holders
  BY <1>1 DEF Holders, TypeOK, LocalsOK
<1>3. IsFiniteSet(Holders') /\ Cardinality(Holders') = Cardinality(Holders) - 1
  BY <1>2, FS_RemoveElement DEF FlowInv
<1>4. /\ pages \in Nat /\ errors \in Nat
      /\ \/ pages' = pages + 1 /\ errors' = errors
         \/ pages' = pages /\ errors' = errors + 1
         \/ pages' = pages /\ errors' = errors
  BY DEF Count, FiguresOK
<1>5. Paid'
  BY <1>1, <1>3, <1>4, Numbers DEF Paid, FlowInv
<1>6. ReportPaid'
  BY <1>1, <1>4, Numbers DEF ReportPaid, Reported, FlowInv
<1> QED  BY <1>1, <1>3, <1>5, <1>6 DEF FlowInv, StatsNeverOvercount

\* An INCR that is sent twice is a failure.
LEMMA CountAgainIsPaid ==
  ASSUME TypeOK, FiguresOK, FlowInv, NEW t \in Threads, CountAgain(t)
  PROVE  FlowInv'
<1>1. /\ held' = held /\ queue' = queue /\ faults' = faults + 1 /\ inserted' = inserted
      /\ reader' = reader /\ ask' = ask /\ report' = report
      /\ \/ pages' = pages + 1 /\ errors' = errors
         \/ pages' = pages /\ errors' = errors + 1
  BY DEF CountAgain, Fault, redisVars, localVars, readVars
<1>2. Holders' = Holders
  BY <1>1 DEF Holders
<1>3. Paid'
  BY <1>1, <1>2, Numbers DEF Paid, FlowInv
<1>4. ReportPaid' /\ StatsNeverOvercount'
  BY <1>1, Numbers DEF ReportPaid, Reported, StatsNeverOvercount, FlowInv
<1> QED  BY <1>1, <1>2, <1>3, <1>4 DEF FlowInv

\* A clear deletes.
LEMMA ClearFlow ==
  ASSUME TypeOK, TypeOK', FiguresOK, FiguresOK', FlowInv, Clear
  PROVE  FlowInv'
<1>1. /\ held' = held /\ pages' = pages /\ errors' = errors /\ inserted' = inserted
      /\ reader' = reader /\ ask' = ask /\ report' = report
  BY DEF Clear, ListKeys, DelKeys, ListSeen, DelSeen, ClearFails, vars, localVars, countVars,
         readVars
<1>2. faults' = faults \/ faults' = faults + 1
  BY DEF Clear, ListKeys, DelKeys, ListSeen, DelSeen, ClearFails, vars, Fault
<1>3. queue' = queue \/ queue' = [h \in Hosts |-> IF h \in keys THEN <<>> ELSE queue[h]]
  BY DEF Clear, ListKeys, DelKeys, ListSeen, DelSeen, ClearFails, DeleteListed, vars, redisVars
<1>4. ASSUME NEW h \in Hosts PROVE Len(queue'[h]) <= Len(queue[h])
  <2>1. Len(queue[h]) \in Nat /\ Len(<<>>) = 0
    BY LenProperties DEF TypeOK, RedisOK
  <2> QED  BY <1>3, <2>1
<1>5. NoneMore /\ inserted <= inserted' /\ faults <= faults'
  BY <1>1, <1>2, <1>4 DEF NoneMore, Holders, FiguresOK, TypeOK, HistoryOK
<1> QED  BY <1>1, <1>5, LessToCount

\* Stats reads the counters before the queues.
LEMMA StatsFlow ==
  ASSUME FrontierAssumption, TypeOK, FiguresOK, FlowInv, Stats
  PROVE  FlowInv'
<1>1. UNCHANGED <<queue, held, faults, pages, errors, inserted>> /\ Holders' = Holders
  BY DEF Stats, vars, redisVars, localVars, countVars, Holders
<1>2. IsFiniteSet(Holders') /\ IsFiniteSet(PlacesOf(queue, Hosts)') /\ Paid'
  BY <1>1 DEF Paid, FlowInv
<1>3. SUFFICES ReportPaid' /\ StatsNeverOvercount'
  BY <1>2 DEF FlowInv
<1> USE DEF ReportPaid, Reported, StatsNeverOvercount
<1>4. CASE ReadPages
  <2>1. PICK n \in {0, pages} : report' = [completed |-> n, failed |-> 0, pending |-> 0]
    BY <1>4 DEF ReadPages
  <2>2. reader' = "errors" /\ report'.completed = n /\ report'.failed = 0 /\ report'.pending = 0
    BY <1>4, <2>1 DEF ReadPages
  <2>3. /\ pages + errors + Cardinality(Holders) + Cardinality(PlacesOf(queue, Hosts))
             <= inserted + faults
        /\ pages \in Nat /\ errors \in Nat /\ inserted \in Nat /\ faults \in Nat
        /\ Cardinality(Holders) \in Nat /\ Cardinality(PlacesOf(queue, Hosts)) \in Nat
    BY Numbers DEF Paid, FlowInv
  <2>4. n \in Nat /\ n <= pages /\ pages <= inserted + faults
    BY <2>1, <2>3
  <2> QED  BY <1>1, <2>2, <2>3, <2>4
<1>5. CASE ReadErrors
  <2>1. PICK n \in {0, errors} : report' = [report EXCEPT !.failed = n]
    BY <1>5 DEF ReadErrors
  <2>2. /\ reader = "errors" /\ reader' = "hosts" /\ report'.failed = n
        /\ report'.completed = report.completed /\ report'.pending = report.pending
    BY <1>5, <2>1 DEF ReadErrors, FiguresOK
  <2>3. /\ report.pending = 0 /\ report.completed <= pages
        /\ pages + errors <= inserted + faults
    BY <2>2, Numbers DEF Paid, FlowInv
  <2>4. n \in Nat /\ n <= errors
    BY Numbers
  <2>5. report'.completed + report'.failed <= pages + errors /\ report'.pending = 0
    BY <2>2, <2>3, <2>4, Numbers
  <2> QED  BY <1>1, <2>2, <2>3, <2>5, Numbers
<1>6. CASE ReadHosts
  <2>1. report' = report /\ reader = "hosts" /\ (reader' = "idle" \/ (reader' = "len" /\ ask' = listed))
    BY <1>6 DEF ReadHosts
  <2>2. StatsNeverOvercount'
    BY <1>1, <2>1 DEF FlowInv
  <2>3. Cardinality(PlacesOf(queue, listed)) <= Cardinality(PlacesOf(queue, Hosts))
        /\ Cardinality(PlacesOf(queue, listed)) \in Nat
    <3>1. queue \in Queues /\ listed \subseteq Hosts /\ \A h \in Hosts : Len(queue[h]) \in Nat
      BY LenProperties DEF TypeOK, RedisOK, Queues
    <3>2. IsFiniteSet(PlacesOf(queue, listed))
          /\ Cardinality(PlacesOf(queue, listed)) <= Cardinality(PlacesOf(queue, Hosts))
      BY <3>1, FewerPlaces DEF FlowInv
    <3> QED  BY <3>2, FS_CardinalityType
  <2>4. Reported + Cardinality(PlacesOf(queue, listed)) <= inserted + faults
    <3>1. report.pending = 0 /\ report.completed + report.failed <= pages + errors
      BY <2>1 DEF FlowInv
    <3>2. pages + errors + Cardinality(Holders) + Cardinality(PlacesOf(queue, Hosts))
            <= inserted + faults
      BY DEF Paid, FlowInv
    <3>3. Reported = report.completed + report.failed
      BY <3>1, Numbers
    <3>4. /\ pages \in Nat /\ errors \in Nat /\ inserted \in Nat /\ faults \in Nat
          /\ Cardinality(Holders) \in Nat /\ Cardinality(PlacesOf(queue, Hosts)) \in Nat
          /\ report.completed \in Nat /\ report.failed \in Nat
      BY Numbers
    <3> QED  BY <2>3, <3>1, <3>2, <3>3, <3>4
  <2>5. reader' = "len" => PlacesOf(queue, ask)' = PlacesOf(queue, listed)
    BY <1>1, <2>1
  <2> QED  BY <1>1, <2>1, <2>2, <2>4, <2>5
<1>7. CASE ReadLen
  <2>1. PICK h \in ask : /\ ask' = ask \ {h}
                         /\ \E n \in {0, Len(queue[h])} :
                              report' = [report EXCEPT !.pending = @ + n]
    BY <1>7 DEF ReadLen
  <2>2. PICK n \in {0, Len(queue[h])} : report' = [report EXCEPT !.pending = report.pending + n]
    BY <2>1
  <2>3. /\ reader = "len" /\ reader' = "len" /\ report'.failed = report.failed
        /\ report'.completed = report.completed /\ report'.pending = report.pending + n
    BY <1>7, <2>2 DEF ReadLen, FiguresOK
  <2>4. queue \in Queues /\ ask \subseteq Hosts /\ Len(queue[h]) \in Nat
    BY LenProperties DEF TypeOK, RedisOK, Queues, FiguresOK
  <2>5. /\ IsFiniteSet(PlacesOf(queue, ask \ {h}))
        /\ Cardinality(PlacesOf(queue, ask)) =
              Cardinality(PlacesOf(queue, ask \ {h})) + Len(queue[h])
    BY <2>1, <2>4, Numbers, PlacesOfHost
  <2>6. Cardinality(PlacesOf(queue, ask \ {h})) \in Nat
    BY <2>5, FS_CardinalityType
  <2>7. PlacesOf(queue, ask)' = PlacesOf(queue, ask \ {h})
    BY <1>1, <2>1
  <2>8. Reported' + Cardinality(PlacesOf(queue, ask \ {h})) <= inserted + faults
    <3>1. Reported + Cardinality(PlacesOf(queue, ask)) <= inserted + faults
      BY <2>3 DEF FlowInv
    <3>2. n \in Nat /\ n <= Len(queue[h])
      BY <2>2, <2>4
    <3>3. Reported' = Reported + n
      BY <2>3, <3>2, Numbers
    <3>4. Reported \in Nat /\ inserted \in Nat /\ faults \in Nat
      BY Numbers
    <3> HIDE DEF Reported, ReportPaid, StatsNeverOvercount
    <3>5. Reported' \in Nat /\ Reported' <= Reported + Len(queue[h])
      BY <2>4, <3>2, <3>3, <3>4
    <3>6. Reported + (Cardinality(PlacesOf(queue, ask \ {h})) + Len(queue[h])) <= inserted + faults
      BY <2>5, <3>1
    <3> QED  BY <2>4, <2>6, <3>4, <3>5, <3>6
  <2>9. Reported' <= inserted + faults
    <3>1. n \in Nat /\ report.completed \in Nat /\ report.failed \in Nat
          /\ report.pending \in Nat /\ inserted \in Nat /\ faults \in Nat
      BY <2>2, <2>4, Numbers
    <3>2. Reported' \in Nat
      BY <2>3, <3>1
    <3> HIDE DEF Reported, ReportPaid, StatsNeverOvercount
    <3> QED  BY <2>6, <2>8, <3>1, <3>2
  <2> QED  BY <1>1, <2>3, <2>7, <2>8, <2>9
<1>8. CASE Report
  BY <1>1, <1>8 DEF Report, FlowInv
<1> QED  BY <1>4, <1>5, <1>6, <1>7, <1>8 DEF Stats

LEMMA FlowKept ==
  ASSUME FrontierAssumption, ConsoleAssumption, TypeOK, FiguresOK, FlowInv, [ConsoleNext]_allVars
  PROVE  FlowInv'
<1>1. TypeOK' /\ FiguresOK'
  BY FrontierTypeStep, FiguresStep
<1>2. CASE Disturbance
  <2>1. Next /\ UNCHANGED readVars /\ Insertions /\ pages' = pages /\ errors' = errors
    BY <1>2 DEF Disturbance, Next
  <2> QED  BY <1>1, <2>1, ThreadedFlow
<1>3. ASSUME NEW t \in Threads, Seed(t) \/ Work(t) PROVE FlowInv'
  <2>1. Next /\ UNCHANGED readVars /\ Insertions /\ pages' = pages /\ errors' = errors
    BY <1>3 DEF Seed, Work, Next, Step, ProcessURL
  <2> QED  BY <1>1, <2>1, ThreadedFlow
<1>4. ASSUME UNCHANGED <<queue, held, faults, countVars, readVars>> PROVE FlowInv'
  BY <1>4 DEF FlowInv, Holders, Paid, ReportPaid, Reported, StatsNeverOvercount, countVars,
              readVars
<1>5. ASSUME NEW t \in Threads, Ask(t) PROVE FlowInv'
  BY <1>4, <1>5 DEF Ask, Submit, redisVars
<1>6. CASE UNCHANGED allVars
  BY <1>4, <1>6 DEF allVars, vars, redisVars, localVars
<1> QED  BY <1>1, <1>2, <1>3, <1>5, <1>6, CountIsPaid, CountAgainIsPaid, ClearFlow, StatsFlow
         DEF ConsoleNext

\* StatsNeverOvercount holds of every fleet, and of any number of clears and reports:
\* in whatever order Stats reads the queues while URLs move, its figures never add up
\* to more than what was pushed.
THEOREM FiguresAddUp == ConsoleSpec => []StatsNeverOvercount
<1>1. ConsoleInit => TypeOK /\ FiguresOK /\ FlowInv
  <2>1. ASSUME ConsoleInit PROVE Init /\ FiguresOK
    BY <2>1, ConsoleAssumption DEF ConsoleInit, FiguresOK
  <2>2. ASSUME ConsoleInit PROVE FlowInv
    <3>1. Holders = {}
      BY <2>2 DEF ConsoleInit, Init, Holders
    <3>2. PlacesOf(queue, Hosts) = {}
      <4>1. \A h \in Hosts : Len(queue[h]) = 0
        BY <2>2 DEF ConsoleInit, Init
      <4> QED  BY <4>1 DEF PlacesOf
    <3>3. /\ pages = 0 /\ errors = 0 /\ inserted = 0 /\ faults = 0 /\ reader = "idle"
          /\ report.completed = 0 /\ report.failed = 0 /\ report.pending = 0
      BY <2>2 DEF ConsoleInit, Init
    <3> QED  BY <3>1, <3>2, <3>3, FS_EmptySet
             DEF FlowInv, Paid, ReportPaid, Reported, StatsNeverOvercount
  <2> QED  BY <2>1, <2>2, InitType, FrontierAssumption
<1>2. /\ TypeOK /\ FiguresOK /\ FlowInv /\ [ConsoleNext]_allVars
      => TypeOK' /\ FiguresOK' /\ FlowInv'
  BY FrontierTypeStep, FiguresStep, FlowKept, FrontierAssumption, ConsoleAssumption
<1>3. FlowInv => StatsNeverOvercount
  BY DEF FlowInv
<1> QED  BY <1>1, <1>2, <1>3, PTL DEF ConsoleSpec
=============================================================================
