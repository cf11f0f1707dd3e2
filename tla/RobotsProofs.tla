---------------------------- MODULE RobotsProofs ----------------------------
(***************************************************************************)
(* Theorems about Robots, for any workers, hosts, rules, lifetime and      *)
(* timeout.                                                                *)
(***************************************************************************)
EXTENDS Robots, TLAPS

USE DEF sites, redis, locals

\* A step of one worker.
WorkerStep(w) == Ask(w) \/ Step(w) \/ Crash(w)

LEMMA OlderTyped ==
    ASSUME NEW t \in 0..Horizon
    PROVE  Older(t) \in 0..Horizon /\ t <= Older(t)
BY RobotsAssumption DEF Older, Horizon

\* Two ages grow together, and reach the horizon together.
LEMMA OlderMonotone ==
    ASSUME NEW t \in 0..Horizon, NEW s \in 0..Horizon, NEW d \in Nat, s <= t + d
    PROVE  Older(s) <= Older(t) + d
BY RobotsAssumption DEF Older, Horizon

(********************************** Types **********************************)

LEMMA InitTyped == Init => TypeOK
BY RobotsAssumption DEF Init, TypeOK, Labels, Horizon

LEMMA WorkerTyped ==
    ASSUME TypeOK, NEW w \in Workers, WorkerStep(w)
    PROVE  TypeOK'
<1> USE RobotsAssumption DEF TypeOK, Goto, Labels, Horizon
<1>1. CASE Ask(w) BY <1>1 DEF Ask
<1>2. CASE HGetAll(w) BY <1>2 DEF HGetAll, Hit, Miss
<1>3. CASE Fetch(w) BY <1>3 DEF Fetch, Answer
<1>4. CASE HSet(w) BY <1>4 DEF HSet, Write
<1>5. CASE Expire(w) BY <1>5 DEF Expire, LimitLife
<1>6. CASE Test(w) BY <1>6 DEF Test
<1>7. CASE Crash(w) BY <1>7 DEF Crash
<1>8. CASE ReadBody(w) BY <1>8 DEF ReadBody, Stamp
<1> QED BY <1>1, <1>2, <1>3, <1>4, <1>5, <1>6, <1>7, <1>8 DEF WorkerStep, Step

LEMMA ChangeTyped ==
    ASSUME TypeOK, NEW h \in Hosts, Change(h)
    PROVE  TypeOK'
BY RobotsAssumption DEF TypeOK, Change, Horizon

LEMMA TickTyped == TypeOK /\ Tick => TypeOK'
<1> SUFFICES ASSUME TypeOK, Tick PROVE TypeOK' OBVIOUS
<1> USE DEF TypeOK, Tick
<1>1. since' \in [Hosts -> 0..Horizon] /\ age' \in [Hosts -> 0..Horizon]
    BY OlderTyped
<1>2. taken' \in [Workers -> 0..Horizon] BY OlderTyped
<1>3. ttl' \in [Hosts -> 0..TTL] /\ \A h \in Hosts \ cached' : ttl'[h] = 0
    BY RobotsAssumption
<1> QED BY <1>1, <1>2, <1>3

LEMMA StutterTyped == TypeOK /\ UNCHANGED vars => TypeOK'
BY DEF TypeOK, vars

\* The types.
THEOREM TypeCorrect == Spec => []TypeOK
<1>1. TypeOK /\ [Next]_vars => TypeOK'
    BY WorkerTyped, ChangeTyped, TickTyped, StutterTyped DEF Next, WorkerStep
<1> QED BY <1>1, InitTyped, PTL DEF Spec

(******************************** Freshness ********************************)

\* Whoever holds rules that the site no longer gives got them before the site
\* changed: a worker that reads them no later than `taken`, and a worker that stamped
\* them, or Redis, no more than a timeout before the stamp.
Honest ==
    /\ \A h \in cached : rules[h] = site[h] \/ since[h] <= age[h] + Timeout
    /\ \A w \in Workers : pc[w] = "read" =>
         copy[w] = site[host[w]] \/ since[host[w]] <= taken[w]
    /\ \A w \in Workers : pc[w] = "hset" =>
         copy[w] = site[host[w]] \/ since[host[w]] <= taken[w] + Timeout

FInv == TypeOK /\ Honest

LEMMA WorkerKeepsHonest ==
    ASSUME FInv, NEW w \in Workers, WorkerStep(w)
    PROVE  FInv'
<1>1. TypeOK' BY WorkerTyped DEF FInv
<1> USE RobotsAssumption DEF FInv, TypeOK, Honest, Goto, Labels, Horizon
<1>2. SUFFICES Honest' BY <1>1
<1>3. CASE Ask(w) BY <1>3 DEF Ask
<1>4. CASE HGetAll(w) BY <1>4 DEF HGetAll, Hit, Miss
<1>5. CASE Fetch(w) BY <1>5 DEF Fetch, Answer
<1>6. CASE HSet(w) BY <1>6 DEF HSet, Write
<1>7. CASE Expire(w) BY <1>7 DEF Expire, LimitLife
<1>8. CASE Test(w) BY <1>8 DEF Test
<1>9. CASE Crash(w) BY <1>9 DEF Crash
<1>10. CASE ReadBody(w) BY <1>10 DEF ReadBody, Stamp
<1> QED BY <1>3, <1>4, <1>5, <1>6, <1>7, <1>8, <1>9, <1>10 DEF WorkerStep, Step

LEMMA OthersKeepHonest ==
    ASSUME FInv, Tick \/ (\E h \in Hosts : Change(h)) \/ UNCHANGED vars
    PROVE  FInv'
<1>1. TypeOK' BY TickTyped, ChangeTyped, StutterTyped DEF FInv
<1> USE RobotsAssumption DEF FInv, TypeOK, Honest
<1>2. CASE Tick
    <2>1. \A h \in cached' : rules'[h] = site'[h] \/ since'[h] <= age'[h] + Timeout
        BY <1>2, OlderMonotone DEF Tick
    <2>2. \A w \in Workers : pc'[w] = "read" =>
            copy'[w] = site'[host'[w]] \/ since'[host'[w]] <= taken'[w]
        <3> SUFFICES ASSUME NEW w \in Workers, pc[w] = "read", copy[w] # site[host[w]]
                     PROVE  Older(since[host[w]]) <= Older(taken[w])
            BY <1>2 DEF Tick
        <3>1. since[host[w]] \in 0..Horizon /\ taken[w] \in 0..Horizon
              /\ since[host[w]] <= taken[w] + 0
            OBVIOUS
        <3>2. Older(since[host[w]]) <= Older(taken[w]) + 0
            BY <3>1, OlderMonotone
        <3> QED BY <3>1, <3>2, OlderTyped DEF Horizon
    <2>3. \A w \in Workers : pc'[w] = "hset" =>
            copy'[w] = site'[host'[w]] \/ since'[host'[w]] <= taken'[w] + Timeout
        BY <1>2, OlderMonotone DEF Tick
    <2> QED BY <1>1, <2>1, <2>2, <2>3
<1>3. ASSUME NEW h \in Hosts, Change(h) PROVE FInv'
    BY <1>1, <1>3 DEF Change
<1>4. CASE UNCHANGED vars BY <1>1, <1>4 DEF vars
<1> QED BY <1>2, <1>3, <1>4

LEMMA HonestAlways == Spec => []FInv
<1>1. Init => FInv BY InitTyped DEF Init, FInv, Honest
<1>2. FInv /\ [Next]_vars => FInv'
    BY WorkerKeepsHonest, OthersKeepHonest DEF Next, WorkerStep
<1> QED BY <1>1, <1>2, PTL DEF Spec

\* A hit reads rules that are honest and younger than TTL.
LEMMA StepIsFresh ==
    ASSUME FInv, NEW w \in Workers, WorkerStep(w)
    PROVE  HitIsFresh
<1> USE RobotsAssumption DEF FInv, TypeOK, Honest, Goto, Labels, Horizon
<1> SUFFICES ASSUME NEW v \in Workers, pc[v] = "lookup", pc'[v] = "test"
             PROVE  copy'[v] = site[host[v]] \/ since[host[v]] < TTL + Timeout
    BY DEF HitIsFresh
<1>0. v = w
    BY DEF WorkerStep, Step, Ask, HGetAll, Hit, Miss, Fetch, Answer, ReadBody, Stamp, HSet,
           Expire, Test, Crash
<1>1. HGetAll(w) /\ Hit(w)
    BY <1>0 DEF WorkerStep, Step, Ask, HGetAll, Miss, Fetch, Answer, ReadBody,
           Stamp, HSet, Expire, Test, Crash
<1>2. copy'[v] = rules[host[v]] /\ host[v] \in cached /\ age[host[v]] < TTL
    BY <1>0, <1>1 DEF Hit
<1>3. copy'[v] = site[host[v]] \/ since[host[v]] <= age[host[v]] + Timeout
    BY <1>2
<1>4. age[host[v]] \in Nat /\ since[host[v]] \in Nat OBVIOUS
<1> QED BY <1>2, <1>3, <1>4

\* A hit is never behind the site by more than TTL and the time of one answer.
THEOREM RulesStayFresh == Spec => RulesAreFresh
<1>1. FInv /\ [Next]_vars => [HitIsFresh]_vars
    <2> SUFFICES ASSUME FInv, Next PROVE HitIsFresh OBVIOUS
    <2>1. CASE \E w \in Workers : WorkerStep(w) BY <2>1, StepIsFresh
    <2>2. CASE Tick \/ \E h \in Hosts : Change(h)
        BY <2>2 DEF Tick, Change, HitIsFresh
    <2> QED BY <2>1, <2>2 DEF Next, WorkerStep
<1> QED BY <1>1, HonestAlways, PTL DEF Spec, RulesAreFresh

(****************************** Ends of keys *******************************)

KInv == TypeOK /\ KeyHasEnd

LEMMA StepKeepsEnds ==
    ASSUME KInv, [Next]_vars
    PROVE  KInv'
<1>1. TypeOK'
    BY WorkerTyped, ChangeTyped, TickTyped, StutterTyped DEF KInv, Next, WorkerStep
<1> USE RobotsAssumption DEF KInv, TypeOK, KeyHasEnd, Goto, Labels
<1>2. SUFFICES KeyHasEnd' BY <1>1
<1>3. ASSUME NEW w \in Workers, Ask(w) PROVE KeyHasEnd' BY <1>3 DEF Ask
<1>4. ASSUME NEW w \in Workers, HGetAll(w) PROVE KeyHasEnd'
    BY <1>4 DEF HGetAll, Hit, Miss
<1>5. ASSUME NEW w \in Workers, Fetch(w) PROVE KeyHasEnd'
    BY <1>5 DEF Fetch, Answer
<1>6. ASSUME NEW w \in Workers, HSet(w) PROVE KeyHasEnd'
    BY <1>6 DEF HSet, Write
<1>7. ASSUME NEW w \in Workers, Expire(w) PROVE KeyHasEnd'
    BY <1>7 DEF Expire, LimitLife
<1>8. ASSUME NEW w \in Workers, Test(w) PROVE KeyHasEnd' BY <1>8 DEF Test
<1>9. ASSUME NEW w \in Workers, Crash(w) PROVE KeyHasEnd' BY <1>9 DEF Crash
<1>10. ASSUME NEW h \in Hosts, Change(h) PROVE KeyHasEnd' BY <1>10 DEF Change
<1>11. CASE Tick BY <1>11 DEF Tick
<1>12. CASE UNCHANGED vars BY <1>12 DEF vars
<1>13. ASSUME NEW w \in Workers, ReadBody(w) PROVE KeyHasEnd'
    BY <1>13 DEF ReadBody, Stamp
<1> QED
    BY <1>3, <1>4, <1>5, <1>6, <1>7, <1>8, <1>9, <1>10, <1>11, <1>12, <1>13
       DEF Next, Step

\* A key without an end gets one, unless a fault prevents it.
THEOREM KeysHaveEnds == Spec => []KeyHasEnd
<1>1. Init => KInv BY InitTyped DEF Init, KInv, KeyHasEnd
<1>2. KInv => KeyHasEnd BY DEF KInv
<1> QED BY <1>1, <1>2, StepKeepsEnds, PTL DEF Spec
=============================================================================
