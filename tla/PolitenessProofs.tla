-------------------------- MODULE PolitenessProofs --------------------------
(***************************************************************************)
(* For every finite set of workers, every set of hosts, every delay and    *)
(* every bound on the clock: of a worker's requests to a host, the one     *)
(* N + 1 later is a full delay later, N being the number of workers.       *)
(*                                                                         *)
(* The argument counts, for a request made at time t, what may still let   *)
(* the same worker request the same host before t + Delay: a request it    *)
(* is about to make, a last_fetch older than t, and for each other worker  *)
(* that read the clock before t one Touch that makes last_fetch old again. *)
(***************************************************************************)
EXTENDS Politeness, TLAPS, FiniteSetTheorems

\* No request is later than the clock.
FetchesArePast ==
    \A w \in Workers, h \in Hosts : \A i \in DOMAIN fetches[w][h] : fetches[w][h][i] <= clock

\* The clock that the worker read lies between its own requests and the present.
NowIsRecent(w) ==
    pc[w] # "idle" =>
      /\ now[w] <= clock
      /\ \A h \in Hosts : \A i \in DOMAIN fetches[w][h] : fetches[w][h][i] <= now[w]

\* The others that may yet store a last_fetch older than t.
Late(w, t) == {v \in Workers \ {w} :
                 pc[v] \in {"scan", "compare", "pop", "touch"} /\ now[v] < t}

\* w requests h next.
Decided(w, h) == pc[w] = "fetch" /\ host[w] = h

\* w finds, or has found, a last_fetch of h older than t.
FindsOlder(w, h, t) ==
    \/ last[h] < t
    \/ pc[w] \in {"compare", "pop", "touch"} /\ host[w] = h /\ read[w] < t

OneIf(b) == IF b THEN 1 ELSE 0

\* How many requests w may yet make to h before a delay after its request at t.
Chances(w, h, t) ==
    Cardinality(Late(w, t)) + OneIf(Decided(w, h)) + OneIf(FindsOlder(w, h, t))

\* They and the requests made since that one are no more than the workers.
ChancesAreFew(w, h) ==
    \A i \in DOMAIN fetches[w][h] :
      clock < fetches[w][h][i] + Delay =>
        (Len(fetches[w][h]) - i) + Chances(w, h, fetches[w][h][i]) <= NumWorkers

IInv ==
    /\ TypeOK
    /\ FetchesArePast
    /\ \A w \in Workers : NowIsRecent(w)
    /\ \A w \in Workers, h \in Hosts \ untouched : ChancesAreFew(w, h)
    /\ KeepsItsRate
-----------------------------------------------------------------------------
(* The history of a worker and a host: what one more request makes of it. *)

\* r is s with e at its end, and perhaps without its first element.
Extended(r, s, e) ==
    \E d \in {0, 1} :
      /\ Len(r) = Len(s) + 1 - d
      /\ r[Len(r)] = e
      /\ \A i \in 1..(Len(r) - 1) : i + d \in DOMAIN s /\ r[i] = s[i + d]

LEMMA WorkersCounted == NumWorkers \in Nat
BY PolitenessAssumption, FS_CardinalityType DEF NumWorkers

LEMMA LatestAppend ==
    ASSUME NEW s \in Seq(Times), Len(s) <= NumWorkers + 2, NEW e \in Times,
           NEW r, r = Latest(Append(s, e))
    PROVE  r \in Seq(Times) /\ Len(r) <= NumWorkers + 2 /\ Extended(r, s, e)
<1> DEFINE a == Append(s, e)
           n == Len(s)
           m == NumWorkers
<1>0. m \in Nat
  BY WorkersCounted
<1>1. n \in Nat /\ a \in Seq(Times) /\ Len(a) = n + 1 /\ a[n + 1] = e
      /\ DOMAIN s = 1..n /\ \A i \in 1..n : a[i] = s[i]
  OBVIOUS
<1>2. CASE Len(a) <= m + 2
  <2>1. r = a
    BY <1>2 DEF Latest
  <2> HIDE DEF a, m
  <2>2. \A i \in 1..(Len(r) - 1) : i + 0 \in DOMAIN s /\ r[i] = s[i + 0]
    BY <1>1, <2>1
  <2>3. Len(r) = n + 1 - 0 /\ r[Len(r)] = e
    BY <1>1, <2>1
  <2>4. Extended(r, s, e)
    BY <2>2, <2>3 DEF Extended, n
  <2> QED BY <1>1, <1>2, <2>1, <2>4 DEF m
<1>3. CASE ~ (Len(a) <= m + 2)
  <2>1. r = Tail(a)
    BY <1>3 DEF Latest
  <2>2. r \in Seq(Times) /\ Len(r) = Len(a) - 1 /\ \A i \in 1..(Len(a) - 1) : r[i] = a[i + 1]
    BY <1>0, <1>1, <1>3, <2>1
  <2>3. n = m + 2
    <3>1. n \in Nat /\ n <= m + 2 /\ Len(a) = n + 1
      BY <1>1
    <3> HIDE DEF a, n, m
    <3> QED BY <1>0, <1>3, <3>1
  <2> HIDE DEF a, m
  <2>4. Len(r) = n + 1 - 1 /\ r[Len(r)] = e
    BY <1>0, <1>1, <2>2, <2>3
  <2>5. \A i \in 1..(Len(r) - 1) : i + 1 \in DOMAIN s /\ r[i] = s[i + 1]
    BY <1>1, <2>2
  <2>6. Extended(r, s, e)
    BY <2>4, <2>5 DEF Extended, n
  <2>7. Len(r) <= m + 2
    BY <1>0, <1>1, <2>2, <2>3
  <2> QED BY <2>2, <2>6, <2>7 DEF m
<1> QED BY <1>2, <1>3

-----------------------------------------------------------------------------
(* Types *)

LEMMA TypeInit == Init => TypeOK
BY PolitenessAssumption, WorkersCounted DEF Init, TypeOK, Times, Maybe, Never, PastIsReady

LEMMA TypeStep == TypeOK /\ [Next]_vars => TypeOK'
<1> SUFFICES ASSUME TypeOK, [Next]_vars PROVE TypeOK'
  OBVIOUS
<1> USE PolitenessAssumption DEF TypeOK, Times, Maybe, Never, PastIsReady, Goto, Return
<1>1. CASE Tick
  BY <1>1 DEF Tick
<1>2. ASSUME NEW w \in Workers, StartScan(w) PROVE TypeOK'
  BY <1>2 DEF StartScan
<1>3. ASSUME NEW w \in Workers, ReadLastFetch(w) PROVE TypeOK'
  BY <1>3 DEF ReadLastFetch
<1>4. ASSUME NEW w \in Workers, Compare(w) PROVE TypeOK'
  BY <1>4 DEF Compare
<1>5. ASSUME NEW w \in Workers, SkipHost(w) PROVE TypeOK'
  BY <1>5 DEF SkipHost
<1>6. ASSUME NEW w \in Workers, EndScan(w) PROVE TypeOK'
  BY <1>6 DEF EndScan
<1>7. ASSUME NEW w \in Workers, RPop(w) PROVE TypeOK'
  BY <1>7 DEF RPop
<1>8. ASSUME NEW w \in Workers, Touch(w) PROVE TypeOK'
  BY <1>8 DEF Touch
<1>9. ASSUME NEW w \in Workers, TouchFails(w) PROVE TypeOK'
  BY <1>9 DEF TouchFails
<1>10. ASSUME NEW w \in Workers, Fetch(w) PROVE TypeOK'
  <2>1. CASE UNCHANGED fetches
    BY <1>10, <2>1 DEF Fetch
  <2>2. CASE fetches' = [fetches EXCEPT ![w][host[w]] = Latest(Append(@, clock))]
    <3> DEFINE s == fetches[w][host[w]]
               f == Latest(Append(s, clock))
    <3> HIDE DEF Times
    <3>0. s \in Seq(Times) /\ Len(s) <= NumWorkers + 2 /\ clock \in Times
      OBVIOUS
    <3> HIDE DEF TypeOK, s
    <3>1. f \in Seq(Times) /\ Len(f) <= NumWorkers + 2
      BY <3>0, LatestAppend, Zenon
    <3> HIDE DEF f
    <3>2. fetches' = [fetches EXCEPT ![w] = [fetches[w] EXCEPT ![host[w]] = f]]
      BY <2>2 DEF f, s
    <3>3. fetches' \in [Workers -> [Hosts -> Seq(Times)]]
      BY <3>1, <3>2 DEF TypeOK
    <3>4. ASSUME NEW v \in Workers, NEW h \in Hosts PROVE Len(fetches'[v][h]) <= NumWorkers + 2
      <4>1. fetches'[v][h] = IF v = w /\ h = host[w] THEN f ELSE fetches[v][h]
        BY <3>2 DEF TypeOK
      <4> QED BY <3>1, <4>1 DEF TypeOK
    <3>5. /\ clock' = clock /\ last' = last /\ host' = host /\ untouched' = untouched
          /\ pc' \in [Workers -> {"idle", "scan", "compare", "pop", "touch", "fetch"}]
          /\ now' \in [Workers -> Times]
          /\ read' \in [Workers -> Maybe]
          /\ \A v \in Workers : PastIsReady(v)'
      BY <1>10 DEF Fetch, TypeOK, Times
    <3> QED BY <3>3, <3>4, <3>5 DEF TypeOK
  <2> QED BY <1>10, <2>1, <2>2 DEF Fetch
<1>11. ASSUME NEW w \in Workers, Restart(w) PROVE TypeOK'
  BY <1>11 DEF Restart
<1>12. CASE UNCHANGED vars
  BY <1>12 DEF vars
<1> QED
  BY <1>1, <1>2, <1>3, <1>4, <1>5, <1>6, <1>7, <1>8, <1>9, <1>10, <1>11, <1>12 DEF Next

\* The types, and that whoever passed IsReady read a last_fetch that is a full
\* delay old (IsReady, NextURL), for any number of workers.
THEOREM TypeCorrect == Spec => []TypeOK
BY TypeInit, TypeStep, PTL DEF Spec
-----------------------------------------------------------------------------
(* Counting chances *)

LEMMA LateIsFinite ==
    ASSUME NEW w \in Workers, NEW t
    PROVE  /\ IsFiniteSet(Late(w, t)) /\ Cardinality(Late(w, t)) \in Nat
           /\ Cardinality(Late(w, t)) <= NumWorkers - 1
<1>1. IsFiniteSet(Workers \ {w}) /\ Cardinality(Workers \ {w}) = NumWorkers - 1
  BY PolitenessAssumption, FS_RemoveElement DEF NumWorkers
<1>2. Late(w, t) \subseteq Workers \ {w}
  BY DEF Late
<1> QED BY <1>1, <1>2, FS_Subset, FS_CardinalityType

LEMMA LateIsFinitePrime ==
    ASSUME NEW w \in Workers, NEW t
    PROVE  /\ IsFiniteSet(Late(w, t)') /\ Cardinality(Late(w, t)') \in Nat
           /\ Cardinality(Late(w, t)') <= NumWorkers - 1
<1>1. IsFiniteSet(Workers \ {w}) /\ Cardinality(Workers \ {w}) = NumWorkers - 1
  BY PolitenessAssumption, FS_RemoveElement DEF NumWorkers
<1>2. Late(w, t)' \subseteq Workers \ {w}
  BY DEF Late
<1> QED BY <1>1, <1>2, FS_Subset, FS_CardinalityType

\* Nobody becomes late, and w comes no nearer to a request: no chance is added.
LEMMA ChancesStay ==
    ASSUME NEW w \in Workers, NEW h, NEW t,
           Late(w, t)' \subseteq Late(w, t),
           Decided(w, h)' => Decided(w, h),
           FindsOlder(w, h, t)' => FindsOlder(w, h, t)
    PROVE  Chances(w, h, t)' <= Chances(w, h, t)
<1>1. Cardinality(Late(w, t)') <= Cardinality(Late(w, t))
  BY LateIsFinite, FS_Subset
<1>2. Cardinality(Late(w, t)') \in Nat /\ Cardinality(Late(w, t)) \in Nat
  BY LateIsFinite, LateIsFinitePrime
<1> QED BY <1>1, <1>2 DEF Chances, OneIf

\* A late worker v spends its chance on making last_fetch old for w.
LEMMA ChanceIsSpent ==
    ASSUME NEW w \in Workers, NEW h, NEW t, NEW v \in Late(w, t),
           Late(w, t)' \subseteq Late(w, t) \ {v},
           Decided(w, h)' => Decided(w, h)
    PROVE  Chances(w, h, t)' <= Chances(w, h, t)
<1>0. IsFiniteSet(Late(w, t) \ {v}) /\ Cardinality(Late(w, t) \ {v}) = Cardinality(Late(w, t)) - 1
  BY LateIsFinite, FS_RemoveElement
<1>1. Cardinality(Late(w, t)') <= Cardinality(Late(w, t)) - 1
  BY <1>0, FS_Subset
<1>2. Cardinality(Late(w, t)') \in Nat /\ Cardinality(Late(w, t)) \in Nat
  BY LateIsFinite, LateIsFinitePrime
<1> QED BY <1>1, <1>2 DEF Chances, OneIf

\* w itself turns a chance it had found into a request to come.
LEMMA ChanceIsTaken ==
    ASSUME NEW w \in Workers, NEW h, NEW t,
           Late(w, t)' \subseteq Late(w, t),
           FindsOlder(w, h, t), ~ Decided(w, h), ~ FindsOlder(w, h, t)'
    PROVE  Chances(w, h, t)' <= Chances(w, h, t)
<1>1. Cardinality(Late(w, t)') <= Cardinality(Late(w, t))
  BY LateIsFinite, FS_Subset
<1>2. Cardinality(Late(w, t)') \in Nat /\ Cardinality(Late(w, t)) \in Nat
  BY LateIsFinite, LateIsFinitePrime
<1> QED BY <1>1, <1>2 DEF Chances, OneIf

LEMMA ChancesCounted ==
    ASSUME NEW w \in Workers, NEW h, NEW t
    PROVE  /\ Chances(w, h, t) \in Nat /\ Chances(w, h, t)' \in Nat
           /\ Decided(w, h) => Chances(w, h, t) >= 1
           /\ ~ Decided(w, h)' => Chances(w, h, t)' <= NumWorkers
<1>1. Cardinality(Late(w, t)) \in Nat /\ Cardinality(Late(w, t)') \in Nat
      /\ Cardinality(Late(w, t)') <= NumWorkers - 1
  BY LateIsFinite, LateIsFinitePrime
<1> QED BY <1>1, WorkersCounted DEF Chances, OneIf
-----------------------------------------------------------------------------
(* The steps *)

\* What makes the chances of no request more, and requests nothing, keeps IInv.
LEMMA Quiet ==
    ASSUME IInv, TypeOK', UNCHANGED fetches, clock' >= clock, untouched \subseteq untouched',
           \A w \in Workers : NowIsRecent(w)',
           \A w \in Workers, h \in Hosts \ untouched', t \in Times :
             (\E i \in DOMAIN fetches[w][h] : fetches[w][h][i] = t) /\ clock' < t + Delay =>
               Chances(w, h, t)' <= Chances(w, h, t)
    PROVE  IInv'
<1>0. TypeOK /\ clock \in Int /\ clock' \in Int /\ Delay \in Int /\ NumWorkers \in Nat
  BY PolitenessAssumption, WorkersCounted DEF IInv, TypeOK, Times
<1>1. \A w \in Workers, h \in Hosts : \A i \in DOMAIN fetches[w][h] :
        fetches[w][h][i] \in Times /\ fetches[w][h][i] \in Int
        /\ i \in Int /\ Len(fetches[w][h]) \in Nat
  BY <1>0, PolitenessAssumption DEF TypeOK, Times
<1>2. FetchesArePast'
  BY <1>0, <1>1 DEF IInv, FetchesArePast
<1>3. ASSUME NEW w \in Workers, NEW h \in Hosts \ untouched' PROVE ChancesAreFew(w, h)'
  <2> SUFFICES ASSUME NEW i \in DOMAIN fetches[w][h], clock' < fetches[w][h][i] + Delay,
                      NEW t, t = fetches[w][h][i]
               PROVE  (Len(fetches[w][h]) - i) + Chances(w, h, t)' <= NumWorkers
    BY DEF ChancesAreFew, Chances, FindsOlder, Late
  <2>1. Chances(w, h, t)' <= Chances(w, h, t)
    BY <1>1
  <2>2. clock < t + Delay
    BY <1>0, <1>1
  <2>3. (Len(fetches[w][h]) - i) + Chances(w, h, t) <= NumWorkers
    BY <2>2 DEF IInv, ChancesAreFew
  <2>4. Chances(w, h, t) \in Nat /\ Chances(w, h, t)' \in Nat
    BY ChancesCounted
  <2>5. i \in Int /\ Len(fetches[w][h]) \in Nat
    BY <1>1
  <2>6. NumWorkers \in Nat
    BY <1>0
  <2> QED BY <2>1, <2>3, <2>4, <2>5, <2>6
<1>4. KeepsItsRate'
  BY DEF IInv, KeepsItsRate
<1> QED BY <1>2, <1>3, <1>4 DEF IInv

\* Who moves to another place in its code without reading or writing anything.
LEMMA MovesOn ==
    ASSUME IInv, TypeOK', NEW v \in Workers, NEW label, Goto(v, label),
           UNCHANGED <<clock, last, host, untouched, fetches>>,
           \/ UNCHANGED <<now, read>> /\ pc[v] # "idle" /\ label \in {"scan", "pop", "touch"}
              /\ (label # "scan" => pc[v] \in {"compare", "pop"})
              /\ pc[v] \in {"compare", "pop"}
           \/ label = "idle" /\ Return(v)
    PROVE  IInv'
<1>0. TypeOK /\ clock \in Int /\ \A w \in Workers :
        pc'[w] = IF w = v THEN label ELSE pc[w]
  BY PolitenessAssumption DEF IInv, TypeOK, Times, Goto
<1>1. \A w \in Workers : w # v => now'[w] = now[w] /\ read'[w] = read[w]
  BY <1>0 DEF Return, TypeOK
<1>2. \A w \in Workers : NowIsRecent(w)'
  BY <1>0, <1>1 DEF IInv, NowIsRecent
<1>3. ASSUME NEW w \in Workers, NEW h \in Hosts, NEW t
      PROVE  Chances(w, h, t)' <= Chances(w, h, t)
  <2>1. Late(w, t)' \subseteq Late(w, t)
    BY <1>0, <1>1 DEF Late
  <2>2. Decided(w, h)' => Decided(w, h)
    BY <1>0 DEF Decided
  <2>3. FindsOlder(w, h, t)' => FindsOlder(w, h, t)
    BY <1>0, <1>1 DEF FindsOlder
  <2> QED BY <2>1, <2>2, <2>3, ChancesStay
<1> QED BY <1>0, <1>2, <1>3, Quiet

LEMMA TickStep == ASSUME IInv, TypeOK', Tick PROVE IInv'
<1>0. TypeOK /\ clock' >= clock /\ clock \in Int /\ clock' \in Int
      /\ UNCHANGED <<last, pc, now, host, read, untouched, fetches>>
  BY PolitenessAssumption DEF IInv, TypeOK, Times, Tick
<1>1. \A w \in Workers : NowIsRecent(w)'
  BY <1>0, PolitenessAssumption DEF IInv, NowIsRecent, TypeOK, Times
<1>2. ASSUME NEW w \in Workers, NEW h \in Hosts, NEW t
      PROVE  Chances(w, h, t)' <= Chances(w, h, t)
  BY <1>0, ChancesStay DEF Late, Decided, FindsOlder
<1> QED BY <1>0, <1>1, <1>2, Quiet

\* A worker that reads the clock now is late for no request made before.
LEMMA StartScanStep ==
    ASSUME IInv, TypeOK', NEW v \in Workers, StartScan(v) PROVE IInv'
<1>0. /\ TypeOK /\ clock \in Int /\ pc[v] = "idle"
      /\ UNCHANGED <<clock, last, host, read, untouched, fetches>>
      /\ \A w \in Workers : /\ pc'[w] = IF w = v THEN "scan" ELSE pc[w]
                            /\ now'[w] = IF w = v THEN clock ELSE now[w]
  BY PolitenessAssumption DEF IInv, TypeOK, Times, StartScan, Goto
<1>1. \A w \in Workers : NowIsRecent(w)'
  BY <1>0 DEF IInv, NowIsRecent, FetchesArePast
<1>2. ASSUME NEW w \in Workers, NEW h \in Hosts, NEW t \in Times,
             \E i \in DOMAIN fetches[w][h] : fetches[w][h][i] = t
      PROVE  Chances(w, h, t)' <= Chances(w, h, t)
  <2>1. clock >= t /\ t \in Int
    BY <1>2, PolitenessAssumption DEF IInv, FetchesArePast, Times
  <2>2. Late(w, t)' \subseteq Late(w, t)
    BY <1>0, <2>1 DEF Late
  <2>3. Decided(w, h)' => Decided(w, h)
    BY <1>0 DEF Decided
  <2>4. FindsOlder(w, h, t)' => FindsOlder(w, h, t)
    BY <1>0 DEF FindsOlder
  <2> QED BY <2>2, <2>3, <2>4, ChancesStay
<1> QED BY <1>0, <1>1, <1>2, Quiet

\* What IsReady reads older than t is older than t in Redis.
LEMMA ReadLastFetchStep ==
    ASSUME IInv, TypeOK', NEW v \in Workers, ReadLastFetch(v) PROVE IInv'
<1>0. /\ TypeOK /\ clock \in Int /\ pc[v] = "scan"
      /\ UNCHANGED <<clock, last, now, untouched, fetches>>
      /\ \A w \in Workers : pc'[w] = IF w = v THEN "compare" ELSE pc[w]
      /\ \A w \in Workers : w # v => host'[w] = host[w] /\ read'[w] = read[w]
      /\ read'[v] = last[host'[v]]
  BY PolitenessAssumption DEF IInv, TypeOK, Times, ReadLastFetch, Goto
<1>1. \A w \in Workers : NowIsRecent(w)'
  BY <1>0 DEF IInv, NowIsRecent
<1>2. ASSUME NEW w \in Workers, NEW h \in Hosts, NEW t
      PROVE  Chances(w, h, t)' <= Chances(w, h, t)
  <2>1. Late(w, t)' \subseteq Late(w, t)
    BY <1>0 DEF Late
  <2>2. Decided(w, h)' => Decided(w, h)
    BY <1>0 DEF Decided
  <2>3. FindsOlder(w, h, t)' => FindsOlder(w, h, t)
    BY <1>0 DEF FindsOlder
  <2> QED BY <2>1, <2>2, <2>3, ChancesStay
<1> QED BY <1>0, <1>1, <1>2, Quiet

\* Touch by v: for v itself a chance becomes a request, for the others v was late
\* and is so no more, or last_fetch becomes no older than t.
LEMMA TouchStep ==
    ASSUME IInv, TypeOK', NEW v \in Workers, Touch(v) PROVE IInv'
<1>0. /\ TypeOK /\ clock \in Int /\ pc[v] = "touch" /\ host[v] \in Hosts
      /\ UNCHANGED <<clock, now, host, read, untouched, fetches>>
      /\ \A w \in Workers : pc'[w] = IF w = v THEN "fetch" ELSE pc[w]
      /\ \A h \in Hosts : last'[h] = IF h = host[v] THEN now[v] ELSE last[h]
      /\ now[v] \in Int /\ read[v] \in Int
  BY PolitenessAssumption DEF IInv, TypeOK, Times, Maybe, Never, Touch, Goto
<1>1. \A w \in Workers : NowIsRecent(w)'
  BY <1>0 DEF IInv, NowIsRecent
<1>2. ASSUME NEW w \in Workers, NEW h \in Hosts \ untouched, NEW t \in Times,
             \E i \in DOMAIN fetches[w][h] : fetches[w][h][i] = t, clock < t + Delay
      PROVE  Chances(w, h, t)' <= Chances(w, h, t)
  <2>0. t \in Int /\ t >= 0 /\ Delay \in Int
    BY PolitenessAssumption DEF Times
  <2>1. Late(w, t)' \subseteq Late(w, t) \ {v}
    BY <1>0 DEF Late
  <2>2. CASE h # host[v]
    <3>1. Decided(w, h)' => Decided(w, h)
      BY <1>0, <2>2 DEF Decided
    <3>2. FindsOlder(w, h, t)' => FindsOlder(w, h, t)
      BY <1>0, <2>2 DEF FindsOlder
    <3> QED BY <2>1, <3>1, <3>2, ChancesStay
  <2>3. CASE h = host[v] /\ w = v
    <3>1. now[v] >= t
      BY <1>0, <1>2, <2>3 DEF IInv, NowIsRecent
    <3>2. ~ FindsOlder(w, h, t)'
      BY <1>0, <2>0, <2>3, <3>1 DEF FindsOlder
    <3>3. read[v] < t
      <4>1. PastIsReady(v)
        BY <1>0 DEF TypeOK
      <4>2. read[v] = -1 \/ clock >= read[v] + Delay
        BY <1>0, <4>1 DEF PastIsReady, Never
      <4> QED BY <1>0, <1>2, <2>0, <4>2
    <3>4. FindsOlder(w, h, t) /\ ~ Decided(w, h)
      BY <1>0, <2>3, <3>3 DEF FindsOlder, Decided
    <3> QED BY <2>1, <3>2, <3>4, ChanceIsTaken
  <2>4. CASE h = host[v] /\ w # v
    <3>1. Decided(w, h)' => Decided(w, h)
      BY <1>0, <2>4 DEF Decided
    <3>2. CASE now[v] < t
      <4>1. v \in Late(w, t)
        BY <1>0, <2>4, <3>2 DEF Late
      <4> QED BY <2>1, <3>1, <4>1, ChanceIsSpent
    <3>3. CASE now[v] >= t
      <4>1. FindsOlder(w, h, t)' => FindsOlder(w, h, t)
        BY <1>0, <2>0, <2>4, <3>3 DEF FindsOlder
      <4> QED BY <2>1, <3>1, <4>1, ChancesStay
    <3> QED BY <1>0, <2>0, <3>2, <3>3
  <2> QED BY <2>2, <2>3, <2>4
<1> QED BY <1>0, <1>1, <1>2, Quiet

\* A failed Touch takes its host out of what is promised.
LEMMA TouchFailsStep ==
    ASSUME IInv, TypeOK', NEW v \in Workers, TouchFails(v) PROVE IInv'
<1>0. /\ TypeOK /\ clock \in Int /\ pc[v] = "touch" /\ host[v] \in Hosts
      /\ UNCHANGED <<clock, last, now, host, read, fetches>>
      /\ untouched' = untouched \cup {host[v]}
      /\ \A w \in Workers : pc'[w] = IF w = v THEN "fetch" ELSE pc[w]
  BY PolitenessAssumption DEF IInv, TypeOK, Times, TouchFails, Goto
<1>1. \A w \in Workers : NowIsRecent(w)'
  BY <1>0 DEF IInv, NowIsRecent
<1>2. ASSUME NEW w \in Workers, NEW h \in Hosts \ untouched', NEW t
      PROVE  Chances(w, h, t)' <= Chances(w, h, t)
  <2>1. Late(w, t)' \subseteq Late(w, t)
    BY <1>0 DEF Late
  <2>2. Decided(w, h)' => Decided(w, h)
    BY <1>0 DEF Decided
  <2>3. FindsOlder(w, h, t)' => FindsOlder(w, h, t)
    BY <1>0 DEF FindsOlder
  <2> QED BY <2>1, <2>2, <2>3, ChancesStay
<1> QED BY <1>0, <1>1, <1>2, Quiet

\* A request by v to h uses up the chance it was; of the new request, which is
\* made now, at most the others are late, and last_fetch is at most once found older.
LEMMA RequestStep ==
    ASSUME IInv, TypeOK', NEW v \in Workers, pc[v] = "fetch", Return(v),
           UNCHANGED <<clock, last, host, untouched>>,
           NEW k, k = host[v],
           NEW r, r = Latest(Append(fetches[v][k], clock)),
           fetches' = [fetches EXCEPT ![v][k] = r]
    PROVE  IInv'
<1> DEFINE s == fetches[v][k]
<1>0. /\ TypeOK /\ clock \in Times /\ clock \in Int /\ Delay \in Int /\ NumWorkers \in Nat
      /\ k \in Hosts /\ s \in Seq(Times) /\ Len(s) <= NumWorkers + 2
      /\ \A w \in Workers : pc'[w] = IF w = v THEN "idle" ELSE pc[w]
      /\ \A w \in Workers : w # v => now'[w] = now[w] /\ read'[w] = read[w]
      /\ \A w \in Workers, h \in Hosts :
           fetches'[w][h] = IF w = v /\ h = k THEN r ELSE fetches[w][h]
  BY PolitenessAssumption, WorkersCounted DEF IInv, TypeOK, Times, Return, Goto
<1>1. r \in Seq(Times) /\ Len(r) <= NumWorkers + 2 /\ Extended(r, s, clock)
  BY <1>0, LatestAppend, Zenon
<1>2. PICK d \in {0, 1} :
        /\ Len(r) = Len(s) + 1 - d
        /\ r[Len(r)] = clock
        /\ \A i \in 1..(Len(r) - 1) : i + d \in DOMAIN s /\ r[i] = s[i + d]
  BY <1>1 DEF Extended
<1> HIDE DEF s
<1>3. /\ Len(s) \in Nat /\ Len(r) \in Nat /\ DOMAIN r = 1..Len(r) /\ DOMAIN s = 1..Len(s)
      /\ \A i \in DOMAIN s : s[i] \in Times /\ s[i] \in Int /\ s[i] <= clock
      /\ \A i \in DOMAIN r : i = Len(r) \/ i \in 1..(Len(r) - 1)
  <2>1. Len(s) \in Nat /\ Len(r) \in Nat /\ DOMAIN r = 1..Len(r) /\ DOMAIN s = 1..Len(s)
    BY <1>0, <1>1
  <2>2. \A i \in DOMAIN s : s[i] \in Times
    BY <1>0, <2>1
  <2>3. \A i \in DOMAIN s : s[i] \in Int
    BY <2>2, PolitenessAssumption DEF Times
  <2>4. \A i \in DOMAIN s : s[i] <= clock
    BY <1>0 DEF IInv, FetchesArePast, s
  <2>5. \A i \in DOMAIN r : i = Len(r) \/ i \in 1..(Len(r) - 1)
    BY <2>1
  <2> QED BY <2>1, <2>2, <2>3, <2>4, <2>5
<1>4. \A w \in Workers : NowIsRecent(w)'
  BY <1>0 DEF IInv, NowIsRecent
<1>5. FetchesArePast'
  <2>1. \A i \in DOMAIN r : r[i] <= clock
    BY <1>0, <1>2, <1>3
  <2> QED BY <1>0, <2>1 DEF IInv, FetchesArePast
<1>6. ASSUME NEW w \in Workers, NEW h \in Hosts, NEW t
      PROVE  Late(w, t)' \subseteq Late(w, t) /\ (Decided(w, h)' => Decided(w, h))
             /\ (FindsOlder(w, h, t)' => FindsOlder(w, h, t))
  BY <1>0 DEF Late, Decided, FindsOlder
<1>7. Decided(v, k) /\ ~ Decided(v, k)'
  BY <1>0 DEF Decided
\* v requests k now, so its chances are one fewer.
<1>8. ASSUME NEW t PROVE Chances(v, k, t)' <= Chances(v, k, t) - 1
  <2>1. Cardinality(Late(v, t)') <= Cardinality(Late(v, t))
    BY <1>0, <1>6, LateIsFinite, FS_Subset
  <2>2. Cardinality(Late(v, t)') \in Nat /\ Cardinality(Late(v, t)) \in Nat
    BY LateIsFinite, LateIsFinitePrime
  <2>3. FindsOlder(v, k, t)' => FindsOlder(v, k, t)
    BY <1>0, <1>6
  <2> QED BY <1>7, <2>1, <2>2, <2>3 DEF Chances, OneIf
\* What IInv says of the earlier requests of v to k.
<1>9. ASSUME k \notin untouched, NEW j \in DOMAIN s, clock < s[j] + Delay
      PROVE  (Len(s) - j) + Chances(v, k, s[j]) <= NumWorkers
  BY <1>0, <1>9 DEF IInv, ChancesAreFew, s
<1>10. ASSUME k \notin untouched PROVE ChancesAreFew(v, k)'
  <2> SUFFICES ASSUME NEW i \in DOMAIN r, clock < r[i] + Delay, NEW t, t = r[i]
               PROVE  (Len(r) - i) + Chances(v, k, t)' <= NumWorkers
    <3>1. fetches'[v][k] = r /\ clock' = clock
      BY <1>0
    <3> QED BY <3>1, Zenon DEF ChancesAreFew, Chances, Decided, FindsOlder, Late
  <2>0. i \in Int /\ d \in Int
    BY <1>2, <1>3
  <2>1. CASE i = Len(r)
    <3>1. Chances(v, k, t)' \in Nat /\ Chances(v, k, t)' <= NumWorkers
      BY <1>7, ChancesCounted
    <3> QED BY <1>0, <1>3, <2>1, <3>1
  <2>2. CASE i \in 1..(Len(r) - 1)
    <3>1. i + d \in DOMAIN s /\ t = s[i + d]
      BY <1>2, <2>2
    <3>2. (Len(s) - (i + d)) + Chances(v, k, t) <= NumWorkers
      BY <1>9, <1>10, <3>1
    <3>3. Chances(v, k, t)' <= Chances(v, k, t) - 1
      BY <1>8
    <3>4. Chances(v, k, t)' \in Nat /\ Chances(v, k, t) \in Nat
      BY ChancesCounted
    <3> QED BY <1>0, <1>2, <1>3, <2>0, <3>2, <3>3, <3>4
  <2> QED BY <1>3, <2>1, <2>2
<1>11. ASSUME NEW w \in Workers, NEW h \in Hosts \ untouched, ~ (w = v /\ h = k)
       PROVE  ChancesAreFew(w, h)'
  <2> SUFFICES ASSUME NEW i \in DOMAIN fetches[w][h], clock < fetches[w][h][i] + Delay,
                      NEW t, t = fetches[w][h][i]
               PROVE  (Len(fetches[w][h]) - i) + Chances(w, h, t)' <= NumWorkers
    <3>1. fetches'[w][h] = fetches[w][h] /\ clock' = clock
      BY <1>0, <1>11
    <3> QED BY <3>1, Zenon DEF ChancesAreFew, Chances, Decided, FindsOlder, Late
  <2>1. Chances(w, h, t)' <= Chances(w, h, t)
    BY <1>6, ChancesStay
  <2>2. (Len(fetches[w][h]) - i) + Chances(w, h, t) <= NumWorkers
    BY DEF IInv, ChancesAreFew
  <2>3. Chances(w, h, t) \in Nat /\ Chances(w, h, t)' \in Nat
    BY ChancesCounted
  <2>4. i \in Int /\ Len(fetches[w][h]) \in Int
    BY <1>0 DEF TypeOK
  <2> QED BY <1>0, <2>1, <2>2, <2>3, <2>4
<1>12. ASSUME k \notin untouched, NEW i \in DOMAIN r, i + NumWorkers + 1 \in DOMAIN r
       PROVE  r[i + NumWorkers + 1] - r[i] >= Delay
  <2>1. i \in 1..(Len(r) - 1)
    BY <1>0, <1>3, <1>12
  <2>2. i + d \in DOMAIN s /\ r[i] = s[i + d]
    BY <1>2, <2>1
  <2>3. CASE i + NumWorkers + 1 = Len(r)
    <3>1. Len(s) - (i + d) = NumWorkers
      BY <1>0, <1>2, <1>3, <2>1, <2>3
    <3>2. Chances(v, k, s[i + d]) \in Nat /\ Chances(v, k, s[i + d]) >= 1
      BY <1>7, ChancesCounted
    <3>3. ~ (clock < s[i + d] + Delay)
      BY <1>0, <1>9, <1>12, <2>2, <3>1, <3>2
    <3>4. s[i + d] \in Int /\ r[i + NumWorkers + 1] = clock
      BY <1>2, <1>3, <2>2, <2>3
    <3> QED BY <1>0, <2>2, <3>3, <3>4
  <2>4. CASE i + NumWorkers + 1 # Len(r)
    <3>1. i + NumWorkers + 1 \in 1..(Len(r) - 1)
      BY <1>3, <1>12, <2>4
    <3>2. /\ i + NumWorkers + 1 + d \in DOMAIN s
          /\ r[i + NumWorkers + 1] = s[i + NumWorkers + 1 + d]
      BY <1>2, <3>1
    <3>3. (i + d) + NumWorkers + 1 = i + NumWorkers + 1 + d
      BY <1>0, <1>2, <2>1
    <3>4. s[(i + d) + NumWorkers + 1] - s[i + d] >= Delay
      BY <1>0, <1>12, <2>2, <3>2, <3>3 DEF IInv, KeepsItsRate, s
    <3> QED BY <2>2, <3>2, <3>3, <3>4
  <2> QED BY <2>3, <2>4
<1>13. KeepsItsRate'
  BY <1>0, <1>12 DEF IInv, KeepsItsRate
<1> QED BY <1>0, <1>4, <1>5, <1>10, <1>11, <1>13 DEF IInv

LEMMA RateStep == IInv /\ [Next]_vars => IInv'
<1> SUFFICES ASSUME IInv, [Next]_vars PROVE IInv'
  OBVIOUS
<1>1. TypeOK /\ TypeOK' /\ clock >= clock
  BY TypeStep, PolitenessAssumption DEF IInv, TypeOK, Times
<1>2. CASE Tick
  BY <1>1, <1>2, TickStep
<1>3. ASSUME NEW w \in Workers, StartScan(w) PROVE IInv'
  BY <1>1, <1>3, StartScanStep
<1>4. ASSUME NEW w \in Workers, ReadLastFetch(w) PROVE IInv'
  BY <1>1, <1>4, ReadLastFetchStep
<1>5. ASSUME NEW w \in Workers, Compare(w) \/ SkipHost(w) \/ RPop(w) PROVE IInv'
  BY <1>1, <1>5, MovesOn DEF Compare, SkipHost, RPop
<1>6. ASSUME NEW w \in Workers, EndScan(w) \/ Restart(w) PROVE IInv'
  BY <1>1, <1>6, MovesOn DEF EndScan, Restart, Return
<1>7. ASSUME NEW w \in Workers, Touch(w) PROVE IInv'
  BY <1>1, <1>7, TouchStep
<1>8. ASSUME NEW w \in Workers, TouchFails(w) PROVE IInv'
  BY <1>1, <1>8, TouchFailsStep
<1>9. ASSUME NEW w \in Workers, Fetch(w) PROVE IInv'
  <2>1. CASE UNCHANGED fetches
    BY <1>1, <1>9, <2>1, MovesOn DEF Fetch, Return
  <2>2. CASE fetches' = [fetches EXCEPT ![w][host[w]] = Latest(Append(@, clock))]
    <3>1. fetches' = [fetches EXCEPT ![w][host[w]] = Latest(Append(fetches[w][host[w]], clock))]
      BY <1>1, <2>2 DEF TypeOK
    <3> QED BY <1>1, <1>9, <3>1, RequestStep DEF Fetch
  <2> QED BY <1>9, <2>1, <2>2 DEF Fetch
<1>10. CASE UNCHANGED vars
  <2>1. \A w \in Workers : NowIsRecent(w)'
    BY <1>10 DEF IInv, NowIsRecent, vars
  <2>2. ASSUME NEW w \in Workers, NEW h \in Hosts, NEW t
        PROVE  Chances(w, h, t)' <= Chances(w, h, t)
    BY <1>10, ChancesStay DEF vars, Late, Decided, FindsOlder
  <2> QED BY <1>1, <1>10, <2>1, <2>2, Quiet DEF vars
<1> QED
  BY <1>2, <1>3, <1>4, <1>5, <1>6, <1>7, <1>8, <1>9, <1>10 DEF Next

LEMMA RateInit == Init => IInv
<1> SUFFICES ASSUME Init PROVE IInv
  OBVIOUS
<1>1. TypeOK
  BY TypeInit
<1>2. \A w \in Workers, h \in Hosts : DOMAIN fetches[w][h] = {}
  BY DEF Init
<1>3. FetchesArePast /\ KeepsItsRate /\ \A w \in Workers, h \in Hosts : ChancesAreFew(w, h)
  BY <1>2 DEF FetchesArePast, KeepsItsRate, ChancesAreFew
<1>4. \A w \in Workers : NowIsRecent(w)
  BY DEF Init, NowIsRecent
<1> QED BY <1>1, <1>3, <1>4 DEF IInv

\* However many workers there are, and however their scans, late Touches, failed
\* Touches of other hosts and restarts fall: no worker makes more than N + 1
\* requests to a host within a delay (NextURL, IsReady, Touch).
THEOREM WorkersKeepTheirRate == Spec => []KeepsItsRate
<1>1. IInv => KeepsItsRate
  BY DEF IInv
<1> QED BY RateInit, RateStep, <1>1, PTL DEF Spec
=============================================================================
