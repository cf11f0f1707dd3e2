----------------------------- MODULE Politeness -----------------------------
(***************************************************************************)
(* The per-host rate limit with its clock: politeness.go as NextURL and    *)
(* processURL use it.  A worker reads the clock once (`now`), scans the    *)
(* hosts, compares the clock with last_fetch + delay at each (IsReady),    *)
(* pops a URL, stores the old `now` as last_fetch (Touch), and only then   *)
(* sees to robots.txt and fetches the page.  Every one of these steps may  *)
(* take time.  The queues are taken to hold URLs; that RPOP may still find *)
(* none is a choice.  Frontier has the queues and no clock, this module    *)
(* the clock and no queues.                                                *)
(***************************************************************************)
EXTENDS Integers, Sequences, FiniteSets

CONSTANTS
    Workers,
    Hosts,
    Delay,       \* cfg.Politeness default delay, in ticks of the clock
    MaxClock     \* bound on the clock

Never == -1      \* the host has no last_fetch

ASSUME PolitenessAssumption ==
    Delay \in Nat /\ MaxClock \in Nat /\ IsFiniteSet(Workers)

NumWorkers == Cardinality(Workers)

VARIABLES
    clock,
    last,        \* politeness:<host> last_fetch
    pc, now, host,
    read,        \* the last_fetch that IsReady got
    untouched,   \* hosts for which an error of Touch was ignored
    fetches      \* history: when each worker made its last requests to each host

vars == <<clock, last, pc, now, host, read, untouched, fetches>>

Goto(w, label) == pc' = [pc EXCEPT ![w] = label]

Init ==
    /\ clock = 0
    /\ last = [h \in Hosts |-> Never]
    /\ pc = [w \in Workers |-> "idle"]
    /\ now = [w \in Workers |-> 0]
    /\ host \in [Workers -> Hosts]
    /\ read = [w \in Workers |-> Never]
    /\ untouched = {}
    /\ fetches = [w \in Workers |-> [h \in Hosts |-> <<>>]]

\* now := time.Now(), before the loop over the hosts.
StartScan(w) ==
    /\ pc[w] = "idle"
    /\ now' = [now EXCEPT ![w] = clock]
    /\ Goto(w, "scan")
    /\ UNCHANGED <<clock, last, host, read, untouched, fetches>>

\* IsReady: HGET last_fetch of some host of the scan.
ReadLastFetch(w) ==
    /\ pc[w] = "scan"
    /\ \E h \in Hosts :
         /\ host' = [host EXCEPT ![w] = h]
         /\ read' = [read EXCEPT ![w] = last[h]]
    /\ Goto(w, "compare")
    /\ UNCHANGED <<clock, last, now, untouched, fetches>>

\* Mutant: the comparison is the wrong way round.
CompareBackwards(w) ==
    /\ pc[w] = "compare"
    /\ \/ (read[w] = Never \/ clock <= read[w] + Delay) /\ Goto(w, "pop")
       \/ (read[w] # Never /\ clock >= read[w] + Delay) /\ Goto(w, "scan")
    /\ UNCHANGED <<clock, last, now, host, read, untouched, fetches>>

\* IsReady: time.Now().After(last_fetch + delay).  last_fetch is in whole
\* milliseconds and the clock is not, so within one tick it may or may not be.
Compare(w) ==
    /\ pc[w] = "compare"
    /\ \/ (read[w] = Never \/ clock >= read[w] + Delay) /\ Goto(w, "pop")
       \/ (read[w] # Never /\ clock <= read[w] + Delay) /\ Goto(w, "scan")
    /\ UNCHANGED <<clock, last, now, host, read, untouched, fetches>>

\* An error of IsReady, or RPOP finding the queue empty: the next host.
SkipHost(w) ==
    /\ pc[w] \in {"compare", "pop"}
    /\ Goto(w, "scan")
    /\ UNCHANGED <<clock, last, now, host, read, untouched, fetches>>

\* The locals of a call are gone when it returns.
Return(w) ==
    /\ Goto(w, "idle")
    /\ now' = [now EXCEPT ![w] = 0]
    /\ read' = [read EXCEPT ![w] = Never]

\* The end of the host list, or an error of RPOP.
EndScan(w) ==
    /\ pc[w] \in {"scan", "pop"}
    /\ Return(w)
    /\ UNCHANGED <<clock, last, host, untouched, fetches>>

RPop(w) ==
    /\ pc[w] = "pop"
    /\ Goto(w, "touch")
    /\ UNCHANGED <<clock, last, now, host, read, untouched, fetches>>

\* Mutant: last_fetch is written on the first visit only.
TouchOnce(w) ==
    /\ pc[w] = "touch"
    /\ last' = [last EXCEPT ![host[w]] = IF @ = Never THEN now[w] ELSE @]
    /\ Goto(w, "fetch")
    /\ UNCHANGED <<clock, now, host, read, untouched, fetches>>

Touch(w) ==
    /\ pc[w] = "touch"
    /\ last' = [last EXCEPT ![host[w]] = now[w]]
    /\ Goto(w, "fetch")
    /\ UNCHANGED <<clock, now, host, read, untouched, fetches>>

\* "Log but don't fail".
TouchFails(w) ==
    /\ pc[w] = "touch"
    /\ untouched' = untouched \cup {host[w]}
    /\ Goto(w, "fetch")
    /\ UNCHANGED <<clock, last, now, host, read, fetches>>

\* As many as KeepsItsRate looks at.
Latest(s) == IF Len(s) <= NumWorkers + 2 THEN s ELSE Tail(s)

\* processURL requests the page, after the robots.txt check; or it does not.
Fetch(w) ==
    /\ pc[w] = "fetch"
    /\ \/ fetches' = [fetches EXCEPT ![w][host[w]] = Latest(Append(@, clock))]
       \/ UNCHANGED fetches
    /\ Return(w)
    /\ UNCHANGED <<clock, last, host, untouched>>

\* The worker dies and starts again.
Restart(w) ==
    /\ pc[w] # "idle"
    /\ Return(w)
    /\ UNCHANGED <<clock, last, host, untouched, fetches>>

Tick ==
    /\ clock < MaxClock
    /\ clock' = clock + 1
    /\ UNCHANGED <<last, pc, now, host, read, untouched, fetches>>

Next ==
    \/ Tick
    \/ \E w \in Workers :
         \/ StartScan(w) \/ ReadLastFetch(w) \/ Compare(w) \/ SkipHost(w) \/ EndScan(w)
         \/ RPop(w) \/ Touch(w) \/ TouchFails(w) \/ Fetch(w) \/ Restart(w)

Spec == Init /\ [][Next]_vars

-----------------------------------------------------------------------------
(* Properties *)

\* Times of the clock, and the time of a fetch that may not have been.
Times == 0..MaxClock
Maybe == Times \cup {Never}

\* A worker past IsReady read a last_fetch that is a full delay old.
PastIsReady(w) ==
    pc[w] \in {"pop", "touch", "fetch"} => read[w] = Never \/ clock >= read[w] + Delay

\* Types of the variables, and what a worker that passed IsReady has found.
TypeOK ==
    /\ clock \in Times
    /\ last \in [Hosts -> Maybe]
    /\ pc \in [Workers -> {"idle", "scan", "compare", "pop", "touch", "fetch"}]
    /\ now \in [Workers -> Times]
    /\ host \in [Workers -> Hosts]
    /\ read \in [Workers -> Maybe]
    /\ untouched \subseteq Hosts
    /\ fetches \in [Workers -> [Hosts -> Seq(Times)]]
    /\ \A w \in Workers, h \in Hosts : Len(fetches[w][h]) <= NumWorkers + 2
    /\ \A w \in Workers : PastIsReady(w)

\* What the timestamps guarantee although they are taken before the scan, may
\* overwrite newer ones, and the request is made only after the robots.txt check:
\* of a worker's requests to a host, the one N + 1 later is a full delay later,
\* where N is the number of workers.  So no worker makes more than N + 1 requests
\* to a host within a delay, and all workers together no more than N * (N + 1).
\* (Hosts for which Touch failed are left out.)
KeepsItsRate ==
    \A w \in Workers, h \in Hosts \ untouched : \A i \in DOMAIN fetches[w][h] :
      i + NumWorkers + 1 \in DOMAIN fetches[w][h] =>
        fetches[w][h][i + NumWorkers + 1] - fetches[w][h][i] >= Delay

-----------------------------------------------------------------------------
(* What a document says *)

\* DESIGN.md:156: one second between requests to a host, whoever makes them.
RequestsAreADelayApart ==
    [][\A v, w \in Workers, h \in Hosts \ untouched : \A i \in DOMAIN fetches[v][h] :
         fetches'[w][h] # fetches[w][h] => clock - fetches[v][h][i] >= Delay]_vars
=============================================================================
