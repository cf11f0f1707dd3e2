------------------------------- MODULE Robots -------------------------------
(***************************************************************************)
(* The robots.txt cache (frontier/robots.go): before it fetches a page a   *)
(* worker looks for the rules of the host in Redis, where one hash per     *)
(* host holds them with the moment they expire; otherwise it asks the site *)
(* and writes the hash (HSET) and the lifetime of its key (EXPIRE), two    *)
(* commands whose errors are ignored.  The workers share nothing else.     *)
(*                                                                         *)
(* The site answers; the worker reads the body, which takes up to the      *)
(* timeout of its client; then it looks at the clock for `expires`; and    *)
(* some time later it writes.  The rules may change at any of these times. *)
(*                                                                         *)
(* Time is told in ages, which stop at Horizon: older is all the same.     *)
(* The clocks of the workers and of Redis run alike.                       *)
(***************************************************************************)
EXTENDS Naturals

CONSTANTS
    Workers, Hosts,
    Rules,       \* what a site may answer; any status but 200 is one of them
    TTL,         \* cfg.Frontier.RobotsTTL
    Timeout      \* of the client: what is left of the body later is not read

ASSUME RobotsAssumption == TTL \in Nat \ {0} /\ Timeout \in Nat /\ Rules # {}

Horizon == TTL + Timeout

VARIABLES
    site,        \* host |-> what it answers now
    since,       \* host |-> the time since that changed
    cached,      \* hosts with a key robots:<host>
    rules, age,  \* its fields, with the time since the stamp for `expires`
    ttl,         \* the remaining life of the key, 0 if it has no end
    pc, host,    \* where each worker is, and about which host
    copy,        \* the rules it works with
    taken,       \* the time since the site gave them, or once stamped since then
    unlimited    \* history: hosts whose EXPIRE did not happen

sites == <<site, since>>
redis == <<cached, rules, age, ttl>>
locals == <<pc, host, copy, taken>>
vars == <<sites, redis, locals, unlimited>>

Labels == {"idle", "lookup", "https", "http", "read", "hset", "expire", "test"}
Goto(w, label) == pc' = [pc EXCEPT ![w] = label]
Older(t) == IF t < Horizon THEN t + 1 ELSE Horizon

Init ==
    /\ site \in [Hosts -> Rules] /\ since = [h \in Hosts |-> Horizon]
    /\ cached = {} /\ rules = site
    /\ age = [h \in Hosts |-> Horizon] /\ ttl = [h \in Hosts |-> 0]
    /\ pc = [w \in Workers |-> "idle"] /\ host \in [Workers -> Hosts]
    /\ copy = [w \in Workers |-> site[host[w]]]
    /\ taken = [w \in Workers |-> Horizon]
    /\ unlimited = {}

\* A site answers something else: new rules, or an error status for a while.
Change(h) ==
    /\ \E r \in Rules \ {site[h]} : site' = [site EXCEPT ![h] = r]
    /\ since' = [since EXCEPT ![h] = 0]
    /\ UNCHANGED <<redis, locals, unlimited>>

\* Redis deletes a key whose life is over.
Tick ==
    /\ since' = [h \in Hosts |-> Older(since[h])]
    /\ age' = [h \in Hosts |-> Older(age[h])]
    /\ taken' = [w \in Workers |-> Older(taken[w])]
    /\ cached' = {h \in cached : ttl[h] # 1}
    /\ ttl' = [h \in Hosts |-> IF ttl[h] = 0 THEN 0 ELSE ttl[h] - 1]
    /\ UNCHANGED <<site, rules, pc, host, copy, unlimited>>

\* IsAllowed.
Ask(w) ==
    /\ pc[w] = "idle"
    /\ \E h \in Hosts : host' = [host EXCEPT ![w] = h]
    /\ Goto(w, "lookup")
    /\ UNCHANGED <<sites, redis, copy, taken, unlimited>>

\* Mutant: a hit does not look at `expires`.
HitAtAnyAge(w) ==
    /\ host[w] \in cached
    /\ copy' = [copy EXCEPT ![w] = rules[host[w]]]
    /\ taken' = [taken EXCEPT ![w] = age[host[w]]]
    /\ Goto(w, "test")

\* The hash is there and `expires` is ahead.
Hit(w) ==
    /\ host[w] \in cached /\ age[host[w]] < TTL
    /\ copy' = [copy EXCEPT ![w] = rules[host[w]]]
    /\ taken' = [taken EXCEPT ![w] = age[host[w]]]
    /\ Goto(w, "test")

\* No hash, an expired one, or an error of HGETALL.
Miss(w) == Goto(w, "https") /\ UNCHANGED <<copy, taken>>

HGetAll(w) ==
    /\ pc[w] = "lookup"
    /\ Hit(w) \/ Miss(w)
    /\ UNCHANGED <<sites, redis, host, unlimited>>

\* client.Get returns with the status line and the headers.
Answer(w) ==
    /\ copy' = [copy EXCEPT ![w] = site[host[w]]]
    /\ taken' = [taken EXCEPT ![w] = 0]
    /\ Goto(w, "read")

\* HTTPS first, then HTTP.  If neither answers, the page is allowed and nothing
\* is cached.
Fetch(w) ==
    /\ \/ pc[w] \in {"https", "http"} /\ Answer(w)
       \/ pc[w] = "https" /\ Goto(w, "http") /\ UNCHANGED <<copy, taken>>
       \/ pc[w] = "http" /\ Goto(w, "idle") /\ UNCHANGED <<copy, taken>>
    /\ UNCHANGED <<sites, redis, host, unlimited>>

\* Mutant: the timeout of the client covers the headers only.
StampLate(w) ==
    /\ taken' = [taken EXCEPT ![w] = 0]
    /\ Goto(w, "hset")

\* The body is read and parsed, and ExpiresAt is time.Now().Add(ttl).
Stamp(w) ==
    /\ taken[w] <= Timeout
    /\ taken' = [taken EXCEPT ![w] = 0]
    /\ Goto(w, "hset")

\* Or it cannot be read in time, or not be parsed: again the page is allowed.
ReadBody(w) ==
    /\ pc[w] = "read"
    /\ Stamp(w) \/ (Goto(w, "idle") /\ UNCHANGED taken)
    /\ UNCHANGED <<sites, redis, host, copy, unlimited>>

\* Mutant: the rules in one command, `expires` in a later one that may be lost.
WriteRules(w) ==
    /\ cached' = cached \union {host[w]}
    /\ rules' = [rules EXCEPT ![host[w]] = copy[w]]
    /\ \/ age' = [age EXCEPT ![host[w]] = taken[w]]
       \/ host[w] \in cached /\ UNCHANGED age

\* Both fields at once, which leaves the life of an existing key alone.
Write(w) ==
    /\ cached' = cached \union {host[w]}
    /\ rules' = [rules EXCEPT ![host[w]] = copy[w]]
    /\ age' = [age EXCEPT ![host[w]] = taken[w]]

\* Its error is ignored, whether it took effect or not.
HSet(w) ==
    /\ pc[w] = "hset"
    /\ Write(w) \/ UNCHANGED <<cached, rules, age>>
    /\ Goto(w, "expire")
    /\ UNCHANGED <<sites, ttl, host, copy, taken, unlimited>>

\* Mutants: EXPIRE for a key that is gone, and for one that exists already only.
ExpireBlindly(h) == ttl' = [ttl EXCEPT ![h] = TTL]

ExpireAgain(h) == ttl' = [ttl EXCEPT ![h] = IF ttl[h] > 0 THEN TTL ELSE 0]

\* EXPIRE: a key that is gone has no life to limit.
LimitLife(h) == ttl' = [ttl EXCEPT ![h] = IF h \in cached THEN TTL ELSE 0]

\* Its error is ignored, too.
Expire(w) ==
    /\ pc[w] = "expire"
    /\ \/ LimitLife(host[w]) /\ UNCHANGED unlimited
       \/ unlimited' = unlimited \union {host[w]} /\ UNCHANGED ttl
    /\ Goto(w, "test")
    /\ UNCHANGED <<sites, cached, rules, age, host, copy, taken>>

\* group.Test decides on the page.
Test(w) ==
    /\ pc[w] = "test"
    /\ Goto(w, "idle")
    /\ UNCHANGED <<sites, redis, host, copy, taken, unlimited>>

\* The process dies and starts again.
Crash(w) ==
    /\ pc[w] # "idle"
    /\ unlimited' = unlimited \union {h \in {host[w]} : pc[w] = "expire"}
    /\ Goto(w, "idle")
    /\ UNCHANGED <<sites, redis, host, copy, taken>>

Step(w) == HGetAll(w) \/ Fetch(w) \/ ReadBody(w) \/ HSet(w) \/ Expire(w) \/ Test(w)

Next ==
    \/ \E w \in Workers : Ask(w) \/ Step(w) \/ Crash(w)
    \/ \E h \in Hosts : Change(h)
    \/ Tick

Spec == Init /\ [][Next]_vars

\* Every request ends, if only by the client's timeout, and time passes.
FairSpec == Spec /\ WF_vars(Tick) /\ \A w \in Workers : WF_vars(Step(w))

(******************************* Properties *******************************)

TypeOK ==
    /\ site \in [Hosts -> Rules] /\ since \in [Hosts -> 0..Horizon]
    /\ cached \subseteq Hosts
    /\ rules \in [Hosts -> Rules] /\ age \in [Hosts -> 0..Horizon]
    /\ ttl \in [Hosts -> 0..TTL] /\ \A h \in Hosts \ cached : ttl[h] = 0
    /\ pc \in [Workers -> Labels] /\ host \in [Workers -> Hosts]
    /\ copy \in [Workers -> Rules] /\ taken \in [Workers -> 0..Horizon]
    /\ unlimited \subseteq Hosts

\* A hit decides by what the site answers, or did less than TTL + Timeout ago.
HitIsFresh ==
    \A w \in Workers : pc[w] = "lookup" /\ pc'[w] = "test" =>
        copy'[w] = site[host[w]] \/ since[host[w]] < TTL + Timeout

\* What the cache answers is what the site answers, unless that changed less
\* than TTL ago and the time that reading an answer may take, for `expires` counts
\* from the end of it (robots.go:107, 128-129): however late a worker writes what
\* it fetched and whichever of its two commands fail (robots.go:76-91, 128-139).
\* An error status counts as an answer: it suspends the rules of the host, and
\* for no longer than that.
RulesAreFresh == [][HitIsFresh]_vars

\* The cache does not grow for ever: a key without an end is about to get one,
\* unless an EXPIRE failed or its worker died before it (robots.go:133-139).
KeyHasEnd ==
    \A h \in cached : ttl[h] = 0 =>
        h \in unlimited \/ \E w \in Workers : pc[w] = "expire" /\ host[w] = h

\* Once a site keeps to its rules, all decisions come to follow them: no worker
\* that is slow to write makes the old ones return for good.
NewRulesTakeEffect ==
    \A h \in Hosts, r \in Rules :
        <>[](site[h] = r) =>
            <>[](\A w \in Workers : pc[w] = "test" /\ host[w] = h => copy[w] = r)
=============================================================================
