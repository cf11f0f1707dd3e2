------------------------------ MODULE Listing ------------------------------
(***************************************************************************)
(* Which hosts with queued URLs may be missing in frontier:priority, the   *)
(* only place where NextURL looks for them.  LPUSH and ZADD of AddURLs,    *)
(* and RPOP or LLEN and ZREM of NextURL, are two commands each, and any of *)
(* them may fail (frontier.go:94-105, 135-155); a ZREM that comes too late *)
(* leaves a queue that nobody sees until the next ZADD.  A history         *)
(* variable, which Frontier does without, records to which hosts that may  *)
(* have happened.                                                          *)
(***************************************************************************)
EXTENDS Frontier

VARIABLE adrift   \* hosts that may be off the priority set with URLs queued

listingVars == <<vars, adrift>>

ListingInit == Init /\ adrift = {}

\* A ZREM for the host is under way.
Unlisting(h) == \E t \in Threads : pc[t] \in {"drop", "retire"} /\ Host(t) = h

\* The hosts that thread t is adding a URL to.
AddingTo(t, label) == {h \in Hosts : pc[t] = label /\ h = HostOf[Cur(t).url]}

\* An LPUSH overtakes a ZREM.
Overtaken(t) == {h \in AddingTo(t, "lpush") : queue'[h] # queue[h] /\ Unlisting(h)}

\* A ZADD that no ZREM follows puts the host back.
Relisted(t) == {h \in AddingTo(t, "zadd") : ~Unlisting(h)}

\* AddURLs fails or dies between a URL that it pushed and the host it listed.
CutShort(t) ==
    {h \in AddingTo(t, "lpush") \cup AddingTo(t, "zadd") :
       queue'[h] # <<>> /\ h \notin listed'}

\* A failing LLEN counts as an empty queue.
Misread(t) == {h \in Hosts : pc[t] = "llen" /\ h = Host(t) /\ queue[h] # <<>>}

ListingNext ==
    \/ \E t \in Threads :
         /\ Submit(t) \/ Step(t)
         /\ adrift' = (adrift \cup Overtaken(t)) \ Relisted(t)
    \/ \E t \in Threads :
         /\ Failure(t)
         /\ adrift' = adrift \cup Overtaken(t) \cup CutShort(t) \cup Misread(t)
    \/ \E p \in Procs :
         /\ Crash(p)
         /\ adrift' = adrift \cup UNION {CutShort(t) : t \in ThreadsOf(p)}
    \/ \E h \in Hosts : DelayElapses(h) /\ UNCHANGED adrift

ListingSpec == ListingInit /\ [][ListingNext]_listingVars
FairListingSpec == ListingSpec /\ Fairness

-----------------------------------------------------------------------------
(* Properties *)

\* A host with queued URLs is in the priority set, or the AddURLs that queued
\* them is about to put it there, whatever calls overlap and fail, with two
\* exceptions: an LPUSH came between a look at the queue and its ZREM, or a fault
\* hit one of the commands in question; and then only until the next AddURLs for
\* the host gets through its ZADD.
QueuedHostIsListed ==
    \A h \in Hosts : queue[h] # <<>> =>
       \/ h \in listed \cup adrift
       \/ \E t \in Threads : pc[t] = "zadd" /\ HostOf[Cur(t).url] = h

\* No URL waits for ever: every queue is emptied time and again, by workers that
\* overlap with each other and with those who fill it, unless its host is adrift.
QueuesDrain == \A h \in Hosts : []<>(queue[h] = <<>> \/ h \in adrift)
=============================================================================
