--------------------------- MODULE AtomicFrontier ---------------------------
(***************************************************************************)
(* What the frontier promises its callers although their calls overlap,    *)
(* fail and are cut short: the queue of each host is first in, first out,  *)
(* and every URL taken from it is handed to one thread; a URL is taken     *)
(* with a permit, which a thread gets while the delay of the host is over  *)
(* and which is good for one URL; who took a URL then starts the delay of  *)
(* its host before it is done with the URL.  URLs are lost and delays left *)
(* out only by faults, one of which loses at most one queued URL.          *)
(*                                                                         *)
(* It does not promise that one permit per host is out at a time, as the   *)
(* Lua script of docs/IMPLEMENTATION.md:588-621 would.  The priority set,  *)
(* the Bloom filters and seen:urls do not show.                            *)
(***************************************************************************)
EXTENDS Naturals, Sequences

CONSTANTS Urls, Hosts, HostOf, Threads, Procs, ProcOf, MaxFaults

VARIABLES queue,    \* host -> the URLs waiting, the oldest first
          cooling,  \* hosts whose delay is not over
          permit,   \* thread -> the hosts it may take one URL of
          owed,     \* thread -> the hosts whose delay it has to start
          held,     \* thread -> the URL it works on, as a set: {} or {u}
          faults

atomicVars == <<queue, cooling, permit, owed, held, faults>>

AtomicInit ==
    /\ queue = [h \in Hosts |-> <<>>]
    /\ cooling = {}
    /\ permit = [t \in Threads |-> {}]
    /\ owed = [t \in Threads |-> {}]
    /\ held = [t \in Threads |-> {}]
    /\ faults = 0

Add(u) ==
    /\ queue' = [queue EXCEPT ![HostOf[u]] = Append(@, u)]
    /\ UNCHANGED <<cooling, permit, owed, held>>

Permit(t, h) ==
    /\ held[t] = {} /\ h \notin cooling
    /\ permit' = [permit EXCEPT ![t] = {h}]
    /\ UNCHANGED <<queue, cooling, owed, held>>

Withdraw(t) ==
    /\ permit' = [permit EXCEPT ![t] = {}]
    /\ UNCHANGED <<queue, cooling, owed, held>>

Take(t, h) ==
    /\ held[t] = {} /\ h \in permit[t] /\ queue[h] # <<>>
    /\ held' = [held EXCEPT ![t] = {Head(queue[h])}]
    /\ queue' = [queue EXCEPT ![h] = Tail(@)]
    /\ permit' = [permit EXCEPT ![t] = {}]
    /\ owed' = [owed EXCEPT ![t] = {h}]
    /\ UNCHANGED cooling

StartDelay(t) ==
    /\ owed[t] # {}
    /\ cooling' = cooling \cup owed[t]
    /\ owed' = [owed EXCEPT ![t] = {}]
    /\ UNCHANGED <<queue, permit, held>>

Done(t) ==
    /\ held[t] # {} /\ owed[t] = {}
    /\ held' = [held EXCEPT ![t] = {}]
    /\ UNCHANGED <<queue, cooling, permit, owed>>

DelayIsOver(h) ==
    /\ h \in cooling
    /\ cooling' = cooling \ {h}
    /\ UNCHANGED <<queue, permit, owed, held>>

\* A thread with a permit loses the URL it would have taken, and with it the
\* permit or not (the command is then repeated).
Lose(t, h) ==
    /\ h \in permit[t] /\ queue[h] # <<>>
    /\ queue' = [queue EXCEPT ![h] = Tail(@)]
    /\ permit' \in {permit, [permit EXCEPT ![t] = {}]}
    /\ UNCHANGED <<cooling, owed, held>>

SkipDelay(t) ==
    /\ owed' = [owed EXCEPT ![t] = {}]
    /\ UNCHANGED <<queue, cooling, permit, held>>

\* The threads of a process forget what they have.
Forget(p) ==
    LET Without(f) == [t \in Threads |-> IF ProcOf[t] = p THEN {} ELSE f[t]]
    IN  /\ permit' = Without(permit) /\ owed' = Without(owed) /\ held' = Without(held)
        /\ UNCHANGED <<queue, cooling>>

Regular ==
    \/ \E u \in Urls : Add(u)
    \/ \E t \in Threads : Withdraw(t) \/ StartDelay(t) \/ Done(t)
    \/ \E t \in Threads, h \in Hosts : Permit(t, h) \/ Take(t, h)
    \/ \E h \in Hosts : DelayIsOver(h)

Mishap ==
    \/ \E u \in Urls : Add(u)
    \/ \E t \in Threads : Withdraw(t) \/ SkipDelay(t)
    \/ \E t \in Threads, h \in Hosts : Lose(t, h)
    \/ \E p \in Procs : Forget(p)
    \/ UNCHANGED <<queue, cooling, permit, owed, held>>

AtomicNext ==
    \/ Regular /\ UNCHANGED faults
    \/ Mishap /\ faults < MaxFaults /\ faults' = faults + 1

AtomicSpec == AtomicInit /\ [][AtomicNext]_atomicVars
=============================================================================
