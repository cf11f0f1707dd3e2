------------------------------ MODULE Console ------------------------------
(***************************************************************************)
(* What operators do to a running crawler, from the command line           *)
(* (cmd/cli) and over HTTP (cmd/scheduler, cmd/seed-api): they clear the   *)
(* queue, they add seeds and are told what became of them, and they read   *)
(* statistics.  All of it goes on beside the threads of Frontier, one      *)
(* Redis command at a time.                                                *)
(***************************************************************************)
EXTENDS Frontier

CONSTANT MaxCommands   \* bound on the commands that are started

ASSUME ConsoleAssumption == MaxCommands \in Nat

VARIABLES
    cmd,            \* where `queue clear` is
    keys, ranked,   \* the queues it listed, and the members of frontier:priority
    removed,        \* history: URLs it deleted from queues but not from seen:urls
    cut,            \* history: "cut" after a clear that stopped half-way
    request,        \* handler |-> the URLs it is to answer for
    wiped,          \* history: handler |-> those of them that a clear made unseen
    told,           \* history: URLs of requests that were answered with success
    pages, errors,  \* metrics:pages_total, metrics:errors_total
    inserted,       \* history: how many URLs were ever pushed to a queue
    reader, ask,    \* where Stats is, and the hosts it still has to count
    report,
    commands        \* how many clears and reports were started

clearVars == <<cmd, keys, ranked, removed, cut>>
seedVars  == <<request, wiped, told>>
countVars == <<pages, errors, inserted>>
readVars  == <<reader, ask, report, commands>>
allVars   == <<vars, clearVars, seedVars, countVars, readVars>>

ConsoleInit ==
    /\ Init
    /\ cmd = "idle" /\ keys = {} /\ ranked = {}
    /\ removed = {} /\ cut = "whole"
    /\ request = [t \in Threads |-> {}] /\ told = {}
    /\ wiped = [t \in Threads |-> {}]
    /\ pages = 0 /\ errors = 0 /\ inserted = 0
    /\ reader = "idle" /\ ask = {} /\ commands = 0
    /\ report = [completed |-> 0, failed |-> 0, pending |-> 0]

-----------------------------------------------------------------------------
(* queue clear *)

\* Mutant: seen:urls first.
ClearSeenFirst ==
    [idle |-> "seenkeys", seenkeys |-> "delseen", delseen |-> "del", del |-> "idle"]

ClearOrder ==
    [idle |-> "del", del |-> "seenkeys", seenkeys |-> "delseen", delseen |-> "idle"]

\* KEYS frontier:* finds the queues that have URLs and the priority set if it has
\* members.
ListKeys ==
    /\ cmd = "idle" /\ commands < MaxCommands
    /\ keys' = {h \in Hosts : queue[h] # <<>>} /\ ranked' = listed
    /\ cmd' = ClearOrder[cmd] /\ commands' = commands + 1
    /\ UNCHANGED <<vars, removed, cut, seedVars, countVars, reader, ask, report>>

\* One DEL of what was listed, whatever it holds by now.
DeleteListed ==
    /\ queue' = [h \in Hosts |-> IF h \in keys THEN <<>> ELSE queue[h]]
    /\ listed' = IF ranked = {} THEN listed ELSE {}
    /\ score' = [h \in Hosts |-> IF ranked = {} THEN score[h] ELSE 0]
    /\ removed' = removed \cup UNION {UrlsIn(queue[h]) : h \in keys}
    /\ UNCHANGED <<seen, cooling>>

DelKeys ==
    /\ cmd = "del"
    /\ DeleteListed
    /\ keys' = {} /\ ranked' = {}
    /\ cmd' = ClearOrder[cmd]
    /\ UNCHANGED <<bloom, localVars, faults, historyVars, cut, seedVars,
                   countVars, readVars>>

\* KEYS seen:*; there is nothing to delete if no URL is seen.
ListSeen ==
    /\ cmd = "seenkeys"
    /\ \/ seen # {} /\ cmd' = ClearOrder[cmd] /\ UNCHANGED <<removed, cut>>
       \/ seen = {} /\ cmd' = ClearOrder["delseen"] /\ removed' = {} /\ cut' = "whole"
    /\ UNCHANGED <<vars, keys, ranked, seedVars, countVars, readVars>>

\* The URLs of its batch that a thread has not found or marked as seen yet.
Ahead(t) == IF pc[t] \in {"lpush", "zadd"} THEN UrlsIn(Tail(todo[t])) ELSE UrlsIn(todo[t])

\* Everybody may be told anew about every URL, and the history starts anew.  The
\* Bloom filters keep what they were given, and the handlers go on with the batches
\* they have: what they were past with is unseen again, and they do not know.
DelSeen ==
    /\ cmd = "delseen"
    /\ seen' = {} /\ removed' = {} /\ cut' = "whole"
    /\ finished' = {} /\ dropped' = {} /\ abandoned' = {}
    /\ wiped' = [t \in Threads |-> wiped[t] \cup (request[t] \ Ahead(t))]
    /\ told' = {}
    /\ cmd' = ClearOrder[cmd]
    /\ UNCHANGED <<queue, listed, score, cooling, bloom, localVars, faults, pushed,
                   keys, ranked, request, countVars, readVars>>

\* Mutant: the first error does not end the command.
ClearGoesOn ==
    /\ Fault
    /\ cmd \in {"del", "seenkeys", "delseen"} /\ cmd' = ClearOrder[cmd]
    /\ UNCHANGED <<redisVars, bloom, localVars, historyVars, keys, ranked, removed, cut,
                   seedVars, countVars, readVars>>

\* The first DEL returns an error, having taken effect or not, and the command
\* ends; an error of the second KEYS or DEL is ignored.  The command may also be
\* interrupted, or its 30 seconds be over.
ClearFails ==
    /\ Fault
    /\ \/ cmd = "del" /\ keys \cup ranked # {}
          /\ \/ UNCHANGED <<redisVars, removed, cut>>
             \/ DeleteListed /\ cut' = "cut"
       \/ cmd \in {"seenkeys", "delseen"} /\ cut' = "cut"
          /\ UNCHANGED <<redisVars, removed>>
    /\ cmd' = "idle" /\ keys' = {} /\ ranked' = {}
    /\ UNCHANGED <<bloom, localVars, historyVars, seedVars, countVars, readVars>>

Clear == ListKeys \/ DelKeys \/ ListSeen \/ DelSeen \/ ClearFails

-----------------------------------------------------------------------------
(* The threads of Frontier, with the answers to seed requests and the counters *)

Insertions ==
    inserted' = IF \E h \in Hosts : Len(queue'[h]) > Len(queue[h])
                THEN inserted + 1 ELSE inserted

Ask(t) ==
    /\ Submit(t)
    /\ request' = [request EXCEPT ![t] = UrlsIn(todo'[t])]
    /\ wiped' = [wiped EXCEPT ![t] = {}]
    /\ UNCHANGED <<clearVars, told, countVars, readVars>>

\* AddURLs got through the batch: "seed added", "url already exists", or how many
\* were added and skipped.  A batch that was given up is an "internal error".
Answer(t) ==
    told' = IF pc'[t] = "idle" /\ Cur(t).url \notin Unstable
            THEN told \cup (request[t] \ wiped[t]) ELSE told

Seed(t) ==
    /\ t \notin Workers /\ AddURLs(t)
    /\ Answer(t) /\ Insertions
    /\ UNCHANGED <<clearVars, request, wiped, pages, errors, readVars>>

Work(t) ==
    /\ t \in Workers /\ (AddURLs(t) \/ NextURL(t) \/ Discover(t))
    /\ Insertions
    /\ UNCHANGED <<clearVars, seedVars, pages, errors, readVars>>

\* Complete or Fail counts the page, or processURL returned before (a page that
\* robots.txt blocks, a duplicate), or the INCR failed.
Count(t) ==
    /\ Finish(t)
    /\ \/ pages' = pages + 1 /\ UNCHANGED errors
       \/ errors' = errors + 1 /\ UNCHANGED pages
       \/ UNCHANGED <<pages, errors>>
    /\ UNCHANGED <<clearVars, seedVars, inserted, readVars>>

\* The client library resends INCR, too.
CountAgain(t) ==
    /\ Fault
    /\ pc[t] \in {"process", "finish"}
    /\ \/ pages' = pages + 1 /\ UNCHANGED errors
       \/ errors' = errors + 1 /\ UNCHANGED pages
    /\ UNCHANGED <<redisVars, bloom, localVars, historyVars, clearVars, seedVars, inserted,
                   readVars>>

Disturbance ==
    /\ \/ \E t \in Threads : Failure(t)
       \/ \E p \in Procs : Crash(p)
       \/ \E h \in Hosts : DelayElapses(h)
    /\ Insertions
    /\ UNCHANGED <<clearVars, seedVars, pages, errors, readVars>>

-----------------------------------------------------------------------------
(* Stats *)

\* An error of GET, or no counter yet, counts as 0.
ReadPages ==
    /\ reader = "idle" /\ commands < MaxCommands
    /\ \E n \in {0, pages} : report' = [completed |-> n, failed |-> 0, pending |-> 0]
    /\ reader' = "errors" /\ commands' = commands + 1
    /\ UNCHANGED ask

ReadErrors ==
    /\ reader = "errors"
    /\ \E n \in {0, errors} : report' = [report EXCEPT !.failed = n]
    /\ reader' = "hosts"
    /\ UNCHANGED <<ask, commands>>

\* ZRANGE 0 -1, whose error ends the call.
ReadHosts ==
    /\ reader = "hosts"
    /\ \/ ask' = listed /\ reader' = "len"
       \/ reader' = "idle" /\ UNCHANGED ask
    /\ UNCHANGED <<report, commands>>

\* LLEN host by host (the order is open); a host is left out if it fails.
ReadLen ==
    /\ reader = "len"
    /\ \E h \in ask :
         /\ ask' = ask \ {h}
         /\ \E n \in {0, Len(queue[h])} : report' = [report EXCEPT !.pending = @ + n]
    /\ UNCHANGED <<reader, commands>>

\* Mutant: the counter of pages is read once more for the response.
ReportNow ==
    /\ reader = "len" /\ ask = {}
    /\ report' = [report EXCEPT !.completed = pages]
    /\ reader' = "idle"
    /\ UNCHANGED <<ask, commands>>

Report ==
    /\ reader = "len" /\ ask = {}
    /\ reader' = "idle"
    /\ UNCHANGED <<ask, report, commands>>

Stats ==
    /\ ReadPages \/ ReadErrors \/ ReadHosts \/ ReadLen \/ Report
    /\ UNCHANGED <<vars, clearVars, seedVars, countVars>>

ConsoleNext ==
    \/ Clear \/ Stats \/ Disturbance
    \/ \E t \in Threads : Ask(t) \/ Seed(t) \/ Work(t) \/ Count(t) \/ CountAgain(t)

ConsoleSpec == ConsoleInit /\ [][ConsoleNext]_allVars

-----------------------------------------------------------------------------
(* Properties *)

\* Types of the console's variables, which lists something exactly for the DEL.
ConsoleTypeOK ==
    /\ TypeOK
    /\ cmd \in {"idle", "del", "seenkeys", "delseen"}
    /\ keys \subseteq Hosts /\ ranked \subseteq Hosts
    /\ cmd # "del" => keys = {} /\ ranked = {}
    /\ removed \subseteq Urls /\ cut \in {"whole", "cut"} /\ commands \in 0..MaxCommands
    /\ request \in [Threads -> SUBSET Urls] /\ wiped \in [Threads -> SUBSET Urls]
    /\ told \subseteq Urls
    /\ pages \in Nat /\ errors \in Nat /\ inserted \in Nat
    /\ reader \in {"idle", "errors", "hosts", "len"} /\ ask \subseteq Hosts
    /\ report \in [completed : Nat, failed : Nat, pending : Nat]

\* A clear takes nothing away for good: outside of the moment between its two
\* DELs, every URL that seen:urls holds is queued, about to be pushed, held, done
\* or lost to a recorded failure, as without it, whatever the workers and handlers
\* did meanwhile - unless the clear itself stopped half-way (main.go:297-320).
\* This is why seen:urls must go last.
SeenSurvivesClear ==
    \A u \in seen :
        \/ Accounted(u)
        \/ u \in removed /\ (cmd \in {"seenkeys", "delseen"} \/ cut = "cut")

\* Who was told "seed added" or "url already exists", or got counts for a batch,
\* can rely on it: all URLs of the request are in seen:urls until the next clear,
\* and so accounted for, however often Bloom filters answer "possibly" for nothing.
\* That includes a handler whose batch a clear met half-way, with the URLs it took
\* up after the clear.
AnsweredIsSeen == told \subseteq seen

\* The figures of one report are of different moments, but they never add up to
\* more than was ever queued (INCRs that were sent twice apart): the counters are
\* read before the queues, so that a URL on its way is missed, not counted twice.
StatsNeverOvercount ==
    report.completed + report.failed + report.pending <= inserted + faults
=============================================================================
