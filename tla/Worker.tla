------------------------------- MODULE Worker -------------------------------
(***************************************************************************)
(* What a worker does from its start: main creates what is missing in the  *)
(* two stores (EnsureIndex, EnsureBucket), then processURL handles the     *)
(* URLs NextURL gives it (worker/main.go) with the de-duplication it calls *)
(* (content.go) and the stores it writes, up to the ends it can come to: a *)
(* finished page, an error at any step, a shutdown signal, a crash.  The   *)
(* workers are processes of their own; they meet in the stores and in the  *)
(* two Redis sets of hashes.                                               *)
(* Every Redis command and every request to a store is one step.           *)
(*                                                                         *)
(* A page is taken once: two pages with one content stand for a copy, and  *)
(* as well for a page that is crawled again.  Frontier has the queue.      *)
(***************************************************************************)
EXTENDS Naturals

CONSTANTS
    Workers,
    Pages,
    Contents,    \* page bodies, identified with their SHA-256
    Hashes,      \* SimHash fingerprints
    ContentOf,   \* page |-> its content
    SimHashOf,   \* content |-> its fingerprint
    Near,        \* the pairs of fingerprints IsSimilar accepts
    Bodiless,    \* the contents of no bytes
    Linking,     \* pages with links, above MaxDepth
    Rendered,    \* pages that RequiresJS sends to Chrome, if it is there
    MaxFaults

\* The Hamming distance of a fingerprint to itself is 0, and it is symmetric.
\* Being near is not transitive.
ASSUME WorkerAssumption ==
    /\ ContentOf \in [Pages -> Contents]
    /\ SimHashOf \in [Contents -> Hashes]
    /\ \A g \in Hashes : <<g, g>> \in Near
    /\ \A g, h \in Hashes : <<g, h>> \in Near => <<h, g>> \in Near
    /\ MaxFaults \in Nat

VARIABLES
    exact,       \* content:hash:exact
    simhashes,   \* content:simhashes
    html,        \* objects in MinIO
    indexed,     \* documents in OpenSearch; the id is the content hash
    bucket,      \* the MinIO bucket: none, or made
    schema,      \* the index: none, mapped by EnsureIndex, or dynamic
    completed, failed,   \* metrics:pages_total, metrics:errors_total
    waiting,     \* pages in the frontier
    pc, page,    \* where each worker is, and with which page
    stopping,    \* workers whose context the shutdown signal cancelled
    vetted,      \* history: by worker, the contents CheckAndStore passed
    unarchived,  \* history: contents for which StoreHTML failed
    unstored,    \* history: contents for which StorePage failed
    crashed,     \* history: contents in the hands of a worker that died
    done,        \* history: pages that reached Complete
    faults

stores == <<bucket, schema>>
store == <<exact, simhashes, html, indexed, stores>>
counters == <<completed, failed>>
history == <<vetted, unarchived, unstored, crashed, done>>
vars == <<store, counters, waiting, pc, page, stopping, history, faults>>

Content(w) == ContentOf[page[w]]
At(w, label) == pc[w] = label
Goto(w, label) == pc' = [pc EXCEPT ![w] = label]

Dedup == {"exact", "near", "addExact", "addSim"}
\* Its hashes may be stored already, and the page is yet to be.
OnTheWay(w) == pc[w] \in {"addSim", "html", "page"}
Starting == {"index", "create", "bucket", "make"}
Labels == {"idle", "robots", "crawl", "fail", "html", "page", "links",
           "complete", "stopped"} \union Dedup \union Starting
Busy(w) == pc[w] \notin {"idle", "stopped"} \union Starting

Init ==
    /\ exact = {} /\ simhashes = {} /\ html = {} /\ indexed = {}
    /\ bucket = "none" /\ schema = "none"
    /\ completed = 0 /\ failed = 0
    /\ waiting = Pages
    /\ pc = [w \in Workers |-> "index"]
    /\ page \in [Workers -> Pages]
    /\ stopping = {}
    /\ unarchived = {} /\ unstored = {} /\ crashed = {} /\ done = {}
    /\ vetted = [w \in Workers |-> {}]
    /\ faults = 0

(******************************** Starting ********************************)

\* Mutant: with an index there, the stores count as ready.
IndexExistsIsEnough(w) ==
    /\ At(w, "index")
    /\ Goto(w, IF schema = "none" THEN "create" ELSE "idle")
    /\ UNCHANGED <<store, counters, waiting, page, stopping, history, faults>>

\* EnsureIndex asks whether the index exists, without the context.
IndexExists(w) ==
    /\ At(w, "index")
    /\ Goto(w, IF schema = "none" THEN "create" ELSE "bucket")
    /\ UNCHANGED <<store, counters, waiting, page, stopping, history, faults>>

\* The first to create the index decides on its mapping.
Create(mapping) == schema' = IF schema = "none" THEN mapping ELSE schema

\* Indices.Create: an error if another worker was faster, which main only logs.
CreateIndex(w) ==
    /\ At(w, "create")
    /\ w \notin stopping
    /\ Create("mapped")
    /\ Goto(w, "bucket")
    /\ UNCHANGED <<exact, simhashes, html, indexed, bucket, counters, waiting,
                   page, stopping, history, faults>>

\* EnsureBucket asks whether the bucket exists.
BucketExists(w) ==
    /\ At(w, "bucket")
    /\ w \notin stopping
    /\ Goto(w, IF bucket = "made" THEN "idle" ELSE "make")
    /\ UNCHANGED <<store, counters, waiting, page, stopping, history, faults>>

\* MakeBucket: again an error, only logged, if another worker was faster.
MakeBucket(w) ==
    /\ At(w, "make")
    /\ w \notin stopping
    /\ bucket' = "made"
    /\ Goto(w, "idle")
    /\ UNCHANGED <<exact, simhashes, html, indexed, schema, counters, waiting,
                   page, stopping, history, faults>>

(*************************** The worker's loop ****************************)

\* Mutant: the URL is read and not removed.
TakeCopy(w) ==
    /\ At(w, "idle")
    /\ w \notin stopping
    /\ \E p \in waiting : page' = [page EXCEPT ![w] = p]
    /\ Goto(w, "robots")
    /\ UNCHANGED <<store, counters, waiting, stopping, history, faults>>

\* NextURL returns a URL.
Take(w) ==
    /\ At(w, "idle")
    /\ w \notin stopping
    /\ \E p \in waiting :
         /\ waiting' = waiting \ {p}
         /\ page' = [page EXCEPT ![w] = p]
    /\ Goto(w, "robots")
    /\ UNCHANGED <<store, counters, stopping, history, faults>>

\* Mutant: the context is looked at only once the frontier is empty.
ExitWhenDrained(w) ==
    /\ At(w, "idle")
    /\ w \in stopping
    /\ waiting = {}
    /\ Goto(w, "stopped")
    /\ UNCHANGED <<store, counters, waiting, page, stopping, history, faults>>

\* The loop sees that the context is done.
Exit(w) ==
    /\ At(w, "idle")
    /\ w \in stopping
    /\ Goto(w, "stopped")
    /\ UNCHANGED <<store, counters, waiting, page, stopping, history, faults>>

\* robots.txt forbids the page, and processURL returns without a counter, or
\* it allows it.  The request for robots.txt does not use the context.
Robots(w) ==
    /\ At(w, "robots")
    /\ \E next \in {"idle", "crawl"} : Goto(w, next)
    /\ UNCHANGED <<store, counters, waiting, page, stopping, history, faults>>

\* Colly: any page may fail, and the error of a cancelled context is returned
\* once the request is over.
CrawlStatic(w) ==
    \/ Goto(w, "fail")
    \/ w \notin stopping /\ Goto(w, "exact")

\* Chrome never looks at the context of the caller.
CrawlRendered(w) ==
    /\ page[w] \in Rendered
    /\ Goto(w, "fail") \/ Goto(w, "exact")

\* Manager.Crawl: Chrome, if the page requires it and Chrome answered at start.
Crawl(w) ==
    /\ At(w, "crawl")
    /\ CrawlStatic(w) \/ CrawlRendered(w)
    /\ UNCHANGED <<store, counters, waiting, page, stopping, history, faults>>

\* Frontier.Fail: INCR.
Fail(w) ==
    /\ At(w, "fail")
    /\ w \notin stopping
    /\ failed' = failed + 1
    /\ Goto(w, "idle")
    /\ UNCHANGED <<store, completed, waiting, page, stopping, history, faults>>

(***************************** CheckAndStore ******************************)

\* SISMEMBER: an exact copy is complete as it is.
CheckExact(w) ==
    /\ At(w, "exact")
    /\ w \notin stopping
    /\ Goto(w, IF Content(w) \in exact THEN "complete" ELSE "near")
    /\ UNCHANGED <<store, counters, waiting, page, stopping, history, faults>>

\* Mutant: only equal fingerprints are similar.
EqualStored(c) == SimHashOf[c] \in simhashes

\* IsSimilar.
SimilarStored(c) == \E h \in simhashes : <<SimHashOf[c], h>> \in Near

\* SMEMBERS and the comparison with every stored fingerprint.
FindNearDuplicate(w) ==
    /\ At(w, "near")
    /\ w \notin stopping
    /\ Goto(w, IF SimilarStored(Content(w)) THEN "complete" ELSE "addExact")
    /\ UNCHANGED <<store, counters, waiting, page, stopping, history, faults>>

\* store: the first SADD.
AddExact(w) ==
    /\ At(w, "addExact")
    /\ w \notin stopping
    /\ exact' = exact \union {Content(w)}
    /\ Goto(w, "addSim")
    /\ UNCHANGED <<simhashes, html, indexed, stores, counters, waiting, page, stopping,
                   history, faults>>

\* Mutant: the page is stored without its HTML.
AddSimHashThenPage(w) ==
    /\ At(w, "addSim")
    /\ w \notin stopping
    /\ simhashes' = simhashes \union {SimHashOf[Content(w)]}
    /\ vetted' = [vetted EXCEPT ![w] = @ \union {Content(w)}]
    /\ Goto(w, "page")
    /\ UNCHANGED <<exact, html, indexed, stores, counters, waiting, page, stopping,
                   unarchived, unstored, crashed, done, faults>>

\* store: the second SADD, and CheckAndStore returns false, nil.
AddSimHash(w) ==
    /\ At(w, "addSim")
    /\ w \notin stopping
    /\ simhashes' = simhashes \union {SimHashOf[Content(w)]}
    /\ vetted' = [vetted EXCEPT ![w] = @ \union {Content(w)}]
    /\ Goto(w, "html")
    /\ UNCHANGED <<exact, html, indexed, stores, counters, waiting, page, stopping,
                   unarchived, unstored, crashed, done, faults>>

(**************************** Storing the page ****************************)

\* StoreHTML, unless the body is empty.
StoreHTML(w) ==
    /\ At(w, "html")
    /\ \/ w \notin stopping /\ bucket = "made"
       \/ Content(w) \in Bodiless
    /\ html' = html \union ({Content(w)} \ Bodiless)
    /\ Goto(w, "page")
    /\ UNCHANGED <<exact, simhashes, indexed, stores, counters, waiting, page, stopping,
                   history, faults>>

\* Links are queued if there are any and the depth allows it.
AfterPage(w) == IF page[w] \in Linking THEN "links" ELSE "complete"

\* OpenSearch creates an index that is missing, and guesses its mapping.
StorePage(w) ==
    /\ At(w, "page")
    /\ w \notin stopping
    /\ indexed' = indexed \union {Content(w)}
    /\ Create("dynamic")
    /\ Goto(w, AfterPage(w))
    /\ UNCHANGED <<exact, simhashes, html, bucket, counters, waiting, page, stopping,
                   history, faults>>

\* AddURLs; its steps are those of Frontier.
QueueLinks(w) ==
    /\ At(w, "links")
    /\ w \notin stopping
    /\ Goto(w, "complete")
    /\ UNCHANGED <<store, counters, waiting, page, stopping, history, faults>>

\* Frontier.Complete: INCR.  Duplicates come here as well.
Complete(w) ==
    /\ At(w, "complete")
    /\ w \notin stopping
    /\ completed' = completed + 1
    /\ done' = done \union {page[w]}
    /\ Goto(w, "idle")
    /\ UNCHANGED <<store, failed, waiting, page, stopping, vetted, unarchived,
                   unstored, crashed, faults>>

(******************************** Failures ********************************)

Fault == faults < MaxFaults /\ faults' = faults + 1

\* A command or request returns an error: because the context is cancelled, or
\* for a fault of its own.  It may have taken effect all the same.
Error(w) ==
    \/ w \in stopping /\ UNCHANGED faults
    \/ w \notin stopping /\ Fault

\* Every error while starting is only logged.  The first request does not use
\* the context, and any answer but 200 counts as "no index".
StartFails(w) ==
    /\ pc[w] \in Starting
    /\ IF At(w, "index") THEN Fault ELSE Error(w)
    /\ \/ /\ At(w, "index")
          /\ Goto(w, "bucket") \/ Goto(w, "create")
          /\ UNCHANGED stores
       \/ /\ At(w, "create") /\ Goto(w, "bucket")
          /\ Create("mapped") \/ UNCHANGED schema
          /\ UNCHANGED bucket
       \/ At(w, "bucket") /\ Goto(w, "idle") /\ UNCHANGED stores
       \/ At(w, "make") /\ Goto(w, "idle") /\ bucket' \in {bucket, "made"} /\ UNCHANGED schema
    /\ UNCHANGED <<exact, simhashes, html, indexed, counters, waiting, page,
                   stopping, history>>

\* Mutant: an error of CheckAndStore ends the page.
DedupFailsForGood(w) ==
    /\ pc[w] \in Dedup
    /\ Error(w)
    /\ exact' = exact \union {x \in {Content(w)} : At(w, "addExact")}
    /\ Goto(w, "complete")
    /\ UNCHANGED <<simhashes, html, indexed, stores, counters, waiting, page, stopping,
                   history>>

\* After an error CheckAndStore's caller goes on as if the page were new.
DedupFails(w) ==
    /\ pc[w] \in Dedup
    /\ Error(w)
    /\ \/ UNCHANGED <<exact, simhashes>>
       \/ /\ At(w, "addExact")
          /\ exact' = exact \union {Content(w)}
          /\ UNCHANGED simhashes
       \/ /\ At(w, "addSim")
          /\ simhashes' = simhashes \union {SimHashOf[Content(w)]}
          /\ UNCHANGED exact
    /\ Goto(w, "html")
    /\ UNCHANGED <<html, indexed, stores, counters, waiting, page, stopping, history>>

\* Mutant: a page whose HTML cannot be stored is not indexed.
StoreHTMLFailsForGood(w) ==
    /\ At(w, "html")
    /\ Error(w)
    /\ unarchived' = unarchived \union {Content(w)}
    /\ Goto(w, "complete")
    /\ UNCHANGED <<store, counters, waiting, page, stopping, vetted, unstored,
                   crashed, done>>

\* Without the bucket every StoreHTML fails.
StoreHTMLFails(w) ==
    /\ At(w, "html")
    /\ Content(w) \notin Bodiless
    /\ \/ /\ Error(w) /\ bucket = "made"
          /\ html' = html \union {Content(w)}
          /\ UNCHANGED unarchived
       \/ /\ Error(w) \/ (bucket = "none" /\ UNCHANGED faults)
          /\ unarchived' = unarchived \union {Content(w)}
          /\ UNCHANGED html
    /\ Goto(w, "page")
    /\ UNCHANGED <<exact, simhashes, indexed, stores, counters, waiting, page,
                   stopping, vetted, unstored, crashed, done>>

StorePageFails(w) ==
    /\ At(w, "page")
    /\ Error(w)
    /\ Create("dynamic") \/ UNCHANGED schema
    /\ \/ /\ indexed' = indexed \union {Content(w)}
          /\ schema' # "none"
          /\ UNCHANGED unstored
       \/ unstored' = unstored \union {Content(w)} /\ UNCHANGED indexed
    /\ Goto(w, AfterPage(w))
    /\ UNCHANGED <<exact, simhashes, html, bucket, counters, waiting, page,
                   stopping, vetted, unarchived, crashed, done>>

QueueLinksFails(w) ==
    /\ At(w, "links")
    /\ Error(w)
    /\ Goto(w, "complete")
    /\ UNCHANGED <<store, counters, waiting, page, stopping, history>>

\* The errors of Complete and Fail are not looked at.
FailFails(w) ==
    /\ At(w, "fail")
    /\ Error(w)
    /\ failed' \in {failed, failed + 1}
    /\ Goto(w, "idle")
    /\ UNCHANGED <<store, completed, waiting, page, stopping, history>>

CompleteFails(w) ==
    /\ At(w, "complete")
    /\ Error(w)
    /\ completed' \in {completed, completed + 1}
    /\ done' = done \union {page[w]}
    /\ Goto(w, "idle")
    /\ UNCHANGED <<store, failed, waiting, page, stopping, vetted, unarchived,
                   unstored, crashed>>

\* SIGINT or SIGTERM: the context is cancelled under whatever is going on.
Stop(w) ==
    /\ w \notin stopping
    /\ stopping' = stopping \union {w}
    /\ UNCHANGED <<store, counters, waiting, pc, page, history, faults>>

\* The process dies and is started again, unless it was told to stop.
Crash(w) ==
    /\ ~At(w, "stopped")
    /\ faults < MaxFaults
    /\ faults' = faults + 1
    /\ crashed' = crashed \union {c \in Contents : c = Content(w) /\ OnTheWay(w)}
    /\ Goto(w, IF w \in stopping THEN "stopped" ELSE "index")
    /\ UNCHANGED <<store, counters, waiting, page, stopping, vetted, unarchived,
                   unstored, done>>

Start(w) == IndexExists(w) \/ CreateIndex(w) \/ BucketExists(w) \/ MakeBucket(w)

Step(w) ==
    \/ Start(w)
    \/ Take(w) \/ Exit(w) \/ Robots(w) \/ Crawl(w) \/ Fail(w)
    \/ CheckExact(w) \/ FindNearDuplicate(w) \/ AddExact(w) \/ AddSimHash(w)
    \/ StoreHTML(w) \/ StorePage(w) \/ QueueLinks(w) \/ Complete(w)

Failure(w) ==
    \/ StartFails(w) \/ DedupFails(w) \/ StoreHTMLFails(w) \/ StorePageFails(w)
    \/ QueueLinksFails(w) \/ FailFails(w) \/ CompleteFails(w)

Next == \E w \in Workers : Step(w) \/ Failure(w) \/ Stop(w) \/ Crash(w)

Spec == Init /\ [][Next]_vars

\* The calls that return in the end.  The clients of Redis, MinIO, robots.txt,
\* Colly and Chrome have timeouts.  The client of OpenSearch has none
\* (opensearch.go:28-35): a request to it may hang until its context is
\* cancelled, and Indices.Exists, which has no context (:67), for good.
Returns(w) ==
    /\ ~ At(w, "index")
    /\ pc[w] \in {"create", "page"} => w \in stopping

\* A worker that can go on does.  No signal and no crash need come.
FairSpec == Spec /\ \A w \in Workers : WF_vars(Returns(w) /\ (Step(w) \/ Failure(w)))

(******************************* Properties *******************************)

\* Types; and a page is in the hands of one worker, or still in the frontier,
\* or finished, never two of them.
TypeOK ==
    /\ exact \subseteq Contents /\ simhashes \subseteq Hashes
    /\ html \subseteq Contents /\ indexed \subseteq Contents
    /\ bucket \in {"none", "made"} /\ schema \in {"none", "mapped", "dynamic"}
    /\ completed \in Nat /\ failed \in Nat /\ faults \in 0..MaxFaults
    /\ pc \in [Workers -> Labels] /\ page \in [Workers -> Pages]
    /\ waiting \subseteq Pages /\ done \subseteq Pages
    /\ stopping \subseteq Workers
    /\ vetted \in [Workers -> SUBSET Contents]
    /\ unarchived \subseteq Contents /\ unstored \subseteq Contents
    /\ crashed \subseteq Contents
    /\ waiting \intersect done = {}
    /\ \A w \in Workers : Busy(w) =>
          /\ page[w] \notin waiting \union done
          /\ \A v \in Workers \ {w} : Busy(v) => page[v] # page[w]

\* A content that is stored, or about to be, or that a fault took away.
Findable(c) ==
    \/ c \in indexed \union unstored \union crashed
    \/ \E w \in Workers : OnTheWay(w) /\ Content(w) = c

\* That holds of x or of a content with a fingerprint near to that of x.
Represented(x) ==
    \E c \in Contents :
        /\ c = x \/ <<SimHashOf[x], SimHashOf[c]>> \in Near
        /\ Findable(c)

\* CheckAndStore stores the hash before the page is stored (content.go:51,
\* worker/main.go:246), and from then on every copy counts as a duplicate.
\* What the code keeps of that: whatever is in content:hash:exact is indexed or
\* on its way there.  A StorePage that fails and a worker that dies do leave a
\* hash without a page, for good, and are excused; no error of the de-duplication,
\* of the archive or of the counters does, and no race or shutdown signal but by way
\* of a StorePage that fails.
HashedIsFindable == \A c \in exact : Findable(c)

\* A page that counts as crawled can be searched for: it, or a page whose
\* fingerprint is near, is stored (or on its way, or lost as above), however
\* the checks of different workers interleave (worker/main.go:218-287).
CompletedIsFindable == \A p \in done : Represented(ContentOf[p])

\* The check and the two SADDs are separate commands (content.go:33-56), so
\* two workers may both pass contents that are near-duplicates.  But one
\* worker never does, in spite of all errors and restarts: of n similar
\* contents, CheckAndStore accepts no more than there are workers.
VettedAreDissimilar ==
    \A w \in Workers : \A c, d \in vetted[w] :
        c # d => <<SimHashOf[c], SimHashOf[d]>> \notin Near

\* The raw HTML is stored before the page (worker/main.go:235-246): what the
\* index has is in the archive, unless StoreHTML failed for it.
IndexedIsArchived == indexed \subseteq html \union unarchived \union Bodiless

\* Workers that start together race for the bucket and the index, and the losers
\* go on after an error (worker/main.go:64-77).  Still nobody stores a page
\* before both exist, so that StoreHTML finds the bucket and OpenSearch never
\* guesses a mapping, which no later EnsureIndex would correct: unless one of
\* the requests failed for a reason of its own.
StoresAreReady ==
    \A w \in Workers : pc[w] \in {"html", "page"} =>
        faults > 0 \/ (bucket = "made" /\ schema = "mapped")

\* A worker whose context is cancelled comes to its end, in whatever request the
\* signal finds it: the call returns with an error, or its timeout ends it, and
\* the loop looks at the context (worker/main.go:156-160).  The one exception is a
\* worker that asks OpenSearch whether the index exists (opensearch.go:67).
StoppingWorkerStops ==
    \A w \in Workers : w \in stopping /\ ~ At(w, "index") ~> At(w, "stopped")
=============================================================================
