---------------------------- MODULE WorkerProofs ----------------------------
(***************************************************************************)
(* Theorems about Worker, for any workers, pages, contents, fingerprints   *)
(* and number of faults.                                                   *)
(***************************************************************************)
EXTENDS Worker, FiniteSetTheorems, TLAPS

USE DEF store, stores, counters, history

(********************************** Types **********************************)

LEMMA InitTyped == Init => TypeOK
BY WorkerAssumption DEF Init, TypeOK, Labels, Starting, Busy

\* A step of one worker: its failures, the signal and the crash included.
WorkerStep(w) == Step(w) \/ Failure(w) \/ Stop(w) \/ Crash(w)

LEMMA StepTyped ==
    ASSUME TypeOK, NEW w \in Workers, WorkerStep(w)
    PROVE  TypeOK'
<1> USE WorkerAssumption DEF TypeOK, Goto, At, Labels, Dedup, Starting, Busy
<1>1. CASE Take(w) BY <1>1 DEF Take
<1>2. CASE Exit(w) BY <1>2 DEF Exit
<1>3. CASE Robots(w) BY <1>3 DEF Robots
<1>4. CASE Crawl(w) BY <1>4 DEF Crawl, CrawlStatic, CrawlRendered
<1>5. CASE Fail(w) BY <1>5 DEF Fail
<1>6. CASE CheckExact(w) BY <1>6 DEF CheckExact
<1>7. CASE FindNearDuplicate(w) BY <1>7 DEF FindNearDuplicate
<1>8. CASE AddExact(w) BY <1>8 DEF AddExact, Content
<1>9. CASE AddSimHash(w) BY <1>9 DEF AddSimHash, Content
<1>10. CASE StoreHTML(w) BY <1>10 DEF StoreHTML, Content
<1>11. CASE StorePage(w) BY <1>11 DEF StorePage, AfterPage, Content, Create
<1>12. CASE QueueLinks(w) BY <1>12 DEF QueueLinks
<1>13. CASE Complete(w) BY <1>13 DEF Complete
<1>14. CASE DedupFails(w) BY <1>14 DEF DedupFails, Error, Fault, Content
<1>15. CASE StoreHTMLFails(w) BY <1>15 DEF StoreHTMLFails, Error, Fault, Content
<1>16. CASE StorePageFails(w) BY <1>16 DEF StorePageFails, Error, Fault, AfterPage, Content, Create
<1>17. CASE QueueLinksFails(w) BY <1>17 DEF QueueLinksFails, Error, Fault
<1>18. CASE FailFails(w) BY <1>18 DEF FailFails, Error, Fault
<1>19. CASE CompleteFails(w) BY <1>19 DEF CompleteFails, Error, Fault
<1>20. CASE Stop(w) BY <1>20 DEF Stop
<1>21. CASE Crash(w) BY <1>21 DEF Crash, Content
<1>22. CASE Start(w)
    BY <1>22 DEF Start, IndexExists, CreateIndex, BucketExists, MakeBucket, Create
<1>23. CASE StartFails(w) BY <1>23 DEF StartFails, Error, Fault, Create
<1> QED
    BY <1>1, <1>2, <1>3, <1>4, <1>5, <1>6, <1>7, <1>8, <1>9, <1>10, <1>11,
       <1>12, <1>13, <1>14, <1>15, <1>16, <1>17, <1>18, <1>19, <1>20, <1>21, <1>22, <1>23
       DEF WorkerStep, Step, Failure

LEMMA StutterTyped == TypeOK /\ UNCHANGED vars => TypeOK'
BY DEF TypeOK, Busy, vars

\* The types; and no page is in two hands, or both in the frontier and done.
THEOREM TypeCorrect == Spec => []TypeOK
<1>1. TypeOK /\ [Next]_vars => TypeOK'
    BY StepTyped, StutterTyped DEF Next, WorkerStep
<1> QED BY <1>1, InitTyped, PTL DEF Spec

(********************* One worker and its near-duplicates ******************)

\* Why one worker never passes two similar contents: the fingerprints of what
\* it passed are in Redis, and what it is about to pass was compared with them.
Compared ==
    \A w \in Workers : \A c \in vetted[w] :
        /\ SimHashOf[c] \in simhashes
        /\ pc[w] \in {"addExact", "addSim"} =>
              <<SimHashOf[Content(w)], SimHashOf[c]>> \notin Near

VInv == TypeOK /\ Compared /\ VettedAreDissimilar

LEMMA StepKeepsCompared ==
    ASSUME VInv, NEW w \in Workers, WorkerStep(w)
    PROVE  VInv'
<1>1. TypeOK' BY StepTyped DEF VInv
<1> USE WorkerAssumption DEF VInv, TypeOK, Goto, At, Labels, Dedup, Starting, Busy, Content
<1>2. SUFFICES Compared' /\ VettedAreDissimilar'
    BY <1>1 DEF VInv
<1> USE DEF Compared, VettedAreDissimilar
<1>3. CASE Take(w) BY <1>3 DEF Take
<1>4. CASE Exit(w) \/ Robots(w) \/ Crawl(w) \/ Fail(w) \/ CheckExact(w)
           \/ StoreHTML(w) \/ QueueLinks(w) \/ Complete(w)
    BY <1>4 DEF Exit, Robots, Crawl, CrawlStatic, CrawlRendered, Fail, CheckExact,
                StoreHTML, QueueLinks, Complete
<1>5. CASE FindNearDuplicate(w)
    <2>1. UNCHANGED <<vetted, simhashes, page>> /\ \A v \in Workers \ {w} : pc'[v] = pc[v]
        BY <1>5 DEF FindNearDuplicate
    <2>2. pc'[w] \in {"addExact", "addSim"} => ~SimilarStored(Content(w))
        BY <1>5 DEF FindNearDuplicate
    <2>3. VettedAreDissimilar' BY <2>1
    <2>4. Compared' BY <2>1, <2>2 DEF SimilarStored
    <2> QED BY <2>3, <2>4
<1>6. CASE AddExact(w) BY <1>6 DEF AddExact
<1>7. CASE AddSimHash(w)
    <2>1. /\ vetted' = [vetted EXCEPT ![w] = @ \union {Content(w)}]
          /\ simhashes' = simhashes \union {SimHashOf[Content(w)]}
        BY <1>7 DEF AddSimHash
    <2>2. ASSUME NEW v \in Workers, NEW c \in vetted'[v]
          PROVE  SimHashOf[c] \in simhashes'
        <3>1. c \in vetted[v] \/ c = Content(w)
            BY <2>2, <2>1
        <3> QED  BY <2>1, <3>1
    <2>3. ASSUME NEW v \in Workers, pc'[v] \in {"addExact", "addSim"}
          PROVE  v # w /\ pc[v] = pc'[v] /\ vetted'[v] = vetted[v] /\ page' = page
        BY <1>7, <2>3 DEF AddSimHash
    <2>4. Compared' BY <2>2, <2>3
    <2>5. ASSUME NEW c \in vetted[w]
          PROVE  /\ <<SimHashOf[Content(w)], SimHashOf[c]>> \notin Near
                 /\ <<SimHashOf[c], SimHashOf[Content(w)]>> \notin Near
        BY <1>7 DEF AddSimHash
    <2>6. ASSUME NEW v \in Workers, NEW c \in vetted'[v], NEW d \in vetted'[v], c # d
          PROVE  <<SimHashOf[c], SimHashOf[d]>> \notin Near
        <3>1. CASE c \in vetted[v] /\ d \in vetted[v]
            BY <2>6, <3>1
        <3>2. CASE c \notin vetted[v] \/ d \notin vetted[v]
            <4>1. v = w /\ vetted'[w] = vetted[w] \union {Content(w)}
                BY <2>1, <2>6, <3>2
            <4> QED BY <2>5, <2>6, <3>2, <4>1
        <3> QED BY <3>1, <3>2
    <2> QED BY <2>4, <2>6
<1>8. CASE StorePage(w) BY <1>8 DEF StorePage, AfterPage
<1>9. CASE DedupFails(w) BY <1>9 DEF DedupFails
<1>10. CASE StoreHTMLFails(w) BY <1>10 DEF StoreHTMLFails
<1>11. CASE StorePageFails(w) BY <1>11 DEF StorePageFails, AfterPage
<1>12. CASE QueueLinksFails(w) \/ FailFails(w) \/ CompleteFails(w)
    BY <1>12 DEF QueueLinksFails, FailFails, CompleteFails
<1>13. CASE Stop(w) BY <1>13 DEF Stop
<1>14. CASE Crash(w) BY <1>14 DEF Crash
<1>15. CASE Start(w) \/ StartFails(w)
    BY <1>15 DEF Start, IndexExists, CreateIndex, BucketExists, MakeBucket, StartFails
<1> QED
    BY <1>3, <1>4, <1>5, <1>6, <1>7, <1>8, <1>9, <1>10, <1>11, <1>12, <1>13, <1>14, <1>15
       DEF WorkerStep, Step, Failure

\* For any number of workers and faults, no worker passes two near-duplicates.
THEOREM OneWorkerVetsDissimilar == Spec => []VettedAreDissimilar
<1>1. Init => VInv
    BY InitTyped DEF Init, VInv, Compared, VettedAreDissimilar
<1>2. VInv /\ [Next]_vars => VInv'
    <2>1. VInv /\ UNCHANGED vars => VInv'
        BY StutterTyped DEF VInv, Compared, VettedAreDissimilar, Content, vars
    <2> QED BY <2>1, StepKeepsCompared DEF Next, WorkerStep
<1>3. VInv => VettedAreDissimilar BY DEF VInv
<1> QED BY <1>1, <1>2, <1>3, PTL DEF Spec

\* What the race between the check and the two SADDs (content.go:33-56) can do at
\* most: of contents that are all near to each other, CheckAndStore passes no more
\* than there are workers.
Passed == UNION {vetted[w] : w \in Workers}
Alike(S) == \A c, d \in S : <<SimHashOf[c], SimHashOf[d]>> \in Near
FewAlikePass ==
    \A S \in SUBSET Passed :
        Alike(S) => IsFiniteSet(S) /\ Cardinality(S) <= Cardinality(Workers)

\* At most as many near-duplicates pass as there are workers, for any finite number of
\* workers, and any number of pages, errors, crashes and restarts: each of them was
\* passed by a worker of its own.
THEOREM FewNearDuplicates ==
    ASSUME IsFiniteSet(Workers)
    PROVE  Spec => []FewAlikePass
<1>1. VettedAreDissimilar => FewAlikePass
    <2> SUFFICES ASSUME VettedAreDissimilar, NEW S \in SUBSET Passed, Alike(S)
                 PROVE  IsFiniteSet(S) /\ Cardinality(S) <= Cardinality(Workers)
        BY DEF FewAlikePass
    <2> DEFINE passer(c) == CHOOSE w \in Workers : c \in vetted[w]
               by == [c \in S |-> passer(c)]
    <2>1. ASSUME NEW c \in S PROVE passer(c) \in Workers /\ c \in vetted[passer(c)]
        <3>1. \E w \in Workers : c \in vetted[w] BY DEF Passed
        <3> QED BY <3>1
    <2> HIDE DEF passer
    <2>2. by \in [S -> Workers] BY <2>1
    <2>3. \A c \in S : by[c] \in Workers /\ c \in vetted[by[c]] BY <2>1
    <2> HIDE DEF by
    <2>4. ASSUME NEW c \in S, NEW d \in S, by[c] = by[d] PROVE c = d
        <3>1. <<SimHashOf[c], SimHashOf[d]>> \in Near BY DEF Alike
        <3> QED BY <2>3, <2>4, <3>1 DEF VettedAreDissimilar
    <2>5. by \in Injection(S, Workers) BY <2>2, <2>4 DEF Injection, IsInjective
    <2> QED BY <2>5, FS_Injection
<1> QED BY <1>1, OneWorkerVetsDissimilar, PTL

(******************************* The archive *******************************)

\* Whoever is about to store a page has stored its HTML, or failed to.
ArchivedFirst ==
    \A w \in Workers : At(w, "page") =>
        Content(w) \in html \union unarchived \union Bodiless

AInv == TypeOK /\ ArchivedFirst /\ IndexedIsArchived

LEMMA StepKeepsArchive ==
    ASSUME AInv, NEW w \in Workers, WorkerStep(w)
    PROVE  AInv'
<1>1. TypeOK' BY StepTyped DEF AInv
<1> USE DEF AInv, TypeOK, Goto, At, Labels, Dedup, Starting, Busy, Content, ArchivedFirst,
            IndexedIsArchived
<1>2. SUFFICES ArchivedFirst' /\ IndexedIsArchived'
    BY <1>1 DEF AInv
<1>3. CASE Take(w) BY <1>3 DEF Take
<1>4. CASE Exit(w) \/ Robots(w) \/ Crawl(w) \/ Fail(w) \/ CheckExact(w)
           \/ QueueLinks(w) \/ Complete(w)
    BY <1>4 DEF Exit, Robots, Crawl, CrawlStatic, CrawlRendered, Fail, CheckExact,
                QueueLinks, Complete
<1>5. CASE FindNearDuplicate(w) \/ AddExact(w) \/ AddSimHash(w)
    BY <1>5 DEF FindNearDuplicate, AddExact, AddSimHash
<1>6. CASE StoreHTML(w) BY <1>6 DEF StoreHTML
<1>7. CASE StorePage(w) BY <1>7 DEF StorePage, AfterPage
<1>8. CASE DedupFails(w) BY <1>8 DEF DedupFails
<1>9. CASE StoreHTMLFails(w) BY <1>9 DEF StoreHTMLFails
<1>10. CASE StorePageFails(w) BY <1>10 DEF StorePageFails, AfterPage
<1>11. CASE QueueLinksFails(w) \/ FailFails(w) \/ CompleteFails(w)
    BY <1>11 DEF QueueLinksFails, FailFails, CompleteFails
<1>12. CASE Stop(w) BY <1>12 DEF Stop
<1>13. CASE Crash(w) BY <1>13 DEF Crash
<1>14. CASE Start(w) \/ StartFails(w)
    BY <1>14 DEF Start, IndexExists, CreateIndex, BucketExists, MakeBucket, StartFails
<1> QED
    BY <1>3, <1>4, <1>5, <1>6, <1>7, <1>8, <1>9, <1>10, <1>11, <1>12, <1>13, <1>14
       DEF WorkerStep, Step, Failure

\* What is indexed is in the archive, or StoreHTML failed for it, or it is empty.
THEOREM ArchiveIsComplete == Spec => []IndexedIsArchived
<1>1. Init => AInv
    BY InitTyped DEF Init, AInv, ArchivedFirst, IndexedIsArchived, At
<1>2. AInv /\ [Next]_vars => AInv'
    <2>1. AInv /\ UNCHANGED vars => AInv'
        BY StutterTyped DEF AInv, ArchivedFirst, IndexedIsArchived, At, Content, vars
    <2> QED BY <2>1, StepKeepsArchive DEF Next, WorkerStep
<1>3. AInv => IndexedIsArchived BY DEF AInv
<1> QED BY <1>1, <1>2, <1>3, PTL DEF Spec

(******************************** The stores *******************************)

\* How far a worker is with the stores: past EnsureIndex the index is mapped,
\* past EnsureBucket the bucket is there, unless a request failed, or the worker
\* was told to stop and will not take a page.
IndexEnsured == faults > 0 \/ schema = "mapped"
StopsAtOnce(w) == w \in stopping /\ pc[w] \in Starting \union {"idle", "stopped"}
Ensured ==
    /\ schema = "dynamic" => faults > 0
    /\ \A w \in Workers : ~StopsAtOnce(w) =>
         /\ pc[w] \in {"bucket", "make"} => IndexEnsured
         /\ pc[w] \notin Starting \union {"stopped"} => IndexEnsured /\ (faults > 0 \/ bucket = "made")

SInv == TypeOK /\ Ensured

LEMMA StepKeepsEnsured ==
    ASSUME SInv, NEW w \in Workers, WorkerStep(w)
    PROVE  SInv'
<1>1. TypeOK' BY StepTyped DEF SInv
<1> USE WorkerAssumption DEF SInv, TypeOK, Goto, At, Labels, Dedup, Starting, Ensured,
        IndexEnsured, StopsAtOnce
<1>2. SUFFICES Ensured' BY <1>1
<1>3. CASE Start(w)
    BY <1>3 DEF Start, IndexExists, CreateIndex, BucketExists, MakeBucket, Create
<1>4. CASE StartFails(w) BY <1>4 DEF StartFails, Error, Fault, Create
<1>5. CASE Take(w) \/ Exit(w) BY <1>5 DEF Take, Exit
<1>6. CASE Robots(w) \/ Crawl(w) \/ Fail(w)
    BY <1>6 DEF Robots, Crawl, CrawlStatic, CrawlRendered, Fail
<1>7. CASE CheckExact(w) \/ FindNearDuplicate(w) \/ AddExact(w) \/ AddSimHash(w)
    BY <1>7 DEF CheckExact, FindNearDuplicate, AddExact, AddSimHash
<1>8. CASE StoreHTML(w) \/ StorePage(w)
    BY <1>8 DEF StoreHTML, StorePage, AfterPage, Create
<1>9. CASE QueueLinks(w) \/ Complete(w) BY <1>9 DEF QueueLinks, Complete
<1>10. CASE DedupFails(w) BY <1>10 DEF DedupFails, Error, Fault
<1>11. CASE StoreHTMLFails(w) BY <1>11 DEF StoreHTMLFails, Error, Fault
<1>12. CASE StorePageFails(w) BY <1>12 DEF StorePageFails, Error, Fault, AfterPage, Create
<1>13. CASE QueueLinksFails(w) \/ FailFails(w) \/ CompleteFails(w)
    BY <1>13 DEF QueueLinksFails, FailFails, CompleteFails, Error, Fault
<1>14. CASE Stop(w) BY <1>14 DEF Stop
<1>15. CASE Crash(w) BY <1>15 DEF Crash
<1> QED
    BY <1>3, <1>4, <1>5, <1>6, <1>7, <1>8, <1>9, <1>10, <1>11, <1>12, <1>13, <1>14, <1>15
       DEF WorkerStep, Step, Failure

\* Whatever the race at the start, nobody stores a page before the bucket and the
\* mapped index exist, for any number of workers.
THEOREM StoresComeFirst == Spec => []StoresAreReady
<1>1. Init => SInv
    BY InitTyped DEF Init, SInv, Ensured, IndexEnsured, Starting
<1>2. SInv /\ [Next]_vars => SInv'
    <2>1. SInv /\ UNCHANGED vars => SInv'
        BY StutterTyped DEF SInv, Ensured, IndexEnsured, StopsAtOnce, vars
    <2> QED BY <2>1, StepKeepsEnsured DEF Next, WorkerStep
<1>3. SInv => StoresAreReady
    BY DEF SInv, Ensured, IndexEnsured, StopsAtOnce, StoresAreReady, Starting
<1> QED BY <1>1, <1>2, <1>3, PTL DEF Spec

(************************* Hashes and their pages **************************)

\* The other facts the hashes rest on: between the two SADDs the first is done;
\* a fingerprint is that of a content whose hash is stored; and whoever has
\* dealt with a page, as a duplicate or by storing it, leaves it represented.
FirstHashIsStored == \A w \in Workers : At(w, "addSim") => Content(w) \in exact
FingerprintHasContent == \A h \in simhashes : \E c \in exact : SimHashOf[c] = h
DealtWithIsRepresented ==
    \A w \in Workers : pc[w] \in {"links", "complete"} => Represented(Content(w))

HInv ==
    /\ TypeOK
    /\ FirstHashIsStored
    /\ FingerprintHasContent
    /\ HashedIsFindable
    /\ DealtWithIsRepresented
    /\ CompletedIsFindable

\* The step by which a content stops being on its way stores it or records why
\* not: no step makes a content unfindable.
LEMMA StepKeepsFindable ==
    ASSUME TypeOK, NEW w \in Workers, WorkerStep(w), NEW c, Findable(c)
    PROVE  Findable(c)'
<1> USE DEF TypeOK, Goto, At, Content, Starting
<1>1. CASE c \in indexed \union unstored \union crashed
    <2>1. indexed \subseteq indexed' /\ unstored \subseteq unstored' /\ crashed \subseteq crashed'
        BY DEF WorkerStep, Step, Failure, Start, StartFails, IndexExists, CreateIndex,
               BucketExists, MakeBucket, Take, Exit, Robots, Crawl, CrawlStatic,
               CrawlRendered, Fail, CheckExact,
               FindNearDuplicate, AddExact, AddSimHash, StoreHTML, StorePage,
               QueueLinks, Complete, DedupFails, StoreHTMLFails, StorePageFails,
               QueueLinksFails, FailFails, CompleteFails, Stop, Crash
    <2> QED BY <1>1, <2>1 DEF Findable
<1>2. CASE OnTheWay(w) /\ Content(w) = c
    <2> USE <1>2 DEF OnTheWay
    <2>1. CASE AddSimHash(w) \/ StoreHTML(w)
        BY <2>1 DEF AddSimHash, StoreHTML, Findable
    <2>2. CASE StorePage(w) BY <2>2 DEF StorePage, Findable
    <2>3. CASE DedupFails(w) BY <2>3 DEF DedupFails, Findable
    <2>4. CASE StoreHTMLFails(w) BY <2>4 DEF StoreHTMLFails, Findable
    <2>5. CASE StorePageFails(w) BY <2>5 DEF StorePageFails, Findable
    <2>6. CASE Stop(w) BY <2>6 DEF Stop, Findable
    <2>7. CASE Crash(w)
        <3>1. c \in crashed' BY <2>7, WorkerAssumption DEF Crash
        <3> QED BY <3>1 DEF Findable
    <2> QED
        BY <2>1, <2>2, <2>3, <2>4, <2>5, <2>6, <2>7
           DEF WorkerStep, Step, Failure, Start, StartFails, IndexExists, CreateIndex,
               BucketExists, MakeBucket, Take, Exit, Robots, Crawl, CrawlStatic,
               CrawlRendered, Fail, CheckExact,
               FindNearDuplicate, AddExact, QueueLinks, Complete, QueueLinksFails,
               FailFails, CompleteFails
<1>3. ASSUME NEW v \in Workers, v # w, OnTheWay(v), Content(v) = c
      PROVE  Findable(c)'
    <2>1. pc'[v] = pc[v] /\ page'[v] = page[v]
        BY <1>3 DEF WorkerStep, Step, Failure, Start, StartFails, IndexExists, CreateIndex,
               BucketExists, MakeBucket, Take, Exit, Robots, Crawl, CrawlStatic,
               CrawlRendered, Fail, CheckExact,
               FindNearDuplicate, AddExact, AddSimHash, StoreHTML, StorePage,
               QueueLinks, Complete, DedupFails, StoreHTMLFails, StorePageFails,
               QueueLinksFails, FailFails, CompleteFails, Stop, Crash
    <2> QED BY <1>3, <2>1 DEF Findable, OnTheWay
<1> QED BY <1>1, <1>2, <1>3 DEF Findable

LEMMA StepKeepsRepresented ==
    ASSUME TypeOK, NEW w \in Workers, WorkerStep(w), NEW x, Represented(x)
    PROVE  Represented(x)'
BY StepKeepsFindable DEF Represented

\* Findable contents represent themselves.
LEMMA FindableIsRepresented ==
    ASSUME NEW x \in Contents, Findable(x)
    PROVE  Represented(x)
BY DEF Represented

LEMMA FindableIsRepresentedNext ==
    ASSUME NEW x \in Contents, Findable(x)'
    PROVE  Represented(x)'
BY DEF Represented

\* The hashes.
LEMMA StepKeepsHashes ==
    ASSUME HInv, NEW w \in Workers, WorkerStep(w)
    PROVE  FirstHashIsStored' /\ FingerprintHasContent' /\ HashedIsFindable'
<1> USE WorkerAssumption DEF HInv, TypeOK, Goto, At, Labels, Dedup, Starting, Busy, Content
<1>1. \A c : Findable(c) => Findable(c)' BY StepKeepsFindable
<1>2. CASE AddExact(w)
    <2>1. /\ exact' = exact \union {Content(w)}
          /\ OnTheWay(w)' /\ Content(w)' = Content(w) /\ simhashes' = simhashes
        BY <1>2 DEF AddExact, OnTheWay
    <2>2. FirstHashIsStored' BY <1>2 DEF AddExact, FirstHashIsStored
    <2>3. FingerprintHasContent' BY <2>1 DEF FingerprintHasContent
    <2>4. Findable(Content(w))' BY <2>1 DEF Findable
    <2>5. HashedIsFindable' BY <1>1, <2>1, <2>4 DEF HashedIsFindable
    <2> QED BY <2>2, <2>3, <2>5
<1>3. CASE DedupFails(w)
    <2>1. FirstHashIsStored' BY <1>3 DEF DedupFails, FirstHashIsStored
    <2>2. FingerprintHasContent'
        BY <1>3 DEF DedupFails, FingerprintHasContent, FirstHashIsStored
    <2>3. /\ exact' \subseteq exact \union {Content(w)}
          /\ OnTheWay(w)' /\ Content(w)' = Content(w)
        BY <1>3 DEF DedupFails, OnTheWay
    <2>4. Findable(Content(w))' BY <2>3 DEF Findable
    <2>5. HashedIsFindable' BY <1>1, <2>3, <2>4 DEF HashedIsFindable
    <2> QED BY <2>1, <2>2, <2>5
<1>4. CASE AddSimHash(w)
    <2>1. FirstHashIsStored' BY <1>4 DEF AddSimHash, FirstHashIsStored
    <2>2. FingerprintHasContent'
        BY <1>4 DEF AddSimHash, FingerprintHasContent, FirstHashIsStored
    <2>3. HashedIsFindable' BY <1>1, <1>4 DEF AddSimHash, HashedIsFindable
    <2> QED BY <2>1, <2>2, <2>3
<1>5. CASE ~(AddExact(w) \/ DedupFails(w) \/ AddSimHash(w))
    <2>1. /\ exact' = exact /\ simhashes' = simhashes
          /\ \A v \in Workers : pc'[v] = "addSim" => pc[v] = "addSim" /\ page'[v] = page[v]
        BY <1>5 DEF WorkerStep, Step, Failure, Start, StartFails, IndexExists, CreateIndex,
               BucketExists, MakeBucket, Take, Exit, Robots, Crawl, CrawlStatic,
               CrawlRendered, Fail, CheckExact,
               FindNearDuplicate, StoreHTML, StorePage, AfterPage,
               QueueLinks, Complete, StoreHTMLFails, StorePageFails,
               QueueLinksFails, FailFails, CompleteFails, Stop, Crash
    <2> QED
        BY <1>1, <2>1 DEF FirstHashIsStored, FingerprintHasContent, HashedIsFindable
<1> QED BY <1>2, <1>3, <1>4, <1>5

\* The pages.
LEMMA StepKeepsPages ==
    ASSUME HInv, NEW w \in Workers, WorkerStep(w)
    PROVE  DealtWithIsRepresented' /\ CompletedIsFindable'
<1> USE WorkerAssumption DEF HInv, TypeOK, Goto, At, Labels, Dedup, Starting, Busy, Content
<1>1. \A x : Represented(x) => Represented(x)' BY StepKeepsRepresented
\* Another worker that has dealt with its page stays where it was.
<1>2. ASSUME NEW v \in Workers, v # w, pc'[v] \in {"links", "complete"}
      PROVE  Represented(Content(v))'
    <2>1. pc'[v] = pc[v] /\ page'[v] = page[v]
        BY <1>2 DEF WorkerStep, Step, Failure, Start, StartFails, IndexExists, CreateIndex,
               BucketExists, MakeBucket, Take, Exit, Robots, Crawl, CrawlStatic,
               CrawlRendered, Fail, CheckExact,
               FindNearDuplicate, AddExact, AddSimHash, StoreHTML, StorePage,
               QueueLinks, Complete, DedupFails, StoreHTMLFails, StorePageFails,
               QueueLinksFails, FailFails, CompleteFails, Stop, Crash
    <2>2. Represented(Content(v)) BY <1>2, <2>1 DEF DealtWithIsRepresented
    <2>3. Content(v)' = Content(v) BY <2>1
    <2> QED BY <1>1, <2>2, <2>3
\* The worker that takes the step.
<1>3. ASSUME pc'[w] \in {"links", "complete"}
      PROVE  Represented(Content(w))'
    <2>0. Content(w) \in Contents OBVIOUS
    <2>1. CASE CheckExact(w)
        <3>1. Content(w) \in exact /\ Content(w)' = Content(w)
            BY <1>3, <2>1 DEF CheckExact
        <3>2. Represented(Content(w))
            BY <2>0, <3>1, FindableIsRepresented DEF HashedIsFindable
        <3> QED BY <1>1, <3>1, <3>2
    <2>2. CASE FindNearDuplicate(w)
        <3>1. SimilarStored(Content(w)) /\ Content(w)' = Content(w)
            BY <1>3, <2>2 DEF FindNearDuplicate
        <3>2. PICK c \in exact : <<SimHashOf[Content(w)], SimHashOf[c]>> \in Near
            BY <3>1 DEF SimilarStored, FingerprintHasContent
        <3>3. Represented(Content(w))
            BY <3>2 DEF Represented, HashedIsFindable
        <3> QED BY <1>1, <3>1, <3>3
    <2>3. CASE StorePage(w) \/ StorePageFails(w)
        <3>1. Findable(Content(w))' /\ Content(w)' = Content(w)
            BY <2>3 DEF StorePage, StorePageFails, Findable
        <3> QED BY <2>0, <3>1, FindableIsRepresentedNext
    <2>4. CASE ~(CheckExact(w) \/ FindNearDuplicate(w) \/ StorePage(w) \/ StorePageFails(w))
        <3>1. pc[w] \in {"links", "complete"} /\ Content(w)' = Content(w)
            BY <1>3, <2>4
               DEF WorkerStep, Step, Failure, Start, StartFails, IndexExists, CreateIndex,
               BucketExists, MakeBucket, Take, Exit, Robots, Crawl, CrawlStatic,
               CrawlRendered, Fail, AddExact,
                   AddSimHash, StoreHTML, QueueLinks, Complete, DedupFails, StoreHTMLFails,
                   QueueLinksFails, FailFails, CompleteFails, Stop, Crash
        <3> QED BY <1>1, <3>1 DEF DealtWithIsRepresented
    <2> QED BY <2>1, <2>2, <2>3, <2>4
<1>4. DealtWithIsRepresented' BY <1>2, <1>3 DEF DealtWithIsRepresented
<1>5. done' \subseteq done \union {p \in {page[w]} : pc[w] = "complete"}
    BY DEF WorkerStep, Step, Failure, Start, StartFails, IndexExists, CreateIndex,
               BucketExists, MakeBucket, Take, Exit, Robots, Crawl, CrawlStatic,
               CrawlRendered, Fail, CheckExact,
           FindNearDuplicate, AddExact, AddSimHash, StoreHTML, StorePage,
           QueueLinks, Complete, DedupFails, StoreHTMLFails, StorePageFails,
           QueueLinksFails, FailFails, CompleteFails, Stop, Crash
<1>6. CompletedIsFindable'
    BY <1>1, <1>5 DEF CompletedIsFindable, DealtWithIsRepresented
<1> QED BY <1>4, <1>6

LEMMA HInvHolds == Spec => []HInv
<1>1. Init => HInv
    BY InitTyped DEF Init, HInv, FirstHashIsStored, FingerprintHasContent,
       HashedIsFindable, DealtWithIsRepresented, CompletedIsFindable, At
<1>2. HInv /\ [Next]_vars => HInv'
    <2>1. HInv /\ UNCHANGED vars => HInv'
        BY StutterTyped DEF HInv, FirstHashIsStored, FingerprintHasContent,
           HashedIsFindable, DealtWithIsRepresented, CompletedIsFindable,
           Represented, Findable, OnTheWay, At, Content, vars
    <2>2. ASSUME HInv, NEW w \in Workers, WorkerStep(w)
          PROVE  HInv'
        BY <2>2, StepTyped, StepKeepsHashes, StepKeepsPages DEF HInv
    <2> QED BY <2>1, <2>2 DEF Next, WorkerStep
<1> QED BY <1>1, <1>2, PTL DEF Spec

\* No hash outlives its page, but for a page a recorded fault took away.
THEOREM HashesHavePages == Spec => []HashedIsFindable
BY HInvHolds, PTL DEF HInv

\* What counts as crawled is stored, itself or as a near-duplicate.
THEOREM CompletedArePresent == Spec => []CompletedIsFindable
BY HInvHolds, PTL DEF HInv

=============================================================================
