# A TLA+ model of go-web-crawler

Specifications, model-checking runs and machine-checked proofs for the crawler in
`src/`. Line references are to the files of this repository (`frontier.go` is
`internal/frontier/frontier.go`, `worker/main.go` is `cmd/worker/main.go`, and so on).

    tlc -config frontier_safety.cfg MCFrontier     # one run
    tlapm FrontierProofs.tla                       # the proofs

## 1. The system

Several processes share one Redis server and talk through nothing else.

| Component | State | Operations | Correct when |
|---|---|---|---|
| URL frontier (`frontier.go`) | Redis: `frontier:host:<host>` (list), `frontier:priority` (sorted set of hosts), `seen:urls` (set) | `AddURLs` = `IsSeen`, `MarkSeen`, `LPUSH`, `ZADD` per URL; `NextURL` = `ZRANGE`, then per host `IsReady`, `RPOP`, `Touch`, `LLen`, `ZREM` | no seen URL is lost, no URL is queued twice, a host with URLs is listed, every listed host is served, depth is bounded |
| Bloom filter (`bloom.go`) | process memory, never saved | `MightContain`, `Add` | a "no" means the URL was never added |
| Politeness manager (`politeness.go`) | Redis: `politeness:<host>` `last_fetch`, `delay_ms` | `IsReady`, `Touch`; `SetDelay`, `RecordError` and `ResetDelay` have no caller | no worker requests the pages of a host faster than its share of the rate |
| Worker (`worker/main.go`) | one loop per process | at the start `EnsureIndex`, `EnsureBucket`; then `NextURL` and `processURL`: robots, fetch, content de-duplication, store, `AddURLs` of the links, `Complete` | every URL taken is finished, links go one level deeper |
| Seeding (`cmd/scheduler`, `cmd/seed-api`, `cmd/cli`) | none | HTTP handlers or a CLI run that call `AddURLs`; concurrent handlers share the process's Bloom filter | who is told "seed added" or "already exists" can rely on it |
| Content de-duplication (`content.go`, `simhash.go`) | Redis: exact hashes, SimHashes | `CheckAndStore` = `SISMEMBER`, `SMEMBERS`, `SADD`, `SADD` | a stored hash has a stored page; one worker passes no two similar contents |
| Robots manager (`robots.go`) | Redis: `robots:<host>` with expiry | `IsAllowed` -> cached or fetched rules, `HSET`, `EXPIRE` | cached rules are behind the site by no more than the TTL and the time an answer takes |
| URL normalisation (`url.go`) and link extraction (`parser.go`) | none | `extractLinks`, `NormalizeURL`, `NewURL` | one key per URL, however it is spelt, met and often normalised |
| Storage (`minio.go`, `opensearch.go`) | MinIO, OpenSearch | create bucket and index, store, search | nothing is stored before both exist |
| Queue clear (`cli/main.go`) | none | `KEYS`, `DEL`, `KEYS`, `DEL` | no URL that stays seen loses its place |
| Statistics (`frontier.go:226`) | Redis: counters | `Stats` = `GET`, `GET`, `ZRANGE`, `LLEN` per host | no URL is counted twice |
| Crawlers, metrics, configuration, deployment | - | - | - |

What makes it hard: every Redis command is atomic and nothing larger is. There is no
transaction, script or lock, so `AddURLs` and `NextURL` of different processes interleave
between any two commands; a process may die between any two; a command may fail after it
took effect, and the go-redis client resends commands whose reply was lost. Errors of
`IsReady`, `Touch`, `LLen` and `ZREM` are ignored by design.

`PROJECT.json` lists the components with what is and is not modelled, and the hazards, each
at its line with the properties that watch it.

## 2. Modules

| Module | Models | Remarks |
|---|---|---|
| `Frontier` | `frontier.go`, `bloom.go`, the callers in the worker and the seeding programs, and the failures | the core: one action per Redis command |
| `Listing` | which hosts with URLs may be missing in `frontier:priority` | `Frontier` with one history variable |
| `AtomicFrontier` | what the queues promise to callers, in atomic steps | refined by `Frontier`, with all its overlaps and failures |
| `Console` | `queue clear`, the answers to seed requests, counters and `Stats` | extends `Frontier`: all of it beside its threads |
| `Politeness` | `politeness.go` as `NextURL` and `processURL` use it, with a clock | complements `Frontier`, which has no clock |
| `Worker` | the start of a worker, `processURL` in full, `content.go`, the two stores, the shutdown signal | complements `Frontier`, to which a page is one choice |
| `Robots` | `robots.go`: the cache in Redis, the site, time | workers share nothing but the cache |
| `Url` | `url.go`, and `extractLinks` of `parser.go` | the way from an href or a seed to a key of `seen:urls` |
| `SimHash` | `simhash.go` | the relation that `Worker` takes as `Near` |
| `MCSite`, `MCFrontier`, `MCListing`, `MCConsole`, `MCWorker`, `MCText` | small instances for TLC | `Politeness` and `Robots` need none |
| `FrontierProofs`, `QueueProofs`, `ConsoleProofs`, `PolitenessProofs`, `WorkerProofs`, `RobotsProofs`, `UrlProofs`, `SimHashProofs` | the theorems | see section 5 |

### Frontier

State. `queue`, `listed`, `score`, `seen` are the Redis keys; a queue is the list read from
its `RPOP` end. `cooling` abstracts time: the hosts `IsReady` refuses. `bloom[p]` is the filter
of process `p`: the set it was given; a false positive is the free choice in `TestBloom`.
`pc`, `todo`, `scan`, `held` are the locals of a thread: the URLs `AddURLs` has still to add,
the hosts `NextURL` has still to try, the URL `processURL` works on. `pushed`, `finished`,
`dropped`, `abandoned` are history: nothing reads them but properties. `faults` bounds failures.

| Actions | Code |
|---|---|
| `Submit` | a seed request, or a CLI run, enters `AddURLs` (`scheduler/main.go:262`, `seed-api/main.go:169,230`, `cli/main.go:62`) |
| `TestBloom`, `SIsMember` | `IsSeen` (`frontier.go:168-186`) |
| `AddBloom`, `SAdd` | `MarkSeen` (`frontier.go:189-203`) |
| `LPush`, `ZAdd` | `addToHostQueue` (`frontier.go:82-104`) |
| `ZRange` | the snapshot of at most 101 hosts (`frontier.go:107-118`) |
| `IsReady`, `RPop`, `DropHost` | the loop body up to the pop (`frontier.go:121-143`) |
| `Touch`, `LLen`, `RetireHost` | the rest of it (`frontier.go:145-154`) |
| `Discover`, `Finish` | `processURL` as the frontier sees it (`worker/main.go:185-288`) |
| `AddFails`, `ScanFails`, `RPopFails` | a command returns an error, having taken effect or not, and what the caller does then |
| `Resend` | go-redis repeats `LPUSH` or `RPOP`, the commands that are not idempotent |
| `Crash` | a process dies and starts again with an empty filter |
| `DelayElapses` | time passes |

Abstractions. A URL is an atom that is already normal; the hash of a URL is the URL. `Unstable`
holds the URLs whose normal form `NormalizeURL` rejects the second time (`http://:80` becomes
`http:///`), for which `IsSeen` fails and the batch is aborted. Equal scores, which Redis orders
by name, are in any order. A page either returns its links or nothing; which is a choice.
The delay of a host may end at any time after `Touch`, which also covers a `Touch` that stores
an old timestamp. The order of the links is fixed by the constant `Links`.

### Listing and AtomicFrontier

Calls overlap and fail, and two things can be said all the same.

`Listing` is about the priority set. It adds to `Frontier` the history `adrift`: the hosts that may be off the set with URLs
queued. A host gets there by an `LPUSH` while a `ZREM` for it is under way (`Overtaken`), by an `AddURLs` that fails or dies
between `LPUSH` and `ZADD` (`CutShort`), or by a failing `LLEN` (`Misread`); it leaves with a `ZADD` that no `ZREM` follows
(`Relisted`). `QueuedHostIsListed` says that these are all the ways in which a host with URLs can be missing, and
`QueuesDrain` that every other queue is emptied again and again. How the code gets adrift is the finding `frontier_stranded`.

`AtomicFrontier` is about what callers see of the queues: first in, first out; each URL goes to one thread, which needs a
permit that `IsReady` gives it while the delay of the host is over and that one URL uses up; whoever took a URL starts the delay before
it is done with it; a fault costs at most one queued URL, or a delay. It does not promise what the Lua script of
docs/IMPLEMENTATION.md:588-621 would, that one thread at a time has a permit for a host, and what follows from that for the rate is the subject
of `Politeness`. In the refinement a permit is out between `IsReady` and `RPOP` and a delay is owed between `RPOP` and `Touch`.

### Console

`Console` extends `Frontier` and takes over all of its variables and actions. `cmd`, `keys` and `ranked` are
where a `queue clear` is and what its first `KEYS` found; `request` is the batch a handler will answer for;
`pages` and `errors` are the counters, `reader`, `ask` and `report` a run of `Stats`. `removed`, `cut`, `wiped`, `told` and
`inserted` are history.

| Actions | Code |
|---|---|
| `ListKeys`, `DelKeys`, `ListSeen`, `DelSeen` | the four commands of `queue clear` (`cli/main.go:303-319`) |
| `ClearFails` | an error of one of them, the end of the 30 seconds, an interruption |
| `Ask`, `Seed` | a request goes through `AddURLs` and is answered (`seed-api/main.go:169-285`) |
| `Work`, `Count` | the other steps of a worker; `Complete` and `Fail` count (`frontier.go:205-224`) |
| `CountAgain` | go-redis repeats an `INCR` |
| `Disturbance` | the failures, crashes and delays of `Frontier` |
| `ReadPages`, `ReadErrors`, `ReadHosts`, `ReadLen`, `Report` | `Stats` (`frontier.go:226-259`), whose failed reads count as 0 |

After a clear every URL may be added anew, so `DelSeen` ends the history of the URLs as well; the filters
keep what they were given, as in the code, and a "possibly" is put right by `SISMEMBER`. A handler whose batch a clear meets
half-way keeps the batch and answers for it: `wiped` holds what it was past with at the clear, which is
unseen again without its knowledge, and `AnsweredIsSeen` holds it to all the rest.

### Politeness

Any number of workers. `clock`, `last` (the `last_fetch` of each host) and per worker `now` (the clock as read before
the scan, `frontier.go:118`), `host` and `read` (what `IsReady` got). Queues are taken to hold
URLs; an empty one is `SkipHost`. `fetches` is the history of the last page requests of each worker to each
host. Each command, each reading of the clock and the request itself is a step of its own; the
clock may tick between any two. `untouched` collects the hosts for which an error of `Touch` was
ignored; the properties leave them out. `Restart` is a worker that dies anywhere.

With N workers, N of them may pass `IsReady` at once, and one that was slow overwrites `last_fetch` with an older moment, which
makes room for more. `KeepsItsRate` bounds what this comes to: of a worker's requests to a host the one N + 1 later is a full delay
later. What DESIGN.md:156 says, a delay between any two requests, is the finding `politeness_gap`.

### Robots

`site` and `since` are what a site answers now and for how long; `cached`, `rules`, `age` and `ttl` are the hash in
Redis and the remaining life of its key; `pc`, `host`, `copy`, `taken` are the locals of a worker. Time is kept as
ages that stop at TTL + Timeout, so that the model is finite and time never ends. `Ask`, `HGetAll`, `Fetch`, `ReadBody`, `HSet`,
`Expire`, `Test` are `IsAllowed` and `getGroup` (`robots.go:71-176`) step by step; `HSet` and `Expire` may fail,
with or without effect, and nobody notices; `Change` is the site's operator; a status that is not 200 is one
more value of `Rules`. The site answers in `Fetch` (`robots.go:94,98`), the body is read for up to the timeout of the client, 10
seconds that begin with the request (`robots.go:30`), and `expires` counts from the end of that (`robots.go:107,128-129`): this is why `RulesAreFresh`
allows for TTL + Timeout. Parsing takes no time. HSET and EXPIRE come at any later time.

### Url

A URL is a record of the parts that the code compares or rewrites; a path is the sequence of its segments and a
query a sequence of pairs of numbers. A behaviour takes a list of hrefs through `ExtractLink`, `NewURL` and
`IsSeen`, or a list of seeds through the last two, and collects in `keys` what `seen:urls` is asked for.
`NormalPath`, `ResolveDotSegments`, `CollapseSlashes`, `NormalQuery`, `NormalizeURL` translate `url.go` line by line;
`Resolve` and `RfcPath` are `net/url`, as far as `extractLinks` uses it. An empty `href` is skipped and one of spaces is the page
itself (`parser.go:136-143`); `ExtractLink` may do either, since both are the same record. Percent-encoding, the syntax of queries and
blank space are abstracted. The loops over segments and parameters are recursive functions of how far the loop has come
(`DotStacks`, `Prunings`, `RfcStacks`), and the sorted parameters are the rearrangement that is in order
(`NormalQuery`), so that both can be reasoned about; the string "" is the constant `Empty`, since the provers do not
know that a literal is a string.

The properties relate URLs and not only one URL to its form. `SpellingsAreOne` compares what `SamePage` says is one page:
equal but for capitals, credentials, a default port, a fragment, the order of parameters, stripped parameters, dot
segments and needless slashes. `LinksAreLikeSeeds` wants the key of every link of a page to be the one of the same URL as
a seed, and excuses one case that the code has: `IsSeen` refuses a URL and gives up the batch, whatever is still in it.

### SimHash

One behaviour is one comparison of a text with a stored fingerprint: `ReadChar` and `LastToken` are `tokenize`, `Vote`
is one token of the main loop, `Fingerprint` the second loop, `CountBit` the loop of `HammingDistance`, `Compare`
is `IsSimilar`. `SimilarIsNear` wants the count to be exact and to decide below and above the threshold; a distance equal to it
is similar to the code (`simhash.go:57,61`) and not to DESIGN.md:216 ("< 3 bits"), and the property leaves it open. A word of bits is the set of bits that are 1; the hash function and the number of bits are
constants, and a character has a length in bytes, since `tokenize` compares bytes with 2.

### Worker

State. `exact` and `simhashes` are the Redis sets of hashes, `html` and `indexed` the keys of MinIO
and OpenSearch (both stores use the content hash), `bucket` and `schema` whether they are there and who
made the index, `completed` and `failed` the counters, `waiting`
the pages `NextURL` may return. `pc` and `page` are the locals of the workers, `stopping` those whose
context is cancelled. `vetted`, `unarchived`, `unstored`, `crashed`, `done` are history.

| Actions | Code |
|---|---|
| `IndexExists`, `CreateIndex`, `BucketExists`, `MakeBucket`, `StartFails` | `EnsureIndex` and `EnsureBucket`, whose errors `main` only logs (`worker/main.go:65-79`, `opensearch.go:64-137`, `minio.go:39-55`) |
| `Take`, `Exit` | the loop of `run` (`worker/main.go:154-183`) |
| `Robots`, `Crawl`, `Fail` | `processURL` until there is a page (`worker/main.go:190-222`) |
| `CheckExact`, `FindNearDuplicate`, `AddExact`, `AddSimHash` | the four Redis commands of `CheckAndStore` (`content.go:35-98`) |
| `StoreHTML`, `StorePage`, `QueueLinks`, `Complete` | the rest of `processURL` (`worker/main.go:235-278`); a duplicate goes from the check to `Complete` |
| `DedupFails`, `StoreHTMLFails`, `StorePageFails`, `QueueLinksFails`, `FailFails`, `CompleteFails` | an error of the step, with or without effect, and what `processURL` does then |
| `Stop`, `Crash` | the signal handler (`worker/main.go:42-51`), and a process that dies and starts again |

Abstractions. A content is its SHA-256. `Near` is the relation `IsSimilar` on fingerprints: reflexive,
symmetric, not transitive. A page is taken once: two pages with one content are a copy as well as a
page that is crawled again. Once the context is cancelled every later command fails; a command that
was under way when the signal came is one that finished just before. Chrome (`Rendered`) does not look
at the context, Colly returns its error. robots.txt forbids any page or none, without a counter. A
resent `INCR`, which counts a page twice, is left out: nothing but statistics reads the counters.

## 3. Runs

| Run | Shows | Instance |
|---|---|---|
| `frontier_safety` | `SeenUrlIsAccountedFor`, `QueuedUrlIsSeen`, `PushOncePerThread`, `CopiesAreFew`, `DepthIsBounded` and the types, with one fault anywhere | two workers and a seeder in three processes, two pages on two hosts that link to each other, `MaxDepth` 1 with one seed below and one above it |
| `frontier_queues` | `QueuedHostIsListed`, `ListedHostIsServed` and `QueuesDrain` under weak fairness, `ImplementsAtomicFrontier` | two workers and a seeder in three processes, two pages on two hosts that link to each other, a window of one host, one fault |
| `console` | `SeenSurvivesClear`, `AnsweredIsSeen`, `StatsNeverOvercount` and the types | one worker and a seeder with batches of two URLs of one host, one of them with a URL that is refused, to which a page links as well, one clear or report, one fault |
| `worker_safety` | `HashedIsFindable`, `CompletedIsFindable`, `VettedAreDissimilar`, `IndexedIsArchived`, `StoresAreReady` and the types | two workers that start together, three pages whose contents are near-duplicates in a chain, one fault, signals at any moment |
| `worker_shutdown` | `StoppingWorkerStops` under weak fairness, `HashedIsFindable`, `CompletedIsFindable` | two workers, two copies of one page, one fault, signals |
| `politeness` | `KeepsItsRate` and the types | two workers, one host, a delay of 2 ticks, a clock up to 3 |
| `robots` | `RulesAreFresh`, `NewRulesTakeEffect` under weak fairness, `KeyHasEnd` and the types | two workers, one host that changes its rules for ever, a TTL of 2 ticks, a timeout of 1, lost writes and crashes without bound |
| `text` | `NormalIsStable`, `SpellingsAreOne`, `LinksAreLikeSeeds`; `TokensAreWords`, `MajorityRules`, `SimilarIsNear` | all paths of up to five segments, pairs of spellings of nine URLs, URLs that are rejected; all texts of up to six characters, three bits, all stored fingerprints, a threshold of 2 |

Bounds. Every interleaving hazard of the code needs two threads at one host, and most a worker
against a seeder; the safety run has two of the former and one of the latter. Two URLs make
a page that is found again (the pages link to each other) and a host that stays
listed while another is drained. In the runs of `Frontier` and `Listing` the batches have one URL; `console` has batches of two, and ones that are
given up half-way. One fault is enough to reach every failure action from every
state of the fault-free run; faults are independent of each other, and the theorems of section 5
hold for any number. The window of one host makes the window smaller than the number of hosts,
which the code's 101 would need 102 hosts for. A run of `Frontier` is finite because a thread
pushes a URL at most once per process start.

In `Console` a command needs somebody to interfere with, of each kind: a worker whose page has a link,
and a seeder. `MaxCommands` bounds clears and reports together: a second clear meets the states that the
first one meets, and a report reads while a clear runs in no worse states than those it is at by itself.
The proofs have any number. A clear that meets a batch half-way needs a batch of two URLs, and so does one that is given up
half-way, by a fault or by a URL that `IsSeen` refuses; the worker's is refused at once. `PushesAreUnique` and `FewCopies`
also hold of handlers that share a process and its filter, of which the runs have none.

In `frontier_queues` the pages link to each other, so that all three threads push the same URL, each from a process with a filter of its
own, to a queue from which both workers take, and the window of one host makes the two hosts wait for each other.

In `Politeness` two workers are enough to pass `IsReady` together and to overwrite `last_fetch` with an older moment; a delay of two ticks
has a moment that is neither at once nor after it. A worker needs four requests for `KeepsItsRate` to speak of, which fit in the three ticks
because the workers take turns with stale timestamps.

In `Worker` a race needs two workers and two contents that are near; the third content of the chain
is near to one of them only, so that being a duplicate of a duplicate is not the same as being a
duplicate. The empty content skips `StoreHTML`. One fault meets every step; the theorems again
hold for any number.

In `Robots` two workers are the slow writer and the one it disturbs; hosts do not affect each other. A TTL of
two ticks has a moment between fresh and expired, and one tick more for reading an answer tells the bound apart from the TTL.

In `text`, five segments are enough for two `..` after two others and an empty one, which is where the two
ways to resolve dot segments part. A tie of votes and a majority need two and three tokens of three characters
or one of three bytes; six characters have up to three of the latter, or one of the former beside one of the latter. Three bits are
near at a distance of 1 and far at 3; the distance of 2 is the threshold. It is one run of two unrelated algorithms, each idle in the
behaviours of the other.

The runs that follow are disagreements between the code and what a comment or document says of
it; TLC finds each violated.

| Run | Property | What happens |
|---|---|---|
| `frontier_stranded` | `OnlyEmptyHostsAreUnlisted` | `LLEN` says 0, another process runs `LPUSH` and `ZADD`, the worker runs `ZREM`: the queue has a URL, its host is listed nowhere, and no `AddURLs` is about to list it. No fault needed |
| `frontier_recrawl` | `CrawledAtMostOnce` | the Bloom filter is local to a process: its "no" skips the Redis set |
| `frontier_crashed` | `AbandonedUrlReturns` | a worker dies with a URL; the lease and timeout of ARCHITECTURE.md:489-490 do not exist |
| `politeness_gap` | `RequestsAreADelayApart` | two workers pass `IsReady` for one host before either runs `Touch` and fetch at once; DESIGN.md:156 wants a second in between |

Deadlock is checked except in the runs of `Worker` and of `MCText`, which really end: once every worker was told
to stop and has, and once a text or a list of URLs is done with.

Further disagreements that were met on the way and that no run is spent on: even a single worker may make two requests
less than a delay apart, since `last_fetch` is older than the fetch; a distance of 3 bits is a near-duplicate (`simhash.go:57`), which
DESIGN.md:216 denies; a page that OpenSearch refuses is logged and never replayed
(ARCHITECTURE.md:481-482); `resolveDotSegments` does
not remove an empty segment before `..`, as RFC 3986 (`url.go:148`) would; `RequiresJS` looks for `/#/` in a
URL whose fragment is gone; the crawl delay of robots.txt is read and not used (`worker/main.go:200`).

## 4. Fairness

`FairSpec` asks for weak fairness of each thread's next step (`Step(t)`) and of `DelayElapses`: a
goroutine that can go on is scheduled, Redis answers, and time passes. `Submit` and the failures
are not fair: nobody has to seed and nothing has to fail. `ListedHostIsServed` and `QueuesDrain` are checked under
it, with calls that overlap in any way: neither needs a lock, which the code does not have, or a fair choice among the hosts.

`Robots` asks for weak fairness of each worker's next step and of `Tick`. Its HTTP client and the Redis client have
timeouts, so a step is taken, if only with an error; a site need not change, nobody need ask, and nothing must fail.

`Worker` asks for weak fairness of each worker's next step, which a failure of that step counts as, where the
call returns in the end (`Returns`). The clients of Redis, MinIO, robots.txt, Colly and Chrome have timeouts. The client of OpenSearch
has none (`opensearch.go:28-35`): a request to it is only sure to end once its context is cancelled, and `Indices.Exists`
(`opensearch.go:67`) has no context. So a worker at `CreateIndex` or `StorePage` is only fair when it was told to stop, one at `IndexExists` never, and
`StoppingWorkerStops` leaves out the worker that asks whether the index exists. (`client.Info()`, `opensearch.go:48`, has no context either; it comes before
the first state of the model.) Signals and crashes are not fair.

## 5. Proofs

`FrontierProofs`, for all values of the constants that satisfy `FrontierAssumption` and
`NoEntryAssumption` (any number of threads, processes, URLs, hosts, seeds, faults):

- `TypeCorrect`: `Spec => []TypeOK`. `TypeOK` contains `ControlOK`, which ties each local to the
  program counter; without it the heads of `todo` and `scan` would not be defined.
- `QueuedIsSeen`: `QueuedUrlIsSeen` is inductive once it also says that a thread past `SAdd` has
  its current URL in `seen`.
- `SeenIsAccountedFor`: one step at a time, the witness for a seen URL moves: from the thread about
  to push it to its queue, to the worker that holds it, to `finished`; or to `dropped` or `abandoned`
  when a fault strikes.
- `PushesAreUnique`: strengthened by `FreshPushes`: what a thread has pushed is both in `seen` and in the filter
  of its process, and a thread between the check and the push holds a URL it never pushed.
- `FewCopies`: `CopiesAreFew` counts what that comes to for a URL. The copies of it in its queue and in the hands of workers
  are at most the threads that have pushed it, and one for each thread and fault: `CopySteps` lists the five ways in which a
  step may change the sum, and `SpotsAppend` and `SpotsTail` say what `LPUSH` and `RPOP` do to the copies in a queue. It bounds
  what the finding `frontier_recrawl` costs at any one time; how often a URL is crawled in the course of time is
  bounded by `PushOncePerThread`.
- `DepthBound`: strengthened by the depths of the URLs still to be added.

`QueueProofs`, for all values of the same constants, whatever overlaps, fails or dies:

- `HostsStayListed`: `ListingSpec => []QueuedHostIsListed`. The invariant `ListingInv` adds `ZremIsExcused`: a thread about to run `ZREM` has an
  empty queue in front of it, or the host is adrift already. What a step does to queues is said once for all steps
  (`StepQueues`, `StepUnlists`, `FailureQueues`), and `ListingByStep`, `ListingByFailure`, `ListingByCrash` conclude.
- `QueuesAreAtomic`: `Spec => ImplementsAtomicFrontier`. `RegularStep`, `MishapStep` and `ForgetStep` show which step of `AtomicFrontier` each
  step of `Frontier` is: `LPush` is `Add`, `IsReady` is `Permit`, `RPop` is `Take` or `Withdraw`, `Touch` is `StartDelay`, `Finish` is `Done`, a
  reply of `RPOP` that is lost is `Lose`, a crash is `Forget`, and all others stutter. `frontier_queues` checks the same on its instance.

`ConsoleProofs`, for any number of clears, reports, threads and faults. `FrontierTypeStep` carries `TypeOK` over from
`FrontierProofs`:

- `ConsoleTypeCorrect`: the types of both modules together.
- `ClearKeepsPromises`: `SeenSurvivesClear` is inductive with the types. A deletion moves a URL that loses its queue to
  `removed`; between the two `DEL`s that is an excuse, and after the second there is nothing seen left to excuse.
- `AnswersAreKept`: strengthened by `RequestOK`: the URLs of a request that are not seen are still ahead
  in the batch, or a clear made them unseen behind the handler's back.
- `FiguresAddUp`: `StatsNeverOvercount` needs sums: the pages and errors counted, the URLs held and all the places in
  queues are together at most the pushes and the faults (`Paid`), and so are, in the middle of a report, the figures read
  so far with the places in the queues still to read (`ReportPaid`). The sum over queues is the number of places `<<host, index>>` of a set
  (`OnePlaceMore`, `OnePlaceLess`), not a fold, so that a push, a pop or a deletion changes it by lemmas on cardinality. Every
  step that makes a figure larger pays with one that becomes smaller, with a push, or with a fault; that the counters
  are read before the queues is what keeps a URL on its way from being paid for twice.

`PolitenessProofs`:

- `TypeCorrect` and `WorkersKeepTheirRate`, for any finite number of workers, any hosts, delay and clock bound. The argument counts the chances
  (`Chances`) that a worker has, after a request at time t, for another one to the same host within a delay: one if it is past `RPOP` already
  (`Decided`), one if it finds or has found a `last_fetch` older than t (`FindsOlder`), and one for each other worker that read its clock before t and is
  still to run `Touch` (`Late`), for only such a `Touch` makes `last_fetch` older again. A worker that returns reads its clock
  anew, so it is late once at most. `ChancesAreFew` says that the requests made since t and the chances left are together no more than the
  workers; `ChanceIsSpent`, `ChanceIsTaken` and `ChancesStay` follow them through the steps.

`WorkerProofs`, for any workers, pages, contents, fingerprints and faults, from `WorkerAssumption`:

- `TypeCorrect`; `TypeOK` says as well that a page is in one pair of hands.
- `HashesHavePages` and `CompletedArePresent` share the invariant `HInv`. Its core is the lemma
  `StepKeepsFindable`: the step by which a content stops being on its way to the index either indexes it
  or records the fault that lost it. The rest ties the sets of Redis to contents: between the two
  `SADD`s the first is done (`FirstHashIsStored`), and every fingerprint belongs to a content whose
  hash is stored (`FingerprintHasContent`), which is why a page turned away as a near-duplicate is represented.
- `OneWorkerVetsDissimilar`: what a worker passed is in `simhashes` before it checks the next page, and what
  it is about to pass was compared with it (`Compared`). `FewNearDuplicates` draws the conclusion: of contents that are all
  similar at most as many pass as there are workers, since a worker that passed two is ruled out; this bounds
  what the race of `content.go:33-56` can do.
- `ArchiveIsComplete`: a worker about to index has stored the HTML or failed to (`ArchivedFirst`).
- `StoresComeFirst`: strengthened by `Ensured`: whoever is past `EnsureIndex` or `EnsureBucket` made them, found them, or
  lost the race to somebody who had, unless a request failed.

`RobotsProofs`, for any workers, hosts, rules and TTL, from `RobotsAssumption`:

- `TypeCorrect`, `KeysHaveEnds`; the latter rests on the fact that a key that Redis deletes comes back only by an `HSET`,
  whose worker has its `EXPIRE` still to do.
- `RulesStayFresh`: an action property from the invariant `Honest`: whoever holds rules that the site no longer
  gives took them before it changed: the change is no older than their stamp and the timeout together. `expires` is written in the
  same command as the rules; with two commands it would not be.

`SimHashProofs`, for any texts, hash function, number of bits and threshold:

- `FingerprintIsMajority`: `VotesInv` says that after n tokens the votes on a bit are twice its supporters less n.
- `DistanceIsExact`: `CountInv` says that the bits counted and the bits left are together those that differ.
- `EveryWordIsAToken`: `WordsInv` says after each character which words of what was read are tokens and that `current`
  is the run that is still open; the order of the tokens is the number of words that start no later.

`UrlProofs`, for any lists of URLs, any base, any stripped parameters, and so for paths and queries of any length:

- The loops come first. That a recursive function is what its equation says (`LoopExists`) and what a loop keeps is shown by
  induction over numbers: the set of numbers for which a statement fails has no least element
  (`LeastNumber`, from the library's theorem that `<` on the naturals is well-founded). `DotStacksAre`, `PruningsAre` and
  `RfcStacksAre` are the equations of the three loops.
- Paths. A normal path has no segment that is empty, `.` or `..` but for the root, hence a second normalisation finds
  nothing to do (`NormalPathIs`, `NormalPathIsStable`). The two ways to resolve dot segments run side by side (`Above`,
  `StepsAreAlike`, `StacksAreAlike`): `resolveDotSegments` keeps the segment before the leading slash at the bottom of its
  stack and `net/url` does not, and apart from that the stacks agree as long as no `..` meets an empty segment, which
  is why `IsPlain` asks for `NoDotsAfterEmpty`.
- Queries. Every query has an order (`OrderExists`: take the greatest parameter to the end) and only one
  (`OneOrder`: were r before q at place i, the first i parameters of r would all be among the first i - 1 of q), so that `NormalQuery` is a
  function of the set of rearrangements and stable (`SameQuery`, `NormalQueryIsStable`).
- `NormalFormsStay`, `LinksGetSeedKeys`, `SpellingsShareAKey` then follow from one invariant of the way of a batch,
  `UrlInv`: at each stage `found` and `rest` hold links or normal forms (`StageInv`), every plain URL that was given has
  left its normal form or is still to come (`WayInv`), and if all that were given are plain, every URL and key was made
  of one of them (`OriginInv`).
  TLC checked `UrlInv` on the instance of `text` before it was proved.

Only model-checked: liveness (`ListedHostIsServed`, `QueuesDrain`, `StoppingWorkerStops`, `NewRulesTakeEffect`), which
is out of the prover's reach. Every invariant and every action property of a passing run is a theorem as well, for all
values of the constants that satisfy the assumptions of its module, and a property that two runs check
is proved once. `FewCopies`, `FewNearDuplicates` and the theorems of `PolitenessProofs` count threads and workers, and
ask for finitely many.

What the properties excuse is what the code does not do. `HashedIsFindable` and `CompletedIsFindable` leave out contents whose storing failed or whose
worker died, `KeyHasEnd` keys whose EXPIRE did not happen, `KeepsItsRate` hosts whose Touch failed, `SeenUrlIsAccountedFor` URLs lost to a fault:
those losses are real, and the properties say that there are no others. `SeenSurvivesClear` says nothing of URLs that a clear leaves queued without being seen.

## 6. What could follow

- The largest number of requests that N workers can make within a delay: N * (N + 1) is an upper bound.
- `Frontier` and `Worker` in one specification, if the state space allows: a URL that fails to be stored,
  against a URL that is queued again.

## 7. Not modelled

HTTP and Chrome fetching, and the text, title and description of a document: I/O, or pure functions of it. Their
results are the nondeterministic choices of the models (a page comes back with its links or not). Searching and
reading the stores changes nothing. Metrics are read by nothing in the program, the configuration is read once,
and the replicas that the manifests ask for (3 to 50 workers, 2 for development) are the several workers of every model. Not called by any program, and so not modelled:
`SetDelay`, `RecordError`, `ResetDelay`, `GetCrawlDelay`, `InvalidateCache`, `PreFetch`, `IsExactDuplicate`,
`GetStats` of the de-duplication, the shingles of `simhash.go`, and `Delete` of `minio.go`. Redis is one server that
loses nothing; its own failover is outside.
