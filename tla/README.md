# A TLA+ model of the arXiv ingestion engine

The engine polls arXiv, pushes what is new through Redpanda topics, chunks and
embeds it, keeps it in Postgres and serves search, design pages, watches and a
reading trail from there. This directory models the parts of it whose correctness
depends on the order in which processes, messages and failures meet, checks the
models with TLC on small instances, and proves the most important properties for
every value of the constants with TLAPS.

All paths below are relative to the repository root (`src/` in `PROJECT.json`).

## The system

| Component | State it keeps | Operations | Meets the others through |
|---|---|---|---|
| Request budget (`schemas/ratelimit.lua`, `rust/common/src/ratelimit.rs`, `python/arxiv_common/.../ratelimit.py`) | one Redis key; in every process the time of its latest send | reserve a slot, sleep, send; fall back to in-process spacing | the Redis key; called by poller, fetcher, backfill, figure fetches |
| Poller (`rust/poller`) | the seen set in Redis | one cycle: walk every category newest-first, produce, mark seen | produces `papers.new` |
| Fetcher (`rust/fetcher`) | consumer offset | fetch html or pdf, chunk, produce; dead-letter | consumes `papers.new`, produces `papers.chunked`, `papers.failed` |
| Workers (`python/worker`), fast path and full text | consumer offsets | embed, summarize, upsert; dead-letter | consume `papers.new` and `papers.chunked`, write Postgres |
| Paper store (`python/arxiv_common/.../db.py`, `sql/`) | papers, chunks, authors, and the tables of the services below | upsert, hybrid search, page queries | shared tables |
| Design pages (`query_api/design.py`, `design_pages.py`) | `paper_designs`, `paper_figures`, jobs in memory | claim, run, finish, fail, regenerate | papers and chunks; executor threads |
| Reading trail (`trail.py`, `trail_pages.py`) | `webs`, `trail` | read (dwell or button), move, remove, delete a web | schedules citation fetches |
| Citations (`citations.py`) | `citations`, `citation_fetches`; a queue of batches in memory | ensure: Semantic Scholar, HTML, store | one executor thread; read by the graph |
| Suggestions and graph (`recommend.py`) | `dismissed`; nothing else | candidates, pick, graph, dismiss | reads trail, citations, chunks |
| Watches (`watches.py`, `service.py`) | `watches` | create, visit, delete | reads what workers commit meanwhile |
| Semantic cache (`cache.py`, `service.py`) | answers in Redis | look up, put, clear, expiry | reads what workers commit meanwhile |
| Backfill, dead-letter replay (`scripts/`) | the list's token, the plan; Kafka's client buffer | OAI-PMH harvest; re-produce failures | seen set, `papers.new`, `papers.failed`, papers |
| Extraction and chunking (`rust/fetcher/src/{html,pdf,chunk}.rs`) | none | text to sections to windows | called by the fetcher |

What is hard here: three groups consume two topics at least once, each may crash,
be rebalanced while busy or fail to commit; two of them write the same row in
either order; an acknowledgement may be lost after its effect; the poller walks a
list that moves under it and remembers only what it produced; and every process
shares one request budget through a Redis that may be away. The query API adds requests
that interleave statement by statement at READ COMMITTED, while workers commit papers,
two sources answer for citations at different times, jobs outlive requests, and marks and
caches are taken from one statement and used after another. For each component
these are the properties that make it correct:

* request budget: requests keep the configured distance, whoever sends them, but for what
  a late reply takes off it;
* poller: nothing marked seen that was not produced, nothing of a single feed left behind
  unwarned, duplicates only after failures;
* pipeline: no message is committed without an outcome, no message blocks its
  group but for a text that kills the worker, and rows converge to the latest version with
  the best text there is;
* store: row, passages and summary come from one document, and the fast path
  never undoes full text;
* backfill and replay: a paper marked as seen has been delivered; a replayed failure ends
  with what it asked for in the database;
* design pages: a page shows what its job wrote for the version it names, and settles;
* trail: every row has its web, papers leave only when asked, webs without papers go,
  concurrent requests do not deadlock;
* citations: each paper is asked for once, its edges come from one answer;
* suggestions and graph: nothing is suggested under a key that was read or dismissed, the
  caps hold and the ranking is the stated one;
* watches: a visit hides no unseen paper; cache: no answer outlives a clearing.

Several of these hold only with exceptions. Where the code falls short of what its
comments say, the property states exactly how far it holds, with a history variable for
the exception, and `findings` quotes the comment; the proofs then say there is no other.

`PROJECT.json` lists under `hazards` each place where the code is exposed to one
of these going wrong, with the property that would notice.

## The modules

### RateLimit

`RateLimit.tla` is the budget. Rust and Python limiters are twins and are modelled
once. Time is discrete and global. `key` and `keySetAt` are the Redis key and the
start of its TTL; `pc`, `wake` and `last` are a caller's position in `wait()`, the
time it sleeps to and the record `mark_sent` keeps; `slot` and `delay` are the slot the
script gave it and the sleep the reply asks for; `sent`, `onSlot` and `lateness` are what
arXiv sees. `Reserve` runs the script, and `Reply` is the arrival of its answer, at any
later time: the sleep is `slot - now` as the script saw it, counted from the arrival
(`ratelimit.rs:99-104`, `ratelimit.py:80-87`), so a caller is as late as its reply.
`ReplyLost` is a reply that never comes or misses the timeout, after which the caller
falls back; `FallBack` is a call while Redis is away; `Send` wakes, records and
sends. Rust gives up on a reply after `REDIS_TIMEOUT` (5 s, more than `min_interval`),
Python never, and the model has no limit. `Fresh` callers are those that build a limiter
per request, the figure fetches of the API. The sleep itself ends at most `WakeJitter`
late, which `Tick` enforces; that is what `SLOT_GUARD` is for (`ratelimit.rs:20-24`), and
all it covers.

`SpacedSends` therefore says that two requests on slots are closer than `MinInterval` only
by as much as the slower of their replies was late. The comment on `SLOT_GUARD` promises
more, "a true floor", which a reply later than the guard undoes.

`MaxQueue` bounds how far ahead of the clock a slot may be handed out. It must fit in
the TTL (`QueueAssumption`): in the code, one hour against 3.05 s per slot.

### PaperStore, AtLeastOnce, Ingest

`PaperStore.tla` holds the data of a document and the merge rules of `upsert_paper`
as operators: the refusal of abstracts, the COALESCE of the summary. Text is reduced
to the version and source it comes from, html and pdf being one source because no
condition of the code tells them apart.

`Ingest.tla` is the pipeline behind `papers.new`. A topic is a sequence, one
partition; `owner`, `pos` and `committed` are per consumer group; `pc`, `cur` and
`attempt` say what each instance is doing with the message it holds. One message goes
`Poll`, then `Chunk` (fetcher) or `Skip`, or `Embed` and `Store` (workers), or
`AttemptFails` until `DeadLetter`, then `Commit`. `Embed` and `Store` are two steps
because minutes pass between the check and the upsert. The upsert itself is one step:
it is one transaction and its first write locks the paper's row. Faults are a crash
anywhere, a commit that fails, a rebalance to another instance while the old owner is
busy, an acknowledgement lost after its effect (send and database COMMIT), a dead
letter the broker does not take, a poisonous message, and announcements in any order
(replay, backfill). `Unservable` papers are those whose text the inference server answers
with a 5xx every time: the httpx error leaves `_handle` and the worker dies with the
message uncommitted (`worker main.py:117-120`, `inference.py:53-58`). `Summarizing` is
whether the full-text worker makes summaries (`SUMMARY_ENABLED`), one value or either per
message; the fast path makes none, and an upsert without one keeps the row's (`db.py:76`).
`done` is a history variable: the offsets with an outcome.

`AtLeastOnce.tla` is the abstract consumer: commits move forward only, and only over
finished messages. `Ingest` instantiates it three times, once per group.

### Upsert, AtomicStore

`Upsert.tla` opens up the one step `Ingest` takes for `upsert_paper`: `WriteRow` (or
`Refuse`) locks the paper's row and judges the document, `LinkAuthor` locks and links
one author after the other in the order of the sort, `Commit` replaces the passages and
makes everything visible, `Rollback` is a lock timeout, an error or a lost connection.
`newRow`, `newLinks` and `todo` are what a transaction has in mind; the locks it holds
follow from `pc` and `todo`. `AtomicStore.tla` is what the function promises: one step
that merges a document into row, authors, links and passages, judged against the row of
that moment. That `Upsert` implements it justifies the single step in `Ingest`.

### Poller

`Poller.tla` walks moving feeds. A member is one version of one paper, the unit of the
seen set. `listing` is each category's feed; `Submit` and `Revise` put a member on top
of it at any time, at most `MaxBurst` of them between two requests of a walk, any number
between cycles. `FetchPage`, `PassOver`, `Send`, `Mark` and `EndPage` are the loop of
`poll_category`, `EndWalk` leads to the next category. The two steps of produce-then-mark
are two actions because a crash or a Redis failure may come between them. `failed`
and `covered` stand for the two warnings the code logs.

### Designs

`Designs.tla` is the design page of one paper by one provider. `rq` holds the requests
being served: `Load` is `get_paper`, `Look` the decision of the page or the JSON call,
`Reset` that of a regenerate request, then `Check`, `Claim` and `Submit` are `start`.
Each is a statement of its own, so two visits interleave as they can in the API. `jobs`
are the jobs handed to the executor, in order; the first `Threads` of them run:
`FetchFigures`, `ReadText`, then `Finish`, `Fail`, or `StoreFails` when the result cannot
be written. `row` is the row of `paper_designs`, whose claim names the version a request
had loaded, while `text` is the version the job read. `GrowStale` is the passing of
`STALE_AFTER_S`: a job may be queued behind others or run for longer than that (600 s for
one try of the local model, two tries; 300 s and three tries for Claude). `NewVersion` is
a worker storing the next version. `lost` and `overlap` are history variables: the job of
the latest claim came to nothing; a stale job was taken over while alive.

### Trail

`Trail.tla` is `trail` and `webs` under concurrent requests. Every handler runs in the
transaction its pooled connection opens, so a request (`rd[r]`) is a READ COMMITTED
transaction and each action one statement of it: what it reads is committed, and `WaitsFor`
says whose rows, or whose lock on a web, it has to wait for. `rows` are the rows of the
trail it has changed, `hold` its lock on its web: a share taken by the foreign key, or
the deletion. A read is `FindEntry`, `Assign`, `CreateWeb`, `Insert`, `Link`; a removal
`DeleteRow`, `SeesOthers`, `DropWeb`, `Cascade`; a move `CheckMove`, `UpdateRow`, `Link`;
all end in `Commit` or, at any point, `RollBack`. `SeesOthers` is the NOT EXISTS of
`remove_from_trail` and `DropWeb` the deletion it was evaluated for, apart because the
statement may wait in between. Which papers are near one another is a constant (`Near`);
which of several near webs is closest is free, and so is the page the reader came from.

### Citations

`Citations.tla` is the cache of edges: batches queued by reads and by views of the graph
(`Schedule`), the executor's one thread (`Ensure`, `FetchS2`, then `StoreS2` or `Fallback`
for every paper) and the transaction that replaces edges and status. An edge is a work and
the kind of key it was known by. `DayPasses` makes a row older than a day, which is when
failed and partial fetches are tried again; `IngestWork` brings a work into the index, so
that its title is found there.

### Explore

`Explore.tla` is the choice of suggestions in `recommend.graph`, one statement a step: the
path, the ids on any trail, the dismissed keys, the candidates and the choice. What follows
in the code, the briefs of the index and the edges, is for the drawing and left out.
Between any two of them papers are ingested, join, move or leave, citations are fetched
again under other keys and suggestions are dismissed. Which candidates the caps choose is
left open here and is `Ranking`'s. `known` and `gone` record what a view can know: the
papers that were on a trail when it began and still are, the keys dismissed by then.

### Watches, SemanticCache

`Watches.tla` is one saved search. A worker's `ingested_at` is the beginning of its
transaction, its paper is visible from the commit; a visit loads the watch, reads the
matches, sets `seen_at` to now and shows the page: `WriteBegins`, `WriteCommits`,
`LoadWatch`, `WatchMatches`, `MarkWatchSeen`, `ShowWatch`. `slipped` records the papers a
visit's mark passed without showing them.

`SemanticCache.tla` is the look-up, the read of the tables, the put, the expiry and
`DELETE /cache`. A scope (k, filters and identifiers) stands for its query as well.
`floor` is what had been stored at the last clearing; `older` marks an answer read before
it.

### Ranking

`Ranking.tla` has the two rankings as operators: `HybridRows`, the best passage of every
paper, dense ranks, reciprocal-rank fusion and its ties; and `Pick`, the suggestions under
the cap per source and the cap on works without an arXiv id. `Ask` chooses any input of the
bounds, `AnswerSearch` and `AnswerPick` answer. Distances and text ranks are given as
orders. Reciprocal ranks are exact fractions and their sums are compared as such, so a tie
is one; weights are millionths, a similar paper's that of middling similarity. `Decay` is
`DECAY ** i` for the `RECENT_N` places of the path. A sorted list is `InOrder`, the
function that gives a place the element with as many before it.

### QueryApi

`QueryApi.tla` composes these seven parts and `Designs`' page. The parts share only tables
that none of them writes (papers, chunks), except for what the graph reads, whose changes are actions of
`Explore` itself. Interleaving two parts would show nothing that each does not reach
alone, so a behaviour is one part at work (`part`), the others at rest.

### Backfill, Replay, Producers

`Backfill.tla` is the OAI-PMH harvest: `Busy503` and `TakeBusyForLastPage` are the four
requests for a page, `Produce` fills the Kafka client's buffer, `MarkProduced` is the SADD
that follows it at once, `Deliver` and `DeliveryFails` what becomes of the buffer,
`HarvestDies` and `Exit` its loss; `PollerSends` is the poller beside it. `Replay.tla` is
`replay_dlq.py` for one paper, with the workers and the fetcher it feeds reduced to what
they do to the row and to `papers.failed`: `ReadFailures`, `PlanReplay`, `ApplyReplay` or
`ReplayUnsent`. `Producers.tla` composes both with the poller as `QueryApi` does.

## What is checked

| Run | Instance | Shows |
|---|---|---|
| `ratelimit_shared` | 1 pipeline and 1 API process, replies of any delay, all faults, 2.5 M states | `SpacedSends`, `ReservationsDistinct`, `FallbackSpaced`, types |
| `ratelimit_blip` (violation) | 1 process, outage | after an outage the shared path ignores a fallback send |
| `ingest_faults` | 1 paper, 2 versions, 2 announcements, 2 attempts, 1 fault, summaries on, 1.8 M states | no silent loss, agreement of row and passages, no downgrade, convergence to the latest version and to its summary |
| `ingest_rebalance` | 2 papers, one unservable, 2 fast instances, 1 fault, 1.1 M states | every group implements `AtLeastOnce` |
| `ingest_live` | 2 papers, one unservable, 2 announcements, a crash or a lost dead letter, 257 k states | nothing but the unservable paper blocks a group, and never the fetcher's |
| `ingest_any_order` (violation) | 2 versions in any order | an older full text replaces a newer row |
| `upsert_locks` | 2 connections, 2 papers, 2 authors, one byline naming an author twice, 3 transactions, 0.2 M states | the transactions implement `AtomicStore`, do not deadlock and all end |
| `poller_walk` | 1 category, pages of 2, cap of 2, 6 members, 166 k states | gaps are reported; everything listed is produced |
| `poller_crash` (violation) | pages of 1, cap of 2, 1 crash | what a crash leaves below an all-seen first page is lost |
| `producers` | poller: 2 categories, cross-lists, invalid and unparseable entries, 2 faults; backfill: 2 pages, 3 records; replay: 2 versions, 3 failures, 2 runs; 977 641 states | seen implies produced and duplicates come only from faults; a marked paper of the backfill is delivered, on its way or lost with the buffer; replays settle |
| `query_api` | 2 requests, visits and searches, 2 papers, 2 webs, 1 thread, 1 fault, every short ranking input, 0.71 M states | designs, trail, citations, suggestions, watches, cache and rankings: the properties named above, each with its exceptions |
| `designs_claude` (violation) | the same as in `query_api` with 2 threads, no faults | a job that was taken over overwrites its successor's design with older text |

The bounds. One fault at a time is enough to separate every two steps of a handler;
with two attempts a message fails once and succeeds, or is given up; two announcements
of one paper are the least that can overtake one another on the two paths, and two
versions the least that can be confused. In the poller six members against pages of two
and a cap of two pages let a walk hit the cap, be overtaken by a burst during it and be
followed by another one. Two design requests, one more version and three jobs are enough
for two takeovers in a row. Two requests on two papers and two webs let each statement of
one request fall between any two of another, a web be emptied from both sides, and two
requests wait for each other. A batch of one paper makes the executor ask twice for two;
one limit of one match leaves a paper beyond it. A clock of four lets a watch be created,
visited, deleted and created again around a paper's transaction. Three papers, four
passages and three keyword hits hold every case of the fusion: a paper with two passages,
in both rankings, in one, tied. Backfill has an unwanted record, a page boundary and all
four requests for a page. Three failures with two runs of the replay let a run settle one
and leave another. The clock of the budget runs long enough for the key to expire
once after a full queue. Histories that grow without end are not counted: the design
page, the trail, the graph and the cache return to states they have been in. The proofs
have none of these bounds.

`CHECK_DEADLOCK FALSE` is set where the instance ends by its own bounds: announcements
run out (`Ingest`), the clock reaches `Horizon` (`RateLimit`), no more transactions are
begun (`Upsert`). The poller, the other producers and the query API never stop.

Fairness. Every consumer loop keeps going (`WF_vars(Step(i))`): the loops never return
on a message's account, and compose restarts a process that dies
(`docker-compose.yml`, `restart: unless-stopped`). The poller's loop likewise
(`WF_vars(Step)`, in `WalkSpec`, which leaves the faults to `producers` and `poller_crash`: a
walk that fails for ever produces nothing). In `Upsert` a statement is carried out if the rows it needs are free
again and again (`SF_vars(Step(w))`), because Postgres queues those who wait for a row;
nobody has to begin or to roll back, so it is not the timeout that ends a transaction.
On the design page (`PageFairness`, which `ApiSpec`
assumes when the design page is the part at work) requests are
answered and threads work (`WF`), a running job grows old (`WF_vars(GrowStale)`), and the
page is open in a browser, whose reloads get through
(`SF_vars(\E r : Load(r, "page"))`; `design_pending.html:3` refreshes every 3 s): without
a visitor nobody takes over what a crash has left running.
Producers, arXiv, and all faults have no fairness.

## Where the code and its comments part

Four runs end in a violation of what a comment or a decision says:

* `ratelimit_blip`: the script does not know what was sent while Redis was away.
* `ingest_any_order`: either topic may be replayed "in any order", but an older full text
  replaces a newer one.
* `poller_crash`: "Lost papers are impossible" (decision 10), but a walk stops at the first
  page that is all seen, whoever has seen it: here a cycle that died below it.
* `designs_claude`: a design names the version "the design was written from", but two threads
  may finish in the wrong order.

Other disagreements are stated by properties that
hold, each with the exception the code has, which is a variable or a constant of the model:

* `SpacedSends` (`lateness`): with the `SLOT_GUARD` "the configured interval is a true floor"
  (`ratelimit.rs:22-23`), but a reply may be later than the guard.
* `OnlyUnservableBlocks` (`Unservable`): "No message blocks a partition" (decision 11), but a
  text the inference server cannot serve does: the worker dies and starts over at it.
* `RowsLeaveOnlyWhenAsked` (`late`): `remove_from_trail` finds a web empty, waits for it,
  and deletes it although a paper has joined meanwhile; the cascade takes the newcomer.
* `EmptyWebExplained` (`orphans`): two removals that each see the other's paper, a move of
  the last paper, and a read that lost the race for its paper each leave a web without
  papers.
* `NewIsShown` (`slipped`): a paper committed after a visit but dated before it, one
  beyond the limit or the window, one whose page was lost.
* `SuggestionsAreNew`: exclusion goes by the key of the moment, so a work dismissed under
  one key may come back under another, and a paper cited under another key before it came
  into the index may be suggested beside itself.
* `FreshSinceClear` (`older`): a search that had read before the clearing puts its answer
  after it.
* `SuggestionsWithinCaps`: only works without an arXiv id count as external; those with
  one that are not in the index are not capped.
* `BackfillLosesNothingElse` (`undelivered`, `cut`): records are marked before they are
  delivered, nobody looks at the delivery reports, and the body of a last 503 is read as
  a page.
* `ReplaySettles` (`unsent`, `outdated`, `noFullText`): the script takes the latest failure
  of a paper alone and reports what it could not flush as replayed; a version older than
  one announced may be stored over it.

They are listed with quotations under `findings`. Four more are seen in the models by
changing a constant, without a run of their own:

* A failed later page of a walk is lost the same way as after a crash, though `main.rs:209`
  says the next cycle resumes: the first page is all seen by then.
* So is a paper of a second category: what the walk of the first category has marked may
  fill a page of the second, whose walk stops there (`GapsVisible` with two categories).
* A dead letter the broker refuses is at most logged before the commit (`fetcher
  main.rs:299`, `worker main.py:153`), so `NoSilentLoss` holds only while `papers.failed`
  takes records; `ingest_live` includes that fault, the safety runs exclude it.
* When summaries are turned off between two versions, the COALESCE leaves the older one's
  on the newer row: `SettledOnOwnSummary` with `Summarizing = {TRUE, FALSE}`.

## What is proved

tlapm proves these for every number of processes, papers, instances and faults.

* `RateLimitProofs`: `TypeCorrect`, `DistinctSlots`, `SharedSpacing`,
  `FallbackKeepsSpacing`. The slots callers hold, whether they wait for the reply or for the
  slot, are at or before the key or so old that no new one comes near
  (`SlotsBehindKey`), which gives a new one its distance. The key is at most a queue ahead
  of the clock (`KeyInQueue`), so when it may expire every slot held is old
  (`ExpiryFacts`): the replies that are still under way by then are why the second case is
  needed. For `SharedSpacing` the key must also know of every request not long past, but
  for that request's lateness (`KeyKnowsSends`), and every slot held lies beyond each
  request on a slot, but for its lateness, or well before it, and is then itself the one
  whose reply is late (`SlotsAroundSends`); nobody oversleeps (`NoOversleep`). The theorem
  bounds neither how late a reply is nor whose is.
  A caller that falls back knows only its own process's requests: its limiter remembers
  the latest (`LastIsSent`), and a sleeper's wake-up is an interval past it
  (`FallbackWaits`; `FallbackSleeps` is the step that puts it to sleep). Assumed: jitter
  within the guard, the queue within the TTL.
* `IngestProofs`: `TypeCorrect`; `TablesAgree` (row and passages are written together or
  not at all);
  `NeverDowngraded` (an action property: the guard of the upsert is evaluated at the
  write); `NoLoss` and `GroupsAtLeastOnce`, unless dead letters are
  lost. Their invariant says that an owner's position is exactly the end of a finished
  prefix plus what it holds, that an evicted instance's commit is not taken, and that
  an instance about to commit has finished its message. `SettlesOnLatest`, that a paper
  without failures ends at its latest version: the topics are in version order
  (`InOrder`), the last document chunked of a paper, once the fetcher is past it, is that
  of the latest announcement (`FetchedNewest`), and a document stored by the full-text path
  stays but for newer ones (`FullTextStays`, `VersionStays`). `SettlesOnOwnSummary`, that
  with summaries on it then shows that version's: the full-text worker writes it with the
  last document or finds it there, and no later upsert of the fast path touches it
  (`SummaryStays`). These say what is stored once
  an offset is *past*, not once it is committed: a message redelivered after a crash is
  at or behind the owner's position and its effect is already accounted for. Both theorems
  assume `Orderly`, that the faults `anyOrder`, `rebalance` and `dlqLost` do not happen, and
  the second that summaries are on for every message.
  Without the first two they are false, as TLC shows: `ingest_any_order` has the one, and an
  instance that is evicted while it handles an older abstract stores it over the newer one
  its successor has stored. With the third a failure leaves no trace, and `NeverFailed`
  cannot see it.
* `UpsertProofs`: `TypeCorrect`; `Atomicity`, that `Upsert` implements `AtomicStore`; and
  `DeadlockFree`. For the first, what a transaction has judged stays true because no other
  holds its row (`OneWriterPerPaper`, `RowCurrent`), and the links made so far are the first
  positions of the authors taken (`LinksSoFar`), so that at the commit they are all of them.
  For the second, a connection holds no author beyond one it still needs (`LocksAscend`)
  and no author twice over (`OneWriterPerAuthor`): in a ring of waiting connections the one
  that waits for the last author would be held up by one that waits for a later one.
* `DesignsProofs`: `TypeCorrect`; `OneAtATime`, since a job that is alive is the one its
  row says is running (`AliveIsRunning`) and such a row can be claimed only when stale;
  `FiguresOfDesign`, since what is under way is for the row's version (`WorkOfRow`); and
  `SettledLocally`, for one thread (an assumption of the theorem): only the first job has
  read any text (`FirstJobOnly`), nobody knows of a version not yet stored, and an older
  text in hand or in the row means that a later job is still to come
  (`OlderTextReplaced`). Claude's executor has two threads and the property fails there.
* `ProducersProofs`, of the poller: `TypeCorrect`; `SeenOnlyProduced`, from the fact that
  an entry in `mark` has been sent; `DuplicatesAreFaults`, from `produced[m] <= faults` for
  everything unseen and not being marked. Of the
  backfill: `BackfillKeepsTrack`, since a run
  has marked the wanted records of the pages before its own and of its own page those no
  longer in `rest` (`Walked`), and the record about to be marked has been given to the
  client (`MarkedTraced`). Of the replay: `ReplaysSettle`. As long as no older version was
  replayed, the queues of the fetcher and of the full-text worker are in version order,
  the worker's ahead of the fetcher's (`Ordered`), full text that is stored or failed is no
  newer than what the fetcher has still to read (`Forward`), and the full text of every
  version announced is pending, stored or asked for by a failure (`Accounted`); a run that
  has dealt with the latest failure has put it back or found it stored (`Retried`).
  `Accounted` is what makes the case of an abstract stored over full text go through: it
  is stored only over older full text, and its own version's is then still to come or
  among the failures, which the latest one would have to ask for. `ProducersKeep` and
  `ProducersTyped` carry all of this over to the composition.
* `TrailProofs`: `TrailRowsHaveWebs`, `TrailEmptyWebs`, `TrailRings`,
  `TrailRowsLeaveOnlyWhenAsked`. The invariant says what a request does and holds at each
  of its steps (`ShapeOf`), what its locks keep true of the committed tables (`Kept`: the
  rows it removes are still of its web, the web it shares still exists), that the locks of
  two requests exclude one another and at most one of the removals of a web's papers
  dooms it (`Apart`), and that every web not among the orphans has a paper which no removal
  under way takes (`Keeper`). In a ring of two one request holds a web and wants its rows;
  were both removals, both would have found the web empty.
* `RankingProofs`: `SearchesFused` and `SuggestionsBest`. An answer is what the operators
  compute for its question (`Computed`); what they compute is proved for every question.
  That a strict order of a finite set has one element for each place, so that the list has
  all of them in order (`OrderLists`), follows by counting what comes before each. The
  sums of fractions are ordered (`FractionsOrdered`), and one ranking that puts a paper
  ahead makes its score larger unless the other puts it behind (`AheadIsAbove`,
  `ScoresOrdered`); so the rows agree with what both rankings agree on, and without
  keyword matches their dense ranks increase from 1 to the number of papers, which leaves
  only the identity (`IncreasingIsIdentity`). For the suggestions the invariant of the
  loop (`BestOf`) says of the works considered so far that each is chosen or passed over
  for better ones (`NextWork`); a count at its cap is exactly at it, as it grows by one at
  a time (`CountAppend`). The prover cannot use induction theorems that take an operator:
  induction is stated over a set of naturals (`LeastOf`, `ByInduction`) and over the
  subsets of a finite set (`BySubsets`), and a fold as the values of a function
  (`FoldDefined`).
* `QueryApiProofs`, of the citations: `CitationsFetchedOnce`, `CitationsFromOneAnswer`.
  The papers still to ask for and those in hand are different ones (`BatchShape`), so
  storing one leaves what is known of the others; one thread works on them, so nothing is
  stored in between. The same module has, for the graph, that what the view has read is
  excluded as far as it still stands (`Excluding`); for watches, that every paper dated before the last visit is accounted for
  whether or not it is visible yet (`AllAccounted`), since a visit has loaded no later
  mark than the present one (`Dated`); for the cache, that an entry or a search not called
  older has all that was stored at the last clearing (`EntriesFresh`, `SearchFresh`).
  `PartsOfApi` shows that a behaviour of `QueryApi` is one of each of its parts, and
  `ApiKeeps` and `ApiTyped` that it therefore keeps what is proved of them and their
  types. The scopes of the cache are assumed not to be none.

Every safety property of a passing run is so proved, except `GapsVisible`. That one is
model-checked: it holds for one feed of usable records that moves by less than a page
between two pages. `poller_crash` shows it fail for a crash; it also fails for the several
categories the poller has by default, when a page holds only seen and unusable records, and
when a page's worth of papers arrives between two requests. No theorem states it for
so narrow a case. Only model-checked too is what must
eventually happen (`OnlyUnservableBlocks`, `EventuallyProduced`, `EveryUpsertEnds`,
`DesignsSettle`), which depends on fairness and on when a step is possible, which the
prover does not reason about. Two of the theorems hold for fewer kinds of fault than the
model has, `SettlesOnLatest` and `SettlesOnOwnSummary`; the run of the same properties has
the same limits, and the runs that end in a violation show what lies beyond them.

## What is not modelled

Text processing (html, pdf, figures, schemas), templates and browser code, metrics and
logs, evaluation scripts, CI. `PROJECT.json` gives the reason for each. The chunker is a
pure function of one document whose windows are counted by a tokenizer; the workers take
its passages as they come. Within the modelled parts: renaming a web, dates and the search
behind a read; plain listings; what a design's text says and its validation; the list of
watches and the feed, which show matches and mark nothing; which queries are near enough
to share a cached answer; `--dry-run` and the filters of the scripts. The partitions of a
topic are independent for different papers and are modelled as one; the two providers of
design pages share only the figures of a paper and are checked one at a time, and the
stored version of a paper only grows in `Designs` (the older full text of
`ingest_any_order` is not composed with it); back-off times are not timed; SIGTERM is a
crash.

## What is left

A composition of the pipeline with the pages that read its rows while it writes them (the
graph and the watch have the workers as actions of their own); the gaps of several
categories and of unusable records, stated with the exceptions they make and proved.
