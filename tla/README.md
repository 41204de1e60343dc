# event-intel in TLA+

event-intel collects posts and listings about events from public sources,
groups the ones that are about the same event, scores how sure it is that the
event is real, and serves the result on a map. This directory holds TLA+
models of its core, model-checked with TLC, and theorems about them checked by
TLAPS. Everything is read from `src/app`; line numbers below refer to files
under `src/app` unless a path says otherwise.

## 1. The system

### Components, their state and their operations

| Component | Code | State it keeps | Operations |
|---|---|---|---|
| Signal pipeline | `services/clustering.py`, `services/event_service.py`, `api/signals.py`, `api/events.py` | rows of `raw_signals` (`processed`), `events`, `event_evidence` | ingest or update a signal, cluster pass, create, patch and delete an event |
| Review queue | `services/review.py`, `api/review_queue.py` | rows of `review_queue`, `organizers.reliability_score` | approve, reject, discard, recluster |
| Database sessions and locks | `db/session.py`, `db/types.py`, `_CLUSTER_LOCK` and the advisory lock in `clustering.py` | loaded copies per session, two locks | begin, load, commit, roll back, lock, unlock |
| Confidence and webhooks | `services/scoring.py`, `services/webhooks.py`, link and seed in `event_service.py` | `events.confidence_score` and what it is computed from | score, rescore at each link, notify when the threshold is crossed |
| Discovery coverage | `services/discovery.py`, `api/discover.py` | rows of `coverage_cells` | is an area fresh, scan it, record the scan, rescan |
| Similarity scoring and embeddings | `clustering.py` (score_pair, best match), `embeddings.py`, `workers/backfill_embeddings.py` | vectors stored on signals and events, the model of a process | find candidates, compare, veto; write, fill in and copy vectors |
| Geocoding | `services/geocoding.py` | `geocode_cache` rows (misses too), last call time, two circuit breakers | forward, reverse, throttle |
| Venues and organizers | `services/venue_dedup.py`, `get_or_create_*` | `venues`, `venue_aliases`, `organizers` | find by name, alias, likeness or point; complete; create |
| Scheduler, one-shot worker | `workers/scheduler.py`, `workers/run_once.py` | due times and a running flag per job | start due jobs, drain the backlog |
| Rate limiting, authentication | `services/ratelimit.py`, `services/ip_geo.py`, `core/auth.py` | sliding windows in memory, per process | let a request pass, name its visitor, allow or refuse a scan |
| Adapters and parsing | `services/adapters.py`, `parsing.py`, `schemas/event.py`, the loops of `api/signals.py` and `discovery.py` | rows of `raw_signals` (source, external id) and `source_runs` | fetch, build items, store them, close the run |
| Places, MapKit tokens, location | `services/places.py`, `luma_places.py`, `mapkit.py`, `ip_geo.py`, `api/location.py` | two circuit breakers, three caches with a term | suggest, resolve, directory, token, locate |
| Start-up, settings, statistics, frontend, migrations | `core/config.py`, `main.py`, `api/stats.py`, `static/`, `src/alembic/` | none the pipeline depends on | |

### How they interact

* HTTP handlers run in a thread pool, the scheduler in a thread of its own,
  and there may be several replicas. They share nothing but PostgreSQL and,
  inside a process, a few module-level locks and caches.
* A **signal** is stored unprocessed. A **cluster pass** takes the oldest
  unprocessed ones, skips those that are evidence or under review, and for each
  of the others links it to the best matching event, queues a review item, or
  seeds a new event. One transaction covers the batch, and webhooks go out in
  the middle of it.
* A **reviewer** approves, rejects or discards a queued pair, or asks for a new
  pass. **Deleting an event** sends its signals back to the pool.
* `/discover` asks the coverage table whether some recent scan contains the
  requested circle. If none does it runs the sources, stores what they find,
  runs a pass, and records the scan. A scheduler job scans again, city by
  city, the areas that were requested lately.
* Events are found by SQLAlchemy sessions with `autoflush=False` at PostgreSQL's
  READ COMMITTED. What a session has loaded stays as it was until its commit,
  and a column is written only if it differs from the loaded value.

### What is hard, and what makes it correct

| Component | Hard behaviour | Must hold |
|---|---|---|
| Pipeline, review | long mixes of update, pass, review, delete and restart; ids used again | a signal is attached once, never lost, never asked about while attached; answers stand; approvals and references stay valid |
| Sessions, locks | stale copies, two reads of one decision, early returns, crashes | passes exclude each other; no lock stays taken; the interleaved requests keep what they keep alone |
| Pipeline | passes that take a bounded batch in a fixed order | every unprocessed signal is taken up |
| Confidence, webhooks | several links in one transaction, stale evidence counts, crossings seen never or twice | a confirmed event was announced, once; evidence does not take a confirmation back; scores stay in range |
| Coverage | a row that keeps one centre and one radius for scans of several circles | "fresh" only where somebody scanned, and recently; a scan answers the next request; a rescan covers the areas it is for, though their rows change meanwhile |
| Geocoding | breakers opening under concurrent calls, cached misses, cache writes inside callers' transactions | an outage is never cached; a string is asked for once; calls keep their interval; every lookup ends |
| Scheduler | a job that outlives its interval, or raises | one run at a time; a failed job becomes due again; the drain loop stops only when the pool is empty |
| Rate limiting | stamps out of order, a key that asks while refused, the table at its limit | no more than the limit of scans in a window |
| Venues | several transactions fill in one row; aliases, likeness and generic names | an event's venue fits what the event said, and goes on fitting it |
| Sources | requests that fail beside others that answer, garbage, a store that fails half way, a process that dies | a completed run had no failed request and lost no event of what could be read; the run's row tells what was stored; an event keeps its row |
| Places | threads that race for an expired entry, failures that are remembered | the directory is asked for once per term; a token outlasts its margin |
| Embeddings | text and vector written from copies by updates, passes, seeds and the backfill | the vector is that of the text, but for two named causes |
| Matching | candidates narrowed before they are scored, events seeded and filled in by the same pass | no better match is missed but those the index overlooks |

`PROJECT.json` lists each hazard at its line with the properties that would
catch it.

## 2. Modules

```
SignalFate        what happens to one signal, and nothing of how
   ^  implemented by
Tables            rows, queries, what must hold of the rows; the refinement mapping
   ^ EXTENDS           ^ EXTENDS
Pipeline             Sessions         Confirm          Geocode
 one transaction      one statement    scores,          cache, providers,
 per action           per action       webhooks         throttle
   ^                    ^                ^                ^
MCPipeline           MCSessions       MCConfirm        MCGeocode
Pipeline_proofs      Apart, MCApart   Confirm_proofs   Geocode_proofs
   ^                 Sessions_proofs
Worker               scheduler, jobs, run_once, on the rows and passes of Pipeline
   ^
MCWorker, MCLoop, Worker_proofs

Tables_proofs: the lemmas about the rows that Pipeline_proofs and Sessions_proofs share

Coverage    Sources         Venues    Access        Places          Embeddings   Matching
 record of   adapters, ids,  find or   auth, key,    breakers,       vectors and  candidates,
 scans       runs            create    rate limit    expiring caches their texts  scores
   ^   ^         ^              ^        ^               ^               ^          ^
   |   +---------+--------------+--------+-- MCServices -+---------------+----------+
MCCoverage       |              |        |               |               |          |
   |      Sources_proofs        |        |               |               |          |
   +-------------+--------------+--------+---------------+---------------+----------+-- Services_proofs
```

**Tables** has one variable per column the pipeline reads back: `processed`,
the `events` rows, `evidence[e][s]` (the *number* of `event_evidence` rows that
join the two, so that a second attachment is a state and not impossible), and
`status`, `about` and `candidate` of the review items. Item and signal ids are
autoincrement, so they are natural numbers used in order; event ids may be used
again after a delete. `Batch` is the query of a pass, `Scored` what is left after
its two skips, `WritePass` everything a pass commits. Similarity is abstracted
to a free choice: with an event to compare with, a signal may link, be queued
or match nothing; a match may be an event seeded earlier in the same batch.

**Pipeline** has an action per committed transaction: `CreateSignal`,
`UpdateSignal` (`_update_signal` with changed text), `Cluster`, the answers
`ApproveLink` (with or without the override of the candidate), `Reject`, `Discard`
and `Recluster`, `ReclusterPass` (the second transaction of the recluster handler),
`CreateEvent`, `DeleteEvent`, and `Restart` between two transactions of a handler.

**Worker** puts the scheduler and `run_once` in front of Pipeline. `Round` is one turn of
the scheduler's loop: the jobs that are due are marked and queued for a thread of the
executor (`asyncio.to_thread`), in the order of the list of jobs; their tasks set `_running` before the loop wakes up again, so
this is one step. A thread takes a job, fetches, stores item by item (each a transaction of
Pipeline) and runs a pass. `Fail` is where the two kinds of jobs differ: a scan
(`scan_area`) goes on to its pass, an ingest job returns without one. `Crash` is any other
exception, `Stop` the end of the process. `OncePass` and `OnceCount` are the loop of
`run_once`; `found` says whether the last pass created, linked or queued anything. Time
is counted in rounds.

**Sessions** splits the same requests into the statements whose answers are used
later. `loaded[w]` is what session `w` holds in memory: its batch, which of
these it read as processed, whom it skips, the item it answers, the rows a
delete will touch. `Flushed` writes a column only when it differs from the
loaded copy. A pass is `StartPass`, `TakeThreadLock`, `TakeAdvisory`,
`ReadBatch`, `ReadLinked`, `ReadPending`, `CommitPass`, then `Unlock` (the
`with _CLUSTER_LOCK` block ends) and `Close` (the session closes and the
transaction-scoped advisory lock goes with it, on the paths that did not commit).
An ingest finds the row of its item (`ReadSignal`) and goes on to `CheckEvidence` and
`CommitUpdate`, or finds none (`ReadNoSignal`) and inserts it; when another session has
inserted the item meanwhile (`LoseInsert`) it rolls back, reads that row, which may have been
through a pass by then, and updates it.
`Abort` rolls a session back at any statement; `Crash` stops a process with all
its sessions. Foreign keys are guards of the commits.

**Confirm** follows the confidence of events. A session keeps `loaded` and `copy`
of each event it has read; `link_signal_to_event` scores with the evidence count
that was loaded plus one, `Notify` counts the webhook at once, `Commit` writes
the columns that differ. `Reload` is the pass reading an event again after its
copy was garbage collected (events it has seeded itself stay referenced and
have no such step). `score_event` computes in thousandths, with the
rounding of a tie left open since it depends on the binary fraction. Which
signal joins which event is Pipeline's concern and is free here.

**Coverage** puts the world on a line: a geohash cell is an interval of
`CellSize` points, a circle an interval around its centre. `RecordScan` and
`RecordRequest` are the two modes of `_record_scan`, `AnswerFromDatabase`,
`BeginScan`, `FinishScan` and `FailScan` the paths through `scan_area`. The rescan job looks for
areas once and groups them by city (`StartRescans`); `RescanCity` takes the turn of a city: it reads
the rows of its group again, as they are by then, and begins the scan of the circle around their
mean, or records a request if no source is usable; `FinishRescan` records that scan, and with
`FailRescans` the job dies. Requests and scans of visitors write to the same rows between these steps.
`covered` and `visited` are history
variables: when a point was last in the circle of a scan and when a user last
asked for a circle in a city.

**Geocode** follows the lookups of several threads, each inside a transaction
of its caller. A key is an address or a spot; a row holds a place or a miss. `Begin`
enters `forward` with a list of candidates, or `reverse` with one spot; `UseCache`
and `Ask` are the two branches of the cache check; `GoogleFails`, `NominatimFails`
and `ProviderAnswers` are the outcomes of a call in `_chain`; `TakeTurn` and `EndTurn`
are the two ends of `_throttle`, whose sleep happens with `_rate_lock` held;
`SelectRow` and `WriteRow` are the SELECT and the flush of `_cache_put`. `written[w]` is
what the open transaction of `w` has changed: others wait for those rows, and
`BreakDeadlock` is PostgreSQL failing one of several waiters, which the savepoint
swallows. Times are countdowns: `sinceCall` grows to `MinInterval`, the
breakers and the sleeps fall to 0, `Tick` moves all of them. `local[w]` holds the
local variables of a lookup and, as history, which rows were committed when it began;
`missed` is the history of which queries some provider found nothing for. The result of a
lookup is not followed further than the cache: a candidate that fails everywhere is answered by the
gazetteer, a table in the code.

**Sources** is an adapter's fetch and the loop of its caller. A document (calendar, feed,
page, page of an API's answer) lists events; `Published` says what each carries of what its
item is told apart by: a native id, a page of its own, a title. `Fetch` is
`ingest_from_source`: one operator per adapter (`FetchLuma`, `FetchEventbrite`, `FetchFeeds`,
`FetchLinkedIn`, `FetchX`, `FetchTickets`), which maps the outcome of each request
("answers", "fails", "garbage") to the items it keeps, its errors, and whether it raises. The
ids of items (`Native`, `Path`, `Slug`, `Hash`) are what `create_signal` looks rows up by.
What a filter of the code lets pass is a set (`Named`, `Hits`, `Inside`), and `Only` keeps
the members of a sequence that are in one: an operator argument is out of a lemma's reach.
A job asks for a document in the format it has, an API's events have ids (`FormatsFit`), and
something tells the events of a run apart (`EventsDiffer`): TLC checks both of the instance.
`Ingest` is POST /ingest, `IngestJob` a job of the scheduler, `Scan` the loop of `scan_area`
over its sources; the three differ in what `StoreFails` leaves in the row of the run. `Die` ends the
process while a run is open, `Reschedule` lets organizers announce another start time, which the
hash of an item depends on.

**Venues** is the transaction that creates an event, in three steps: `FindVenue` reads
(exact name, alias, likeness, generic names by point) and takes a copy, `CompleteVenue`
fills in what the copy lacks from the event and the geocoder and looks for the organizer,
`CommitEvent` writes the columns that differ, the alias, and the organizer. The world is a line.
`watched` is history: one event, any of them, with what it said of its venue; `contested` is
history: the columns (city or pin) of venues that two transactions filled in at a time, differently.

**Access** is the middleware's decision, `client_ip`, and the limiter. `AskToScan` is a
visitor's /discover of an area that is not fresh, up to the clock read of `allow`; `Refuse` and
`Grant` are its two ends under the lock. Stamps are kept as ages; `waited` is how long ago
a call read the clock. `granted` is history: the ages of the last scans granted to a key, one more
than the limit, since the table of keys was last cleared.

**Places** has a client per request: the chain of the location picker with two breakers
(`Autocomplete`, `GoogleEnds`, `PhotonEnds`, `Resolve`, `DetailsEnd`), the directory of Luma
cities, asked for with its lock held (`AskDirectory`, `DirectoryEnds`), MapKit tokens
(`AskToken` reads the clock, `TakeToken` has the lock) and located addresses (`AskLocation`,
`LocationEnds`; no lock). `quiet` and `served` are history.

**Embeddings** keeps a text and a vector per row; the vector of a text is named by the text.
`CreateRow` and `SeedEvent` write both at once; an event seeded from a signal without a title is
titled "Untitled event" (`Titled`) and still gets the vector the signal has. `LoadForUpdate`, `LoadForPass`, `StartBackfill`
and `BackfillNext` load a copy, which `Save` commits later: text columns that differ, and a
vector if the model gave one. `LoadModel` and `Restart` are the model of a process, loaded
at first use, its failure remembered. `outdated` is history: rows whose text was changed while the
encoder had no answer, so that the old vector stayed, and rows whose vector was computed from a text that
another session had replaced by then. Nothing else puts a row there, and a later vector of the row's
own text takes it out.

**Matching** is one signal's turn in a pass: `Candidates` (the time window of the scan, or
what the index returns, and always the events of the pass), `ScoreOf` with its vetoes
and boosts in percent, and the choice (`Match`, `Seed`). A link gives the event the start time it lacks
and its venue the point it lacks (`FillIn`), and so moves all events of that venue (`points`): later vetoes,
boosts and windows see it. A new event is `EventOf` its signal: titled and categorised if the signal is not,
and placed where its venue is (`Houses`). The index returns some exact choice of the `Nearest` events that have a
vector (`Nearby`). Words and vectors are given by tables.
Pipeline and Sessions leave the outcome of this choice free, so that what they promise does
not depend on it.

**MCServices** puts these six and Coverage side by side. They have no variable in common, so a step
of one is a stutter of the others and a behaviour of the whole is an interleaving of
behaviours of the parts: checking each part alone (`part` says which one runs) loses
nothing of a property that speaks of one part. What ties the components together in the
code are calls whose result is a free choice of the caller's model: /discover asks Access
and Coverage, a scan is a run of Sources whose items are signals of Pipeline, an event that
a pass seeds finds its venue as in Venues.

Each property's mutant in `PROJECT.json` is an operator beside the definition it
changes (`ApproveKeepingCandidate`, `UncappedScore`, ...): a plausible bug of
that code, and the property catches it. These operators are used nowhere else.

## 3. Runs

| Run | Question | Instance | Answer |
|---|---|---|---|
| `pipeline` | Do the rows stay consistent, and does each signal move only as SignalFate allows, through every mix of transactions? | 2 signals, 2 events, 3 review items, batches of 1 and 2 | yes, 157 206 states |
| `worker` | Is every unprocessed signal taken up, do jobs run one at a time and for ever? | an ingest job and a scan on one thread, 2 signals, batch 1, 2 returns to the pool, 1 outage | yes, 106 056 states |
| `loop` | Does `run_once --loop` leave the pool empty? | the same, nothing else running meanwhile | no: finding 6 |
| `sessions` | Do interleaved sessions keep the promise unless text updates meet reviews or deletes? Do passes exclude each other, and are both locks given back? | 3 sessions in 2 processes, 2 signals, 2 events, 1 item; passes, ingests and deletes; in each behaviour either one reviewer or text updates that do not overlap a delete | yes, 285 312 states |
| `two_reviewers` | Can two reviewers both answer one item? | 2 reviewers | yes: finding 1 |
| `lost_signal` | Can a signal be processed and nowhere? | reviewer, text updates, a pass | yes: finding 2 |
| `confirm` | Is an event the pipeline made ever confirmed in silence? Do scores stay in range? Does evidence take confirmations back? | a pass and a reviewer on one event, 3 pieces of evidence, sources of confidence .45 and .9, one PATCH | no, yes, no: 2.5 million states |
| `announced_once` | One webhook per event? | the same without PATCH | no: finding 3 |
| `services` | Is "fresh" only said where somebody scanned, does a scan answer the next request, does a rescan cover its city? Does a completed run lose an event of what it could read, does its row tell what was stored, does an event keep its row? Does an event's venue fit it? Can a visitor scan beyond the limit? Are directory and tokens asked for as they should be? Is a vector that of its text? Is a better match ever missed? | the seven parts below | yes, yes, yes; no, yes, yes; yes; no; yes; yes, but for the two causes of section 4; no, but those the index overlooks: 2 280 099 states |
| `freshness` | Is "fresh" recent? (Coverage alone) | radii 2 and 9, three ticks | no: finding 4 |
| `rescans` | Does the rescan job (Coverage alone) leave abandoned areas alone? | one area, three ticks | no: finding 5 |
| `geocode` | Does an outage ever end up in the cache, is a string asked for twice, do calls keep their interval, does every lookup end? | 2 threads of one process, 2 addresses with 2 candidate lists, 1 spot, 3 lookups, interval of 2 ticks | no, no, yes, yes: 325 514 states |

### Why the bounds are enough

* *Pipeline.* The properties relate at most two signals, two events and two
  items. Two signals give batches whose later signal matches an event the earlier
  one has just seeded; two events give overrides, re-seeding and reuse of an id
  after a delete; three items give a question asked again after an answered one
  and beside one about the other signal. A batch of 1 leaves a signal for the
  next pass. Pipeline's properties are proved for all
  sizes, the refinement too (section 5), so the bound matters only for finding mistakes early. The
  symmetry of event ids is sound: no action orders them and the run has no
  liveness property.
* *Worker.* A batch of 1 in front of 2 signals makes the order of the query matter, and
  a signal under review whose text changed can fill the batch. `MaxReturns` bounds
  text updates and deletes: with an endless stream of *older* signals coming back, a
  newer one can wait for ever. `MaxOutages` bounds failures of the database and stops:
  with an endless stream of them nothing is promised; failures of sources are not
  bounded. One thread for two jobs makes jobs wait in the executor's queue; what threads do
  at the same time are separate transactions and passes, which `sessions` interleaves.
* *Sessions.* Each hazard needs two sessions; the third shares a process with
  one and not with the other, so both locks are exercised. Kinds of requests are
  assigned to sessions by `Kinds`. MCApart lets a behaviour have answers or text
  updates, not both, and no text update overlaps a delete: that is where finding 2 is. Two
  sessions of different processes ingest, so both may miss the row of an item, and the
  loser of the insert becomes a text update.
* *Confirm.* Three links in one transaction are the least that lower a score
  and raise it again; the sources are a social post (adapters.py:569) and a
  ticketed listing (adapters.py:365); the threshold and all weights are the
  program's. `MaxEvidence`, `MaxNotified` and `MaxEdits` bound counters.
* *Coverage.* A point stands for about 0.6 km: a precision-6 cell of some 1.2 km
  is two points and the tolerance of 2 km three. Spots 6 and 7 share a cell and 10
  does not; radius 7 from spot 10 exceeds `MaxRadius` when a rescan adds it to a
  distance. `Stale` and `Keep` are 0 or 1 tick, so that a tick or two makes a
  row stale. `MaxRunning` counts the scan of the job too, so the job scans beside a visitor, whose scan may
end first and move a row. On a sphere containment of circles and distances of centres obey
  the same triangle inequality, which is what the properties rest on; what a
  line cannot show is a circle covered by several others, and the code never
  combines circles to answer a request.
* *Sources.* Two sources of each shape: calendars, pages and feeds with and without ids
  and pages of their own, an API of one page and one of two, so that a failure comes after a
  page was read; an event outside the circle, one of unknown place, one the schema refuses.
  `MaxRequests` = 2 gives a second fetch of what the first one stored, with another start
  time; a scan has three sources, one of them without a key, so that mocks are stored.
* *Venues.* Two sessions; four ways to speak of a venue (a name with a city, without one, with a
  point, and the name of a city, which is generic); `MaxVenues` = 2 gives a match and a rival for
  it. One event is watched because the property speaks of one, any of them.
* *Access.* Two threads, three keys ("unknown" too), a limit of 2 in a window of 2 ticks, a
  table of 2 keys, so that the third one clears it; a call may wait `MaxWait` = 1 tick for the
  lock, less than the window.
* *Places.* Two clients, two addresses of which one is kept, terms of 1 or 2 ticks; the
  configured lifetime of tokens, 1 tick, is below the floor.
* *Embeddings.* A signal and an event, two sessions in one process. A title is none or one other, which
  is also "Untitled event" (`Headings` = 1), a body is none or one other, so a text has four forms, the empty
  one and the one without a title among them. `MaxOpen` = 1 row is written at a time, by both sessions: rows
  do not interact except when an event is seeded. The theorem has no such bound.
* *Matching.* Five stories at the edges of the default settings: 73 hours and 51 km from the first one,
  400 hours away without a place, without time and category, without title, place and category. Two venues,
  which events share or not and which may have no point yet (`VenueSamePlace` = 0 keeps apart what is not at one point).
  `MaxEvents` = 2 with `Nearest` = 1 makes the index leave events out.
* *Geocode.* Two addresses are the fewest that two transactions can write in
  opposite orders (`<<"venue", "area">>` and two lookups of one transaction), so deadlocks
  happen; three lookups put a lookup of the second thread between two of the first.
  An interval of 2 ticks lets a thread arrive while another one sleeps, and in
  the middle of the interval. A breaker that is open for one tick opens and closes
  within a lookup. What is proved (section 5) holds for all sizes.

### Fairness and deadlock

* `worker` assumes weak fairness of the scheduler's round and of each thread's work: the
  loop wakes up, fetches have timeouts, the executor serves its queue in order. Nobody has
  to answer a question, start `run_once` or send a request, and every source may fail
  each time, as long as some job is a scan whose source is configured.
* `sessions` assumes weak fairness of a session's next statement (`Proceed`:
  threads run), and strong fairness of `TakeAdvisory`, because PostgreSQL
  queues the waiters of an advisory lock. `threading.Lock` promises no order, so
  `TakeThreadLock` has weak fairness only. `Abort` and `Crash` are outside
  `Proceed`: liveness never relies on a failure.
* `geocode` assumes weak fairness of each thread's next step and of `Tick`: threads
  run, provider calls end (they have a timeout, geocoding.py:234, :240), time
  passes. `_rate_lock` promises no order; since the number of lookups is bounded no
  thread can be overtaken for ever, and with endless traffic one could. A wait
  for a row ends because transactions end, a cycle of waits because PostgreSQL breaks it.
* `services` assumes no fairness: its properties say what must not happen. No run stops
  (a state without a step would be reported as a deadlock), except where the cfg says so.

## 4. Findings

1. **Two reviewers, one item** (`two_reviewers`). review.py:65 checks that the
   item is pending without locking its row. Two overlapping requests both pass
   and both attach the signal, perhaps to two events. `tests/test_clustering_review.py`
   (test_resolving_twice_is_rejected) expects the second to be refused.
2. **A signal under review is lost** (`lost_signal`). New text sends a signal
   under review back to the pool. A pass reads it, sees its open question and
   will only flag it. Meanwhile a reviewer answers "recluster"; `processed =
   False` is assigned to a row that was loaded as False, so nothing is written.
   The pass then commits `processed = True`: no evidence, no question, no pass
   will look at it again. review.py:18-19 promises otherwise.
   Without any reviewer, a text update that overlaps deletes and passes does the same
   (`Kinds <- DeletesAndTexts` in MCLostSignal.cfg): it has read the row as processed and finds
   no evidence because the event was just deleted, a pass attaches the signal again, the
   update commits `processed = False`, and a second delete between two reads of the next pass
   leaves the signal flagged and nowhere.
3. **Webhook sent twice** (`announced_once`). `event.evidence_count` does not see
   the rows this pass has added. A strong, a weak and a strong signal joining
   one event score .775, .731, .775 and send two "confirmed" webhooks;
   README.md:222-223 of the repository says one.
4. **A small scan refreshes a large circle** (`freshness`). discovery.py:154-156
   keeps the larger radius of a recent row and still sets `last_scanned_at`, so
   after a large scan, forced small scans keep the whole ring "fresh".
5. **The rescan job feeds itself** (`rescans`). `_record_scan` sets
   `last_requested_at` for the job's own scans (discovery.py:146), so a city
   asked for once is scanned for ever, against discovery.py:230-231.
6. **The drain loop stops early** (`loop`). `run_once --loop` ends after a pass that created,
   linked and queued nothing (run_once.py:50). Such a pass may have flagged a batch
   of signals under review whose text had changed, with newer signals waiting behind them;
   run_once.py:6 says "until no unprocessed signals remain".

What holds is as interesting: with one reviewer, and answers and text updates kept apart,
sessions interleaved statement by statement keep the whole promise; foreign keys
alone keep deletion safe against concurrent passes and reviews; and stale copies
of events never make the pipeline confirm one in silence; a failing provider is
never taken for one that found nothing. `SeededIsAnnounced` is about events the pipeline
makes, since `POST /events` does confirm in silence: with a venue, a start time and an
organizer of reliability .53 `create_event` scores .75 and sends no webhook, nor does any
later link (event_service.py:233). `StringsResolvedOnce` is about addresses, since `reverse`
asks again for a point whose miss is cached (geocoding.py:442-447, :490-492).

Some behaviour is modelled as it is, since nothing in the repository says otherwise, and
deserves a look of the code's owners:

* A scan records its area as fresh whatever became of its sources, and also when it asked
  with a query (discovery.py:216-222).
* Two things leave a row with the vector of a text it does not have (`outdated`). A text that becomes empty, or
  changes while the encoder has no answer, keeps its old vector (embeddings.py:138). And a vector computed from
  a loaded text is committed although another session has replaced that text: of two overlapping updates of one signal,
  one of the title and one of the body, each stores the vector of a text the row never has (event_service.py:416-427).
* An event whose signal has no title is called "Untitled event" and reuses the vector of the bare body, if the
  signal has one (event_service.py:301, :317-318): the comment there, "same text", does not hold of it.
* A calendar that cannot be parsed has no events and is no error (adapters.py:199-203), so its run is "completed"
  with all of them lost. An unreadable page or posting becomes one item of its own text. These are the documents
  `Unreported` names; a feed or an API that cannot be read is reported.
* The index does not return events without a vector (embeddings.py:206-208), nor those beyond the nearest 20, whose title is
  less alike but whose time and place may make them the best match. A signal may then become a second event.
* LinkedIn asks its feeds through FeedAdapter, so that a mock may stand among the results of
  event pages (adapters.py:470-472), though mocks are for sources without results.
* A failed lookup of an address overwrites the place another thread has just stored, for six
  hours (ip_geo.py:65): the cache has no lock.
* Two transactions that create the first event of a venue make twin rows (event_service.py:135-146);
  two that complete one row may give it a pin far from the other's event, or another city
  (`contested`).
* Whether more evidence keeps an event confirmed depends on the threshold, a setting. Between .715
  and .769, and so by default, it does (section 5). Further off, a link may score less than the
  link before it: a score that was carried by its place, its time and few pieces of evidence is
  scored anew with .35 of itself as the confidence of its source.
* The scan loses no match only while `cluster_max_link_time_days` is at most
  `cluster_candidate_window_days`, which the settings do not check (3 and 14 by default).

## 5. Theorems

`Pipeline_proofs` proves for every set of signals, events and items and
every batch size, from `TablesAssumption` only (ids are natural numbers, `None` is
none of them), that `Pipeline!Spec` keeps: `TypeOK` (*PipelineTypes*),
`OneEvidencePerSignal` (*SignalsAttachOnce*), `OneQuestionPerSignal` and
`OpenQuestionUnattached` (*QuestionsAreSingle*), `NothingLost` (*NoSignalIsLost*),
`References` (*EvidenceIsConsistent*), `AttachedIsProcessed` (*AttachedStaysProcessed*),
`ApprovalHolds` (*ApprovalsStand*), and the action properties `AnswersAreFinal` (*AnswersStand*) and
`EvidenceIsAuthoritative` (*EvidenceStands*).

The argument is one inductive invariant. The properties of `Tables` are not
inductive by themselves: `NothingLost` speaks of a reviewer's *last* word, so the
invariant adds that an open question about a signal is the newest row about it
(`OpenIsNewest`), and that review rows in use are about stored signals, unused
ones about none (`RowsAreAboutSignals`). A lemma for each action shows that it
preserves the invariant; for `WritePass` it goes through what `Outcome` promises of the
assignment: a signal of the batch is attached or asked about but not both, new
rows come after all old ones, and neither touches a signal that was attached or
under review. These lemmas are about rows and not about transactions, so they are in
`Tables_proofs`, and Sessions uses them too.

It also proves *PipelineKeepsPromise*: `Pipeline!Spec` implies
`KeepsPromise`, that is `SignalFate!Spec` under the refinement mapping of
`Tables`. With the invariant the rows of a signal are legible (`Legible`): the
stages "doubled" and "contested", which SignalFate does not know, cannot be read
off them, and the event of an attached signal is unique. A lemma per transaction
then names the step of SignalFate it is, or shows that it moves no signal
(*Unmoved*): a pass is a `Take`, approving and rejecting are both `Attach`, an
update of a signal is a `Return` when it had been discarded and a stutter
otherwise, a delete is a `Release`.

`Confirm_proofs` proves `TypeOK` (*ScoresInRange*) and `SeededIsAnnounced`
(*NoSilentConfirmation*) for every number of events and reviewers, every threshold,
source confidence and precision, and every bound, from `ConfirmAssumption`
(confidences, precisions and the threshold are in their ranges; `None` is no row
and no session). A session may commit a copy that is stale, so it is not enough
that rows are announced: the invariant adds that every *copy* of an event the
pipeline made is (`CopiesAnnounced`). That a copy is of the event it will
overwrite takes three more parts: what a session has read is still there and was
made the same way (`LoadedIsStored`), what it has not read is its own new event
and known to nobody else (`SeededAlone`), and one session at a time has changed a
row (`OneWriter`). `OrganizerIsRead` and `EvidenceBounded` carry the ranges. A link then
either starts from an announced score or crosses the threshold and announces.

It also proves `EvidenceKeepsConfirmation` (*ConfirmationsStand*), for thresholds from .715 to
.769. A score is not a function of the evidence: it depends on the order in which
links came and on copies that counted less. So the invariant `EInv` says what every score of an event
nobody edited was *earned* by: at most what that much evidence can bring, and the precision of place
and time (`RowsEarned`, `CopiesEarned`), which only ever grow, also from what a session has read to what
others have committed since (`ReadsGrow`). A link that counts one piece of evidence more then makes up for the
.65 of a score it does not carry over: below five pieces by what the new one adds, if the threshold is at
least .715; from five on by what five add, if it is at most .769. The hypothesis is on the
threshold only; the default lies inside.

`Sessions_proofs` proves for every number of processes, sessions and rows, through failures and crashes:
`OnePassAtATime` (*PassesExclude*), whose invariant adds that a session inside a pass holds the advisory lock
(`PassHoldsLock`); `TypeOK` (*SessionsTypes*); and `References` (*ForeignKeysHold*), for any
overlap of requests: whatever was loaded before, the constraints checked by the commit are enough.

For the sessions that `Apart` allows it proves `NothingLost` (*ApartLosesNothing*) and
the refinement `KeepsPromise` (*ApartKeepsPromise*): interleaved statement by statement, they do no
more to a signal than SignalFate allows. The invariant `AInv` is that of the rows (`RowsInv`), and for each
session what it may still rely on of what it has loaded (`Remembers`): the batch of a pass is still
in the pool and it knows which of it are asked about; the item a reviewer answers is open,
its signal processed; the event a delete removes is there, with at least the evidence that
was loaded; a text update that found its signal attached or asked about is still right. Each is
false without `KeptApart` (findings 1 and 2). *SparedRemember* says what a commit must leave alone for the
others to remember rightly, and a lemma per commit shows that it does.

`Worker_proofs` proves that `WorkerSpec` implies `Pipeline!Spec` (*WorkerRunsPipeline*): a thread's store
and pass, and those of `run_once`, are transactions of Pipeline, everything else a stutter, so that
all theorems of Pipeline hold of the worker. And `WorkerTypeOK` (*WorkerTypes*) and
`OneRunAtATime` (*JobsRunOnce*), for every list of jobs, pool of threads and intervals. The flag
`running[j]` must stand for exactly one place (`EachInOnePlace`): the job is once in the queue or with one
thread, not both, and nowhere when the flag is down.

`Geocode_proofs` proves `TypeOK` (*GeocodeTypes*), `OutagesAreNotCached`
(*NoOutageIsCached*), `StringsResolvedOnce` (*StringsAreResolvedOnce*) and the action
property `SpacedCalls` (*CallsAreSpaced*) for every number of threads, processes, queries
and every interval, from `GeocodeAssumption`. The invariant adds, per lookup (`Sound`),
that a miss about to be cached is a provider's, and that a row known at the start is
still there, since commits replace rows and never remove one; of all rows, that a miss is
a provider's (`RowsSound`); and of the throttle that the thread that holds the lock
sleeps exactly what is left of the interval (`TurnsSound`), which holds because nobody
else can start a turn while it sleeps.

`Services_proofs` is about the other components of MCServices, each for all values of its constants:

* *Places*: `TokensOutlastTheMargin` (*TokensOutlast*), from `Margin < LeastTtl` and a wait for the lock
  no longer than the margin, and `DirectoryAskedOncePerTerm` (*DirectoryAskedOnce*), whose invariant
  ties the time left of the cached directory to the time since Luma was last asked.
* *Venues*: `EventsFitTheirVenue` (*EventsFit*). Transactions complete a row from copies of it, so the
  invariant `VInv` says of each that is under way that the venue it chose fits its event (`Chosen`), that
  completing only fills in (`FilledIn`), and that the row still has what the copy has, except in a
  contested column (`StillTrue`): a match writes only empty columns, so what an event relies on is
  overwritten only by another transaction that also saw it empty. Of the geocoder it needs that
  a name that is a city of the gazetteer and not generic is found in that city (`VenuesAssumption`).
* *Coverage*: `FreshWasScanned` (*FreshOnlyWhereScanned*), `ScanMakesFresh` (*ScansMakeFresh*) and
  `RescanCoversCity` (*RescansCover*). The invariant `CInv` adds to the types that a row with a centre is
  whole, and that a row tells no more than was scanned, up to the distance of two points of its cell,
  since it keeps its first centre when another spot of the cell is scanned (`RowsWereScanned`); the rest is the
  triangle inequality. `RescanInv` says of the job that the rows of its groups stay, and that the circle of the
  scan under way reaches the far end of every area it is for, unless the largest radius cuts it off: the areas are
  those of the rows when the turn of their city came, so what is written to the rows later does not matter. Of the mean of a rescan only one thing is assumed, that the mean
  of points of the ground lies on it (`MeansLieOnTheGround`, which TLC checks of the instances).
* *Access*: `ScansPerWindow` (*ScansAreLimited*), from a wait for the lock no longer than the window. The
  invariant `LimiterInv` ties each of the last scans to the stamp as far from the end of the deque: the
  scan is older than the window less a wait, or its stamp is still there and not more than a wait
  older than the scan. So the limit holds although stamps enter out of order.
* *Embeddings*: `EmbeddingsTypeOK` (*EmbeddingsTypes*) and `VectorsFitTheirText` (*VectorsFit*), for
  all rows, sessions, processes and numbers of titles and bodies. The invariant `EInv` adds that a session knows only rows
  that are there (`WritersKnowRows`). A commit that finds its copy's text untouched leaves the vector of the text it
  writes, or no vector at all, or, without an answer, the vector of a text it did not change; the one that does otherwise is
  recorded in `outdated` at that moment, and no other way leads there. A seeded event has its signal's vector, so it fits
  if the signal's did, up to the title it was given (`OfItsText`).
* *Matching*: `NoBetterMatch` (*NoMatchIsLost*) for all thresholds, windows, venues and similarity tables. That
  `VetoTime <= CandidateWindow` is a hypothesis of the theorem and no assumption of the module, since the settings do not
  enforce it (3 and 14 days by default, config.py:28, :33): with it an event outside the candidate window is vetoed and
  scores 0. On the index path every event of the table is a rival, whoever made it, but those that are `Overlooked`: older
  than the pass, and without a vector or behind as many others that are at least as near. `Overlooked` is defined from the
  table and not from what the index returned. Scores are compared as the events and venues were when the signal was
  decided, before the link fills them in.
* All of them: a behaviour of MCServices is one of each component (*PartsStandAlone*), so that the
  theorems about a component hold of the run that checks it, and `ServicesTypeOK` (*ServicesTypes*) holds.
  Each part needs a little more than its type: that addresses are kept up to a number (`PlacesBounds`),
  that a row without a centre has nothing else (`CoverageBounds`), that an alias is of a row that is there
  (`VenueBounds`, by `StillTrue`), and that events are numbered in order (`MatchTypes`).

`Sources_proofs` is about Sources, for all documents, lists of events, jobs, settings and outcomes of requests.
`FinishedRunsCount` (*RunsCount*) does not depend on what an adapter returns. `CompletedRunsKeepEveryEvent`
(*CompletedRunsLoseNothing*) and `OneRowPerEvent` (*EventsKeepTheirRow*) do, and are proved in four steps:

1. What flattening and selecting leave of a sequence: its members, and each of them that passes.
2. What an adapter makes of a document: items of its events with ids that are theirs (`OwnIds`), and at least
   one for each event it must keep, unless the document was unreadable.
3. For each adapter that what it returns stands for what it owes (`Stands`): it is made of the documents that
   were asked for, and when it reports no error and does not raise, every member of `Owed` is among it
   (*FetchStands*): the events that the filters ask for of documents that answered (`OwedEvents`), and the pages
   that are kept as texts (`OwedTexts`). Both are defined without the adapters' code, from what documents list and
   filters ask. And that it reports what went wrong (`Reports`, *FetchReports*): when there is no error and nothing
   is raised, every document asked for has answered or is `Unreported`, a calendar or page that came unreadable.
4. The invariant `RInv`: the items stored so far have their rows (`ItemsStand`), a row of an event has an id that is
   the event's, and no two rows of a source share an id (`RowsAreOwn`). Storing an item looks a row up by its id and
   may rewrite another's row; that it never rewrites one of the same run is *IdsDiffer*, which rests on `EventsDiffer`.

`EventsDiffer` is a real condition on sources, not on the code: two events of a run with one uid, one page or, where
they have neither, one title share a row, and the later one takes it. So a calendar that repeats a uid for
the dates of a series keeps one signal for all of them. `SourcesTypeOK` is *SourcesTypes*.

Left to TLC: liveness (`PoolDrains`, `JobsKeepRunning`, `ThreadLockIsReleased`, `EveryLookupEnds`), since fairness and
ENABLED are out of the prover's reach. Every invariant and every other action property of the passing runs is proved.
What bounds an instance (`MaxRunning` scans at a time) is no part of a type: that a sum of counts stays within a
bound is induction over data.

## 6. What is not modelled, and why

* The numbers of a vector and the text of anything: similarities are tables of the
  instance. The parsing of dates, categories and markup: what it does to an event is
  what `Published` says of it.
* The frontend, migrations, settings, statistics and the query behind a result page: stateless,
  read-only or external.
* Sources: the retry of `create_signal` after a lost race for the unique key (its insert is
  one step here; Sessions splits it); `fetched_count`, which is only shown.
* Venues: the other columns of a row, and the deletion of rows, which nothing does.
* Matching: the approximation of the HNSW index, whose nearest are exact here; an update or deletion of an event by
  the API in the middle of a pass. An event's end time and organizer, which no score reads.
* Embeddings: deletion of rows.
* Coverage: the city of a row is taken to be that of its centre. A row whose geocoding failed has none and is grouped by a
  prefix of its cell, or gets the one of a later spot of the cell; what is proved holds of every grouping of points.
* Access: the settings, OPTIONS requests, and the paths a visitor does not scan by.
* Event status (`infer_status`), payload, signature and delivery of webhooks:
  delivery is a fire-and-forget thread, the model counts the calls.
* Confirm has no deletion of events and one organizer; a score is never
  computed for an event that is being deleted without failing its foreign key.
* Geocoding: the gazetteer, accuracies and the parsing of answers; a restart, which
  only resets timers and breakers; that a place in the cache may be overwritten by the
  miss of a lookup that overlapped with it is modelled and nothing in the code forbids it.
  `_cache_has` and `_cache_get` are one read here: rows are never deleted.
* Scheduler: `run_once --ingest`, which runs the jobs once in a row before its passes; the
  rows of `source_runs` are in Sources. A scan stands for the geo jobs and for the "coverage" job when it
  finds areas to scan; a scan without a configured source ends without a pass. A round
  that stores part of its items and fails is recorded with 0 signals and
  followed by no pass (scheduler.py:152-157): the next job's pass takes them up.
* SQLite: one writer at a time, no advisory lock. Sessions models PostgreSQL.
* Which sources a scan used and whether they failed is in Sources; Coverage takes a recorded
  scan for a scan, as the code does.

## 7. Plan

Done: Tables, SignalFate, Pipeline, Worker, Sessions, Confirm, Geocode, Coverage, Sources,
Venues, Access, Places, Embeddings and Matching with their runs, and the theorems of section 5.

Open: events with deletion in Confirm, and `infer_status`; with them, the overlap of two reviews of
events of one organizer, each of which writes the reliability it computed from what it read (review.py:48).
