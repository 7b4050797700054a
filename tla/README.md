# domain-guard in TLA+

domain-guard decides whether a message belongs to an agent's domain. A guard
runs a pipeline of layers and returns pass or block; a sidecar serves many
guards over HTTP, caches results, limits rates, reloads configurations while it
runs and routes a session to the right guard. This directory models the parts
of it that keep state or decide, checks them with TLC on small instances and
proves the main results for every instance with TLAPS.

    tlc -workers 2 -config GuardCheck.cfg MCGuardCheck     # any run of PROJECT.json
    tlapm Registry_proofs.tla                              # any module with proofs

All paths below are under `src/domain_guard/` unless they say otherwise.

## The system

| part | state | operations | talks to |
|---|---|---|---|
| guard (`core.py`) | configuration, layers, observers | `check` | layers, cache, observers |
| layers (`layers/`) | compiled patterns, example vectors | `decide` | embedding and LLM providers |
| result cache (`cache.py`) | ordered dict key → (time, result), hit and miss counters; or Redis keys with a TTL and counters per process | `get`, `set` | clock, lock, Redis |
| decision log (`decision_log.py`) | bounded deque | `record`, `recent`, `summary` | – |
| metrics (`metrics.py`) | counters | `_on_result`, `render` | – |
| rate limiter (`ratelimit.py`) | key → (tokens, time), counters; or a Redis counter with a TTL | `take` | clock, lock, Redis |
| registry (`sidecar.py`) | guards, their files, the files' mtimes | load, watch, drop, get | file system, guards |
| admin endpoints (`sidecar.py`) | – | PUT config, POST reload | file system, registry |
| router (`router.py`, `/v1/route`) | session → guard, the list of guards it was built from | `route`, `clear_sticky` | guards, registry |
| `/v1/check` | – | limit, then check | limiter, registry, guard |
| calibrate (`calibrate.py`) | left-over samples, best cell | classify, sweep | layers, embedding provider |
| replay (`replay.py`) | results of two passes | check, compare | guards |
| demo agent (`src/demo/shop_agent/`) | session → agent, its history | chat, reset | guard, LLM, tools |

FastAPI runs the `def` endpoints in a thread pool, so everything above is called
by several threads at once; the watcher is one more thread. Locks protect the
cache, the buckets, the log and the registry's dicts, and nothing else: clock
readings, file accesses, layers, observers and the router run outside them.

Where the behaviour is hard, and what makes each part correct:

- **check()**: threads interleave between lookup, layers, store and observers. A
  result, cached or not, must be one the pipeline could give for *this* request;
  the cache's counters, the metrics and the log must tell the same story; an
  entry must not outlive the TTL, since the fail-closed block of an LLM outage is
  cached like a verdict.
- **cache**: eviction, expiry and recency act on one dict; `get` reads the clock
  before the lock.
- **Redis cache**: shared by processes that restart with other configurations; its
  key does not name the configuration, its counters have no lock, and any round
  trip may fail in the middle of a check.
- **rate limiter**: `take` reads the clock before the lock and stores the reading.
  The one in Redis counts a call before it knows the limit, rounds its time to
  seconds, and outlives the process that called it.
- **`/v1/check`**: lookup, limiter and check are three moments; the guard may be
  unloaded, Redis may fail and the process may die between them.
- **registry**: read, register and stat are three moments; files change between
  them; renamed guards leave names behind; a PUT truncates before it writes.
- **router**: rebuilt without a lock, by the names of the guards only; sticky
  entries are set and dropped by racing threads of one session.
- **calibrate, replay**: sequential; what calibrate says of its samples must be
  what the guard then does, although it judges them by a copy of the layer's rule.
- **demo agent**: all requests of a session append to one list without a lock, an
  exception leaves it as it is, and all of it goes to an LLM service that refuses
  a list in which a tool call has no result.

`PROJECT.json` lists every component with its status, and the hazards line by
line with the properties that watch them.

## Modules

| module | models | state and actions |
|---|---|---|
| `Layers` | `layers/*.py` | operators; `Outcomes` gives everything a layer may answer |
| `LRUCache` | `LRUResultCache` | operators on a cache: `AfterGet`, `AfterSet` |
| `GuardCheck` | `DomainGuard.check` by several threads, with cache, metrics and log | `Begin`, `CacheHit`, `CacheMiss`, `Decide`, `LayerRaises`, `FailClosed`, `CacheSet`, `NotifyMetrics`, `NotifyLog`, `Tick` |
| `ResultCache` | the interface `ResultCache`: what `check` relies on | abstract specification: `Call` and `Answer` (a `get` of one key), `Abandon` (it raises or its process ends), `Set` |
| `CacheThreads` | `LRUResultCache` by several threads | `BeginGet`, `EndGet`, `Set`, `Tick` |
| `RedisServer` | the commands of Redis the backends use (external) | operators on the entry of one key |
| `RedisCache` | `check` over `RedisResultCache`, by the workers of several processes | `Begin`, `Get`, `LoadCounter`, `StoreHit`, `StoreMiss`, `Layers`, `Set`, `RedisFails`, `Return`, `Restart`, `Tick` |
| `TokenBucket` | `TokenBucketLimiter.take` | `Call` (clock), `Allow`/`Reject` (lock), `Tick` |
| `FixedWindow` | `RedisRateLimiter.take` | operators on a counter: `AfterTake`, what it answers, `RetryAfter` |
| `CheckEndpoint` | `/v1/check` with the Redis limiter: composes `GuardCheck` and `FixedWindow` | `Receive`, `NotFound`, `Take`, `RedisFails`, `Allow`, `Reject`, `StartCheck`, `RunCheck` (a step of `GuardCheck`), `OtherInstance`, `Unload`, `Crash`, `EndpointTick` |
| `OrderedDict` | Python's `dict` | operators |
| `Registry` | `GuardRegistry`, watcher, admin endpoints, operator | see below |
| `Route` | `/v1/route` and `GuardRouter` by several threads over a changing registry | `Begin` (snapshot), `Admitted`/`Refused` (limiter), `Compare`, `Build`, `Sign`, `Pick`, `Lookup`, `StickyPasses`, `StickyBlocks`, `OutOfScope`, `Passes`, `Blocks`, `NonePasses`, `Raises`, `Reply`, `Clear`, and the registry's `Reload`, `Unload`, `Load` |
| `Calibrate` | `guard-cli calibrate` | `Refuse`, `DecidedEarlier`, `Embed`, `EmbedRaises`, `AllClassified`, `Sweep`, `Report` |
| `Replay` | `guard-cli replay` | `CheckNew`, `CheckBase`, `CheckRaises`, `TurnToBaseline`, `StartCompare`, `Compare` (one record), `EndCompare` |
| `Tuning` | calibrate, edit the thresholds, replay: composes the two | `CalibrateStep`, `ReplaySamples`, `ReplayTraffic`, `ReplayGoesOn` |
| `ShopAgent` | `/api/chat` and `/api/session/reset` of the demo, and the agent loop | `Receive`, `GuardPasses`, `GuardBlocks`, `Refuse`, `GuardRaises`, `Ask`, `Send`, `AskForTools`, `Dispatch`, `DispatchRaises`, `Finish`, `ProviderRaises`, `GiveUp`, `Reset` |
| `CacheThreads_proofs`, `RedisCache_proofs`, `TokenBucket_proofs`, `CheckEndpoint_proofs` (also of `GuardCheck`), `Registry_proofs`, `Route_proofs`, `ShopAgent_proofs`, `Tuning_proofs` (also of `Calibrate` and `Replay`) | – | theorems, see Proofs |
| `MC...` | – | instances for TLC |

`GuardCheck` follows one call through `pc`: `idle` → `get` (the clock is read,
the lock is not yet taken) → `layers` → `set` → `metrics` → `log` → `idle`; a
hit goes from `get` to `metrics`; a raising layer goes back to `idle`. A request
is a message and a state. What the layers can tell of a message is given by
constants (`BlockHits`, `AllowHits`, `DomainSim`, `OodSim`), and what `strip()`
leaves of it by `Strip`, because the cache key strips and the layers do not. The
LLM may answer anything, differently each time; the embedding provider may
raise. Confidence, reasons, latency and texts are left out.

`CheckEndpoint` takes `GuardCheck`'s own steps inside a request: a worker goes
`idle` → `take` (the limiter is asked) → `reply` (Redis has counted the call, the
answer is on its way) → `check` → `inside`, and answers when its check returns or
raises. A crash ends every request and the process's counters; what Redis counted
stays. Time runs in ticks, several to a second, since EXPIRE takes whole seconds
and TTL answers in them. `window`, `promise` and the number of each window are
history: how many calls the current window saw and let through, and when a client
was told to come back.

`ResultCache` remembers which key each `get` in progress asked for (`asked`), so that
an answer may only be the latest value of that key, or nothing; both caches are shown
to implement it through the same mapping.

`RedisCache` abstracts a verdict to the version (configuration and code) of the
process that reached it, which is what can go wrong in a cache two versions share.
What one version makes of another's payloads is the constant `Reading`: a result
(`"result"`), JSON that no `GuardResult` takes (`"fields"`: counted as a hit by
`cache.py:127` and then as a miss), or no JSON (`"bytes"`: a miss only).
`self._hits += 1` is cut into its load and its store. What `set` leaves out of the
payload (`debug`) nothing in `check` reads back.

`Registry` keeps the three dicts of the code as ordered dicts, since which of
two names a deletion pops depends on their order. A loader (the watcher or an
admin's thread) goes `read` → `register`; the watcher walks its snapshot `todo`
and goes `stat` → `read` or to `drop`; a PUT goes `truncate` → `write` → `read`.
The operator may edit or delete a file at any moment. A guard object is the
configuration it was built from; a file's mtime is the number of writes so far,
so every write has an mtime of its own. That is the best a file system can do:
the loss of two saves within one tick of a coarse clock is documented
(`docs/user-guide.md:377`) and not modelled. `reload_count`, which is only
reported, and the metrics and log attached to each new guard are left out, and
so is a provider that fails while a valid configuration is being built.

`Route` keeps every router that was built, since a thread may go on using one
that the global no longer names, and cuts the endpoint wherever another thread
can run: snapshot, comparison, the two writes of a rebuild, reading the global,
looking up the sticky entry, each guard's check. A check's answer is open: pass,
block with any of the `Confidences`, or an exception, as `GuardCheck` allows; so is the
limiter's, whose own state `TokenBucket` and `FixedWindow` model. When no guard passes,
the alternatives are sorted as `router.py:90` does: by descending confidence, equals in
the order tried. The registry's changes are those
`Registry` models, reduced to what the router sees.

`Calibrate` classifies each sample by the layers before the embedding layer, sweeps
the grid cell by cell as the nested loops do, and keeps the running best; rates are
kept as counts over the same number of samples. `Replay` runs both passes, each a loop
that appends one result per record, and then walks the lists side by side until the
shortest ends, as `zip` does, to note which records flipped against the baseline's
results or the labels; `newOf` and `baseOf` are history, the record each result is of.
A check is one step in both: the guards have no cache there and nothing runs beside them. `Tuning` follows
docs/user-guide.md: calibrate, edit the thresholds, replay the same samples.

`ShopAgent` keeps one history per session object, numbered, since a request goes on
with the object it found after a reset has replaced it. A history entry is its role,
the chat that appended it and, for tool calls and results, how many or which: enough
to say whether calls and results stand in pairs. The provider is a service, which
may answer anything, or the mock, which asks for tools unless the last message is a
tool's result.

## Runs

Bounds are named in each module and set in the cfg.

| run | instance | shows |
|---|---|---|
| `guard_check` | 2 threads, 4 guards, 5 requests over 3 messages and 3 states, cache of 1, TTL 1, log of 2, 3 checks, clock to 2 | `VerdictSound`, `Accounting`, `HitsAreFresh`, `StampsAdvance` |
| `cache_threads` | 2 threads, 3 keys, cache of 2, TTL 1, 5 calls, clock to 2 | `Shape`, `ForgetsOldest`, `KeepsWhatFits`, and that it implements `ResultCache` |
| `redis_cache` | 2 processes with 2 workers and 1, 2 keys, 3 versions, TTL 1, 3 checks, 2 restarts, clock to 2 | `CountersAddUp`, `StaleVersionsFade`, and that it implements `ResultCache` |
| `token_bucket` | 2 threads, 2 keys, capacity 3, rate 2, costs 1 and 3, 4 calls, clock to 3 | `TokensInRange`, `GrantBound`, `RateHoldsInOrder`, `ResetIsHonest` |
| `check_endpoint` | 2 threads, 1 client, limit 1, window of 2 s at 3 ticks/s, clock to 8, 2 requests, 1 call of another instance, 1 crash | `WindowExact`, `WindowsLast`, `RetryAfterHonest`, `LimitedBeforeCheck`, `EveryRequestAnswered` |
| `registry` | watcher, 1 admin, 2 files (one may be broken), 3 writes by the operator | `DictsAgree`, `LastGoodStays`, `UntornEditsPickedUp`, `UntornDeletionsUnload` |
| `route` | 2 threads, 1 session or none, 2 scopes, 2 guards and a third name, 2 confidences, 2 requests, 2 changes | `RouteSound`, `StickyIsLast`, `SignatureTells`, `ServedInTurn` |
| `shop_agent` | 2 threads, 2 rounds, 2 tools at once, 2 chats, 1 reset, service or mock | `PromptsPaired`, `TurnsAlternate`, `ResetForgets`, `MockNeverGivesUp`, `EveryChatEnds` |
| `tuning` | 5 configurations, every list of up to 3 samples over 5 messages, pass grid of 4, block grid of 2, traffic of up to 2 records | `BestIsBest`, `BlockCutIsFirst`, `ReportMatchesGuard`, `FlipsExact` |
| `shadow_blocks` | `guard_check` with one guard in shadow mode | a comment and a statement of the user guide fail |
| `registry_zombie` | watcher, 1 file, 3 writes | a statement of the README fails |
| `route_stale` | 1 thread, 3 requests, 2 changes | hot reload does not reach `/v1/route` |

Why the bounds are enough. A race needs two threads, and every race in these
parts is between two of them or between a thread and time; a cache of one or two
entries with one more key than it holds evicts on every path; three checks let
one thread store, a second serve and a third evict or expire; the five requests hold
two pairs that differ and share a cache key, by a padded message and by a state field
outside the signature, so a hit does serve another request's result; TTL 1 with a clock
to 2 makes entries fresh, at the limit and expired. The four guards of
`guard_check` are enforce and shadow, with and without a cache, with and without
out-of-domain examples, and together use all four layers. The bucket's instance
has costs below, at and above what is left, and time for a full refill. Three
writes let the operator break, repair and delete a file while an admin's PUT is
in flight. Two requests are enough for a session to be stuck and come back in
another scope, for a rebuild after a change, and for two rebuilds at once; two
changes let the set of names change and its size stay; two confidences let a later
alternative outrank an earlier one or tie with it.

In `check_endpoint` a clock to 8 holds a window of 6 ticks and the opening of the
next, three ticks to a second show every rounding of TTL, and with limit 1 the second
call is turned away; two requests and one call elsewhere make one counted before a
crash, one after it and one beside it. In `redis_cache` two workers of one process
race on a counter, a worker of another process reads what they wrote, and two restarts
let the versions change and change back; the new version reads the old one's payloads,
the old one fails on the fields of the new one's, and a third writes what neither
takes for JSON. With two keys an answer for the wrong one would be seen. In
`shop_agent` two rounds stand for the four of `agent.py:82`: one that asks for tools
and the last; two tools at once give results an order to lose. In `tuning` the
messages lie on every side of every threshold of the grids, and the configurations put
the embedding layer first, in the middle and nowhere, with and without a layer that
decides earlier or an LLM behind it. What the proofs show holds for all bounds.

What the violations show:

- `shadow_blocks`: a message that every layer defers is blocked in shadow mode
  too. `core.py:193` says shadow never blocks; the code puts failing closed first.
- `registry_zombie`: a guard loaded under a name the file no longer has is never
  unloaded.
- `route_stale`: the router is rebuilt when the names change, so a guard reloaded
  under its name answers `/v1/check` and not `/v1/route`.

Properties that hold up to a condition, and what happens beyond it:

- `VerdictSound` holds when bypass conditions name only fields of the signature,
  what the comment at `cache.py:20-22` asks for. The cache key holds `intent` and
  `stage` only, so a bypass on another field passes one session and, from the cache,
  a session in another state; README.md:148-149 ("the same message in different states
  is treated as different") promises more.
- `GrantBound` says what the limiter grants in any order; `RateHoldsInOrder` is the
  promised rate, for keys whose calls lock in the order of their clock readings. A
  thread that read the clock early and locks late moves the bucket's time back, and
  the same time is refilled twice.
- The two `Untorn...` properties are about files whose changes fell outside a
  loader's window (`torn` records the others) and guards that keep their names. An
  edit between a load's read and its `stat` is recorded as loaded and never seen; of
  two loads that overtake each other the older reading may stay; a file that vanishes
  before its `stat` leaves its guard for good. `LastGoodStays` exempts a file put back
  between the watcher's `exists()` and its lock: it is forgotten although it is there.
- `ServedInTurn`: with one request at a time, and as long as no name gets a second
  guard, the guard that answers is a loaded one. `StickyIsLast` and `SignatureTells`
  hold up to overlapping requests of one session and to two rebuilds at once;
  README.md:227 promises that turns "stay on that guard", which any rebuild of the
  router breaks.
- `CountersAddUp`: as long as no two threads of a process count the same at once. A
  payload that is JSON and no `GuardResult` is counted as a hit and a miss.
- `LimitedBeforeCheck` bounds what is let in by the room of all windows together, and
  `WindowsLast` bounds a window's length from below only: that no single window lets in
  more than the limit is `WindowExact`, that none is prolonged beyond what the client
  was told is `RetryAfterHonest`.
- `FlipsExact`: a record without a label is in neither list, and a label other than
  `pass` counts as a block (`replay.py:133`), although only `pass` and `block` are
  counted as labelled (`replay.py:126`).
- `PromptsPaired` and `TurnsAlternate`: for sessions without overlapping chats, the
  first as long as no tool raised, the second as long as nothing did. Otherwise the
  history keeps a call without its result, no later prompt of the session is
  accepted, and nothing but a reset repairs it.
- `ReportMatchesGuard`: for the pipelines calibrate simulates (`Simulated`), and a
  provider that embeds alike in both processes, which the offline one
  (`embedding_local.py:60`, `hash()`) does not.

**Deadlock and fairness.** Deadlock is checked in every run; `Finished`,
`EndpointFinished` and `Ended` stutter once the bounds are used up and nothing is in
progress (`Registry` needs none: the watcher never stops). `check_endpoint` assumes
weak fairness of each thread's steps inside a request: `check` holds no lock across
a layer, layers return or raise, and Redis answers or the connection breaks.
`shop_agent` assumes it of the steps of a chat: the guard, the LLM and the tools
answer or raise. `Registry` assumes it of the watcher, which loops as long as the
process lives (with `HOT_RELOAD=1`), and of a request once accepted. Nothing is
assumed of those who make requests or edit files, of crashes and restarts, nor of
what an LLM answers.

## Proofs

All theorems are for every value of the constants that meets the assumptions named
in the modules, and say nothing of the bounds. The assumptions are the types of the
constants, that stand-ins such as `None` and `Absent` are none of the values they
stand beside, and that the sets that are counted (`Workers`, `Clients`) are finite;
TLC evaluates each of them. Two more, about the layers, are stated where they are
needed: `StripInsensitive` (messages that `strip()` makes equal look the same to the
layers) and `BypassInSignature` (bypass conditions name only `intent` and `stage`).

Every safety invariant and action property of a run is proved; liveness is not. In
the table, the invariant that is inductive, and what it adds to the properties.

| theorems | inductive invariant |
|---|---|
| `GuardCheck`: `GuardTypes`, `StampsNeverGoBack`, `HitsAlwaysFresh` | `GuardBase`: a thread at layer i got there by deferrals (`Running`), an entry's stamp is the moment of its last `set` (`Stamped`) |
| `GuardCheck`: `VerdictsSound` (both assumptions) | `GuardInv`: and what is cached under a key is right for every request with that key (`CacheSound`), since a hit returns what some other thread stored |
| `GuardCheck`: `AlwaysAccounted` | `Balanced`, which is `Accounting` with its counts named: each step moves one thread from one counted set to another |
| `CheckEndpoint`: `LimitExact`, `RetryHonest`, `NoEarlyWindow` | `IInv`: the counter in Redis counted the calls of the client's current window and expires a window after its first (`Counters`); an invitation to come back, given or on its way, is for a moment when that counter is gone (`Invited`, `Informed`) |
| `CheckEndpoint`: `EndpointTypes`, `EndpointVerdicts`, `EndpointAccounts` | `Whole`: the two invariants above together, and which thread holds which call (`Held`); the guard's steps inside the endpoint are steps of `GuardCheck`, a crash starts a new `GuardCheck` |
| `CheckEndpoint`: `LimiterComesFirst` | `Limited`: calls let in, calls whose answer is still on its way and the room of the windows that are open never exceed `Limit` times the windows opened |
| `CacheThreads`: `Implements` (`ResultCache`) | `IInv`: a stored value is the latest of its key; eviction and expiry only forget |
| `CacheThreads`: `AlwaysInShape`, `AlwaysForgetsOldest`, `NothingForgottenEarly` | `OInv`: the order lists the cached keys once each (`OrderOK`), is a suffix of the order of touching (`TouchedOK`), and readings are in the past (`ReadBefore`) |
| `RedisCache`: `TypeCorrect`, `StaleFade`, `Implements` | `IInv`: a value is the latest of its key (`LatestKept`) and no entry outlives by more than the TTL the last moment at which the version that wrote it ran (`VersionsAge`) |
| `RedisCache`: `CountersBounded` | `Counted`: counters below lookups; exact if unraced; a value loaded by a worker is backed by the counter, and up to date if unraced |
| `TokenBucket`: `TypeCorrect`, `BucketsInRange`, `GrantsBounded`, `RateInOrder` | `IInv`: readings are in the past, a key without a bucket was granted nothing and has had no time moved back (`Untouched`) |
| `TokenBucket`: `ResetHonest` | `Promised`: the reset time last told is that of the bucket as it is |
| `Registry`: `TypeCorrect`, `DictsAlwaysAgree`, `UnloadedOnlyWhenGone` | `IInv`: what each loader holds at each of its steps (`ThreadsOK`), that the file the watcher forgets is gone or torn (`DropsGone`), that the dicts have the same names in the same order, each once (`RegistryOK`) |
| `Route`: `TypeCorrect`, `SignatureIsRouters`, `ServedByLoadedGuard`, `SticksToLast`, `AnswersInScope` | six on top of each other, below |
| `ShopAgent`: `TypeCorrect`, `Forgets` | `IInv`: the chats that share a session object began between the same two resets (`Ages`), and no list holds what a chat not yet begun would say (`Said`) |
| `ShopAgent`: `PromptsArePaired`, `TakesTurns`, `MockFinishes` | `Settled`: for each place of a chat, how far the end of its history is from being paired and alternating, and that an unspoilt session has one chat at a time (`Orderly`) |
| `Calibrate`: `TypeCorrect`, `FindsBest`, `RecommendsFirstBlock` | `IInv`: nothing is scored before all samples are classified |
| `Tuning`: `TuningCalibrates`, `TunedBest`, `ReportHolds`, `FlipsAreOwn` | `TuningInv`: the counts of calibration are those of the samples it has seen (`Calibrated`), each result is one its guard may give, result k is that of record k, and the lists name the flips among the records walked so far (`Checked`), and the replayed traffic is the calibrated samples (`Follows`) |

`Route_proofs` needs most. `Types` tells from a worker's place what it holds;
`Signs`, that one thread at most is in a rebuild and what it has written; `Unique`,
that one name is one guard until a name is renewed; `Alone` and `Serves`, that the
guards a lone request is about to use were loaded during it (equal names and
`Unique` make the old router good enough); `Sticks`, that the newest router has no
entry for a session whose worker holds an older one; `Listed`, what a worker has
tried and listed so far. That a step never loses a router or changes its guards
(`RoutersKeep`) is shared by all.

`TuningCalibrates` and the two `Implements` are refinements. The first makes what is
proved of calibration hold where it is followed by a replay. For the report to hold
of the guard, `Tuning_proofs` shows that the sweep's copy of the embedding layer's
rule and the layer itself give one verdict at every cell (`SweepVerdict` against
`Outcomes`), and that a count over the left-over samples by position is the count
over the list. For `FlipsAreOwn` it shows that the k-th result of either pass is that of
the k-th record (`Own`), which is what pairing by position relies on, and that after n
records of the comparison the lists name exactly the flips among the first n (`FlipsOf`).

Induction over data. The provers cannot use the library's induction theorems, which
take an operator. They can use a least number: `LeastNumber` says that a non-empty set
of naturals has a least element, from the library's fact that the finite subsets of a
set are well-founded by inclusion. With it the proofs show that the fold behind
`SumFunction` has a solution and follows a change of one summand (`SumsDefined`,
`SumChanges`, which `LimiterComesFirst` needs for the windows of all clients), what
the removal of a key leaves of the LRU order (`AlwaysInShape`), and what startup loads from
the files in their order (`Startup` of `Registry`). It is stated in three modules, as
each of them is checked by itself. `RouteSound` says by positions what the alternatives
list; that sorting by rank is a permutation, which puts the strongest first and keeps
equals in order, is `SortPermutes` and `SortKeeps`.

Only model-checked: the liveness properties (`EveryRequestAnswered`, `EveryChatEnds`
and the two `Untorn...` properties of `Registry`), since TLAPS does not reason about
fairness and ENABLED here, and of course the three runs that find a violation. Only
proved: `TypeOK` of `TokenBucket`, `RedisCache`, `Route` and `ShopAgent`, and
`CalibrateTypeOK`, which are in no run. No module uses RECURSIVE operators.

## Not modelled

Authentication (a stateless comparison), the command line, the admin page,
rendering of metrics, the read-only endpoints and the gateway example, which
keeps no state; embedding vectors and regular expressions, which the layers'
constants stand for; the bounded counters of `stats()`, `/api/stats` of the demo and
token counts. Known limits of the code that no model covers, since each is one line
and involves no other step:

- `_buckets` of the limiter never shrinks (`ratelimit.py:66`);
- `reload_count` is incremented without the lock (`sidecar.py:210`);
- `start_watching` does nothing once a thread was started, also after
  `stop_watching` (`sidecar.py:171`);
- `recent(limit=0)` returns everything (`decision_log.py:41`);
- a `RATE_WINDOW` below 1 becomes EXPIRE 0, which deletes the counter
  (`sidecar.py:256`); `WindowAssumption` excludes it;
- files created after startup are never loaded (`sidecar.py:145`);
- the text of a blocked message stays in the history sent to the LLM
  (`agent.py:74-76`, `84`), and the ids of the mock's tool calls repeat between the
  chats of one history (`providers.py:264`).

Where documents and code differ without a run: `docs/user-guide.md:198` looks for
what shadow mode would have blocked under `only_blocked=true`, but such decisions are
logged as passed and the filter (`decision_log.py:40`) drops them; the module comment at
`ratelimit.py:5` names a helper `rate_limit_dependency` that does not exist; the
sample output at `README.md:112` shows a block cut of 0.30, while the code can only
recommend the first of its grid, 0.20 (`BlockCutIsFirst`).

## Plan

What is left, in this order:

1. Proofs: the safety part of the two `Untorn...` properties (a loader that has
   finished with an untorn file leaves what the file says); that `CheckEndpoint`
   implements `GuardCheck` between two crashes, as a refinement; that a chat's prompts
   only grow by what its own chat and overlapping ones append.
2. `Registry`: a watcher stopped and started again, files created while it runs.
3. `/v1/check` over the in-memory limiter, `TokenBucket` in the place of
   `FixedWindow`.
