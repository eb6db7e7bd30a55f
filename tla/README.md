# Verification of the HBI-AAD backend

TLA+ modules for *Hermetic Backend Instance: Assembly, Audit, Dispatcher*, a
TypeScript backend that runs on Cloudflare Workers (or Node) and manages
container pods at external providers. Everything that the backend knows lives in
a key-value store with optimistic concurrency; everything that it does later is
an event of an in-memory loop, a message of a queue or the alarm of an object.
The store, the loop, the pods and their collectors, the actions feature, the
services over the store, and the adapters and algorithms under them are modelled
here, model-checked, and in part proved.

Paths below are relative to the repository's `src/` (in `PROJECT.json` the same
files start with `src/src/`).

## 1. The system

| Part | State | Operations | Talks to | What makes it correct |
|---|---|---|---|---|
| Store contract, `core/store/interfaces.ts` | - | `get`, `set(expectedVersion)`, `transact` | every service | an accepted write is computed from what it replaces |
| Durable Object store, `adapters/durable-object.ts` | entries with version and expiry, TTL markers, one alarm | `get`, `set`, `batchGet`, `transact`, `alarm()` | isolates over `fetch` | implements the contract; expired entries go, nothing else does |
| Cached store, `adapters/cached.ts`, `cloudflare-kv.ts` | KV entries; per isolate the last KV version and a Bloom filter | the same | Durable Object and KV | stale reads allowed, lost updates not |
| File store, `adapters/file-kv.ts` | one file per key, a chain of promises | the same | disk | transactions are serial |
| Event loop and bus, `core/event-bus/`, `core/circular-queue/` | queue in memory, `events:pending`, `#ticking`, `#paused` | enqueue (three ways), tick, recover, start/stop/pause/resume | store, handlers | one batch at a time, no event lost or run twice, periodic checks never end |
| Timer object, `core/scheduler/alarm-timer-do.ts` | fields in memory, one alarm | start, stop, alarm | event loop | ticks at its interval until stopped |
| Pods, `core/pod/` | entity `pod:<id>`, index `pod:ids` | provision, stop, start, restart, update, terminate, sync, gcCleanup | provider, store, quota, bus | the transition table holds under overlap; no resource without a pod that collectors see |
| Collectors, `core/events/health-check.ts`, `core/app.ts` | marker, fail counter, `stableSince` | `health:pod:check`, `pod:gc` | loop, pods, provider | what is marked is deleted, also after a crash |
| Quota, `core/quota/service.ts` | `quota:<user>:usage` | check, recordCreate, recordDelete | pods | each pod is counted once |
| Image pull and task queue, `core/events/image-pull.ts`, `queue/` | `pull-task:<id>`, messages | post, hand over, consume, retry | queue, image providers | a delivery or a late note does not undo a result |
| DAG scheduler, `core/scheduler/dag-scheduler.ts`, `features/actions/scheduler-context.ts` | runs, task instances | tick = schedule, process, execute, heartbeat, cgGC | store, runners | a run ends for good, and as a success only with its tasks |
| Workflow runner, `features/actions/runner.ts`, `job-operator.ts`, `matrix.ts` | run, jobs, messages | startRun, executeJob, approve, expand | queue, pods | a job is provisioned once, after its needs; a run completes |
| Triggers and shared links, `features/actions/handler.ts`, `triggers.ts`, `shared-link.ts` | definitions, DAGs, links with use counts | six kinds of trigger, create, update, disable | store, runner | what is started is defined, a counted use stays counted |
| Users and sessions, `features/users/service.ts`, `core/middleware/auth.ts` | users, copies under e-mail, uid index, counters; sessions, attempts, nonces | register, update, delete, login, revoke | store | directory agrees, one root, a key works once as one text |
| Entities: networks, subnets, instances, buckets, images, credentials, secrets, policies, security resources, system groups, volumes, permissions, runners, registries, actions, links, organisations, projects, approvals | record and index of ids each | create, update, delete, list, claim, sync | store, provider | listings agree, no update lost |
| Templates, `features/template/`, `core/pod/merge.ts` | `tpl:*` records, masks, slots, bindings | CRUD, resolve, apply, migrate | store, pods | what is masked stays so; specs merge completely |
| Permissions, `features/permission/`, `core/permission/` | groups, policies, masks, elevations, invitations, route rules; caches per Worker | decide, elevate, accept, change | store | a decision rests on nothing older than the cache may be |
| Secrets, `core/auth/` | encrypted values, keyrings | create, update, upload, read | store | stored encrypted, read back as put in |
| First start, `core/seed.ts` | markers, records, lists | seed | store | a marker means a whole section |
| Middleware, `core/middleware/` | token buckets in memory, idempotency keys | per request | store | rate bounded per isolate, replays agree |
| Audit, `core/audit/` | memory, index, entries, batches in R2 | write, flush, prune, query, tail, rotate | store, bucket | no entry batched twice, index not undone; with the Workers logger none passed over |
| Providers, `providers/`, `core/provider/` | groups at Podman or ECI, secrets, cached resolvers | create, operate, resolve | daemons, cloud APIs | a refused creation leaves nothing; the right instance with the right keys; requests complete |
| Subnet pool, `core/network/` | blocks, index | allocate, release | store | no block has two tenants |
| Views, `core/event-bus/do-bridge.ts`, `core/notification/do.ts`, `features/sandbox/log-stream-do.ts` | sockets with filters; log streams | forward, subscribe, stream, abort | bus, Podman | in order, once, nothing missed |
| Data structures and algorithms, `core/{linked-list,hash-table,tree,dag}`, `core/scheduler/dag/` | lists, tables, trees, graphs | calls, walks, sorts, schedules | - | agree with their definitions |
| Generated SDK types, built-in templates, error codes | - | - | - | data, not modelled |

How they interact: a request passes the middleware, reads through the cached store
and writes with the version it read; the store decides. An isolate runs many requests
at once, and every `await` is a point where the others run. Ticks of the DAG
scheduler do not wait for each other. Isolates are evicted at any
time, with the loop's queue, the caches and all calls in progress. Ticks come from
requests, from `setInterval` where that works, and from the alarm of a Durable Object.
On every tick the collectors walk `pod:ids`, ask the provider, and write pods and index
like any other caller; the DAG scheduler does the same with runs and instances. The
queue hands jobs and image pulls to Workers, at least once.

What is hard: interleavings between a read and the write that depends on it; writes that
nobody awaits; half-finished calls; TTLs, alarms and evictions; messages that come twice
or late; caches that are filled with what was read before a change; handlers that keep
themselves alive. `PROJECT.json`, `hazards`, lists them at their lines, with the
properties that would catch each going wrong, or why there is none.

## 2. Modules

### The core

| Module | Models |
|---|---|
| `AtomicStore` | the contract: `Set` and `Transact`, one-step writes computed from current values, and `Expire` |
| `DurableStore` | one shard of the Durable Object store with its clients; implements `AtomicStore` |
| `CachedStore` | one key, several Workers, KV and the coordinator; implements `AtomicStore` |
| `EventLoop` | loop, bus and `events:pending` in several isolates |
| `PodService` | pods, index, usage, provider resource, both collectors |
| `Cells` | one key as the services see it (a value with a version, compare-and-set) |

They form a stack. What is shown of the stores is what the upper modules build in: in
`CachedStore` the coordinator is one value and version; in `EventLoop` a transaction is a
read and a commit that is refused when another commit came in between; in `PodService`
and over `Cells` a write is accepted when nobody has written the key since it was read.

**DurableStore.** `storage`, `markers` and `alarm` are `ctx.storage`; `bootstrapped` is
`#alarmBootstrapped`; `view[c]` is what a client was told. A request to the object is one
action because the runtime lets no other request in while the object awaits its own
storage. A client's `get` and `set`, and the reads and the commit of its transaction, are
separate actions. A value is the set of writes it reflects, so a lost update is visible
as a step that `AtomicStore` does not have. Time counts down to an expiry. Version
numbers stand for the random ids of `generateVersionId()`: only equality is used.

**CachedStore.** `coord` is the value and version of the coordinator, `kv` the CacheEntry,
`known` and `bloom` the memory of an isolate, `job` a KV write on its way (`fill`: the one
that `get` does not await). A KV `set` is a get and a put with other steps in between
(`cloudflare-kv.ts:34-47`). KV versions are only compared with the current one, so a
remembered one is `none`, `current` or `old`. KV is strongly consistent here; the
violation found does not need it to be weaker.

**EventLoop.** `queue`, `ticking`, `paused`, `running` are the private fields, `batches`
the ticks in progress with the handlers that still run, `persists` the store transactions
of `#persistEnqueue` and `#recover`. `Timer` chooses between the `setInterval` backend and
the alarm callback. Events are of three kinds: persisted (`image.pull`), transient, and
the health check that enqueues its own successor. The requests of one isolate reach its
store in order (`Recovering`).

**PodService.** A job is one call in progress with what it has read; each `await` of the
code is a step boundary. `Current` is the store's version check. `Provider` is a call that
may change the resource and, where `ProviderFails`, may fail. `age` tells the time-outs
apart that the code compares with (60 s since `createdAt`; the collection delay since
`updatedAt`). The count of failed health checks is read and written in one step: its write
ignores conflicts and nothing else reads it.

### Actions, checked in `MCActions` (runs `Actions` and `Endings`)

| Module | Models |
|---|---|
| `DagScheduler` | the ticks of `dag-scheduler.ts` over `scheduler-context.ts` as `handler.ts` wires them: any number at once, in any isolates, each with the runs and instances it has read (`tick`); reads that a cache serves (`served`, `ListedInstances`); runs written under the version read just before; instances written create-only |
| `WorkflowRunner` | a run and its jobs: `stack[w]` is the chain of calls of a worker (`startRun`, `#enqueueReadyJobs`, `executeJob`), `inbox` and `queue` the messages, delivered at least once; a worker may go at any step |
| `WorkflowTriggers` | definitions, DAGs, shared links, and the six routes that start a run |
| `JobSteps` | the steps of a job with the log of each, and the expansion of a matrix with its exclusions and placeholders |

### Services over the store and the middleware before them, checked in `MCServices`

| Module | Models |
|---|---|
| `Users` | the directory: registration with the claim of the first user, uid allocation with retries, the copy under the e-mail, groups, deletion |
| `Sessions` | login by password and by signed one-time key, nonces with their TTL (the throttle is left out: it only refuses), the last session reused, deletion of a user, the check of a request; `KeyTexts` are keys as they are sent, and two texts may be one key (`KeyOf`, by what they decode to); `viaCache` chooses reads that a cache may serve |
| `EntityServices` | some twenty services with a record and an index each. Their methods are scripts (guard of the route, validation, `read`, `claim`, `save`, `enlist`, the number of a counter, the bytes of an upload, ...), which is how the code is written; a behaviour picks one service, and services of equal scripts are tried once (buckets for images, policies for user templates) |
| `Templates` | generated, overridden, masked and created templates; apply with its slot and binding |
| `PermissionChecks`, `RouteAcls` | decisions over the lists that each Worker caches, and over the sorted copy of the route rules behind a version key, which is read fresh or, with `readsCached`, as it was up to 30 s ago |
| `PermissionGrants` | elevations that end, invitations that are answered |
| `Secrets` | the layers of encryption around a value: which call adds, takes off or keeps one, and which call stores nothing |
| `Seed` | each section of the first start: records, lists, marker |
| `Gatekeeper` | the rate limit with its exits, a bucket per isolate and address that goes with the isolate, and idempotency, in the order of `createApp()` |
| `SubnetPool` | first free block of a supernet, with the CIDR arithmetic on few bits |

### What they stand on, checked in `MCPlatform`

| Module | Models |
|---|---|
| `RingQueue`, `Deque` | the circular buffer with its arithmetic, and the queue it implements |
| `FileStore` | transactions over several files, with crashes; implements `AtomicStore` |
| `Collections`, `GraphWalks`, `ListScheduler` | lists, table and trees; topological sort, batches and ancestor walks; the simulated schedules |
| `AlarmTimer` | the object behind the ticks, with evictions |
| `Placement` | the lazy resolver, the instance and the credential of a call |
| `Providers` | creation at Podman, a pod, ECI and the stub, with refusals, lost answers and cleanup; the life cycle table |
| `PodRequests` | merge of a chain of templates and the caller's spec; the numbered sections of an ECI request or a Podman pod and their decoding; the routes of a group and of a pod, with partial updates |
| `ImagePull` | route, event handler, queue and consumer, all writing one task |
| `AuditTrail`, `AuditReaders` | the hybrid and the R2 logger with their index and batches; pages by number, tail and rotation over the Workers logger, whose `query()` awaits nothing |
| `Notifications`, `LogStream` | forwarded events and their sockets; the log stream object |

### How the parts are composed

The parts of `MCActions`, `MCServices` and `MCPlatform` share no key of the
store and, in what is modelled, do not call each other. A run over several of them
therefore needs no product: `part` is chosen in the initial state and a behaviour is one of
that part. The variables `x1..`, `s1..`, `y1..` are substituted for the variables of each
instance; those that a part has no use for keep one value. `MCActions` extends
`WorkflowRunner` and `DagScheduler`, `MCServices` extends `Secrets`, `Seed`, `Users`, `RouteAcls`, `Sessions`,
`Gatekeeper` and `SubnetPool`, and `MCPlatform` extends `RingQueue`, `FileStore` and
`AlarmTimer`, each with its own variables: what these runs check of them under
their own names (`RunsAgree`, `StartedOnce`, `LoginsSound`, `FilesSerial`, ...) is what the proofs state.
Of the other parts a property is a conjunction of `part = "..." => M!Property` (`AskedIsDone`,
`DerivedAgree`, `ReportsSound`, ...); fairness is stated for each part as its
own module needs it.
Where parts do share state they are in one module: the collectors with the pods and the
quota, the health check with the loop, the steps of the queue with the runner.

## 3. Runs

| Run | Question | Result |
|---|---|---|
| `DurableStore` | do gets, sets, transactions, expiry, alarms, failures and evictions in any order implement `AtomicStore`; do markers describe what is stored; does only what is expired vanish? | holds |
| `CachedStore` | can a stale cache lose an update or mislabel a value; does it converge? | it cannot; it does |
| `CachedStore_ryw` | does a Worker read what it wrote? | violated: the fill that was not awaited lands later |
| `EventLoop` | one health check, no duplicates, nothing persisted lost, one batch at a time | holds with one restart and the alarm backend |
| `EventLoop_live` | does the health check recur, is every admitted event handled? | holds |
| `EventLoop_restart` | do persisted events survive a second restart? | violated: `#recover()` empties the list first |
| `PodService` | do overlapping calls follow the transition table and keep index and counter exact, also when the provider fails? | holds |
| `Removal` | are marked pods removed in the end, with crashes and a request in between; does a pod leave the index only after its resource? | holds while the provider works |
| `Actions` | do DAG runs, workflows, triggers and job steps keep their order, count and outcome, whatever ticks and workers overlap? | holds |
| `Endings` | does every run end that may; are expired entries removed though nobody reads them? | holds while the object of the store stays loaded |
| `Services` | do copies and indexes agree, are no updates lost, logins, rights, limits and secrets sound, is the first start complete? | holds |
| `Platform` | ring and file store as refinements; timer, algorithms, providers, requests, pulls, audit trail, views | holds |

`OneBatch` holds only without the timer backend: with `Timer = TRUE` the callback of
`setInterval` does not ask `#ticking` (`loop.ts:291-297`) and batches overlap, although the
comment at `loop.ts:315-317` speaks of one batch at a time. `EventLoop_live` runs with
overlapping batches and does not claim it.

### Bounds and why they suffice

* `DurableStore`: two clients are enough for every pairwise race; three keys because a
  transaction needs two and a TTL key is never one of them; three writes allow create,
  overwrite or delete, and overwrite again; a TTL of one tick and an idle period of two
  make the alarm earlier and later than an expiry. `Endings` uses a TTL of two, so that a
  marker can be left over when an alarm fires.
* `CachedStore`: two Workers with one request each, so that one can be overtaken by the
  other and, through the lane that is not awaited, by itself; two writes give an old and a
  new version. `VIEW WithoutHistory` drops the history variable that only `ReadYourWrites`
  reads.
* `EventLoop`: two isolates share the persisted list; one persisted and one transient event
  and the health check fill a queue of two, so that events are dropped. One restart is what
  the claim needs to hold, two is what breaks it.
* `PodService`: two requests on two pods race on one pod and on the shared index; a quota of
  one is reached; three calls are enough to provision and terminate a pod with another call
  between their steps; one of them may end at any of its steps. `Removal` adds the collectors and their
  time-outs on a single pod, with three calls.
* `Actions`: one DAG run of two tasks, the second with a rule that is not `all_success`, under
  two ticks at once with reads that may be old: what goes wrong between ticks goes wrong between
  two, and since runs write no record of each other a second run adds only to `maxActiveRuns`, of
  which nothing is claimed. Three workflow jobs, the last of which needs both others, so that two
  completions race to enqueue it; one duplicate and one crash. Four requests to the triggers, with
  links of one use and two guests; `recordUse()` tries twice there instead of three times, so that a
  launch whose update is refused as often as it is tried happens within the run.
* `Services`: two callers with three or four calls in all: every race of two read-modify-writes
  on a record, an index or a counter needs two, and one more makes the deletion or the
  reuse between them. Of the users, one client calls once and the other twice, on three ids
  and two e-mails; the route rules have three callers on two Workers, so that one Worker loads
  what two others change. Clocks are long enough for every TTL and window to pass while another
  is open. Three requests of one address come to two isolates, each of which may be replaced, against
  a burst of one that takes two units of time to come back; the pool has four calls on addresses of
  three bits. Two changes of a workflow secret and a deletion reach the replacement that is refused.
* `Platform`: rings that start at one to three slots and grow twice; all reference graphs on
  three nodes; three tasks on two resources of which one is too small; two callers on two
  resources that a daemon refuses or answers too late; specs of two containers, volumes and
  secrets each, which is where running indices go wrong.
* `Endings`: a DAG run under two ticks of which one may be cut off anywhere: one cut is what
  leaves a run where another tick has to find it, and the other tick is what may write it from an
  older read.
* Symmetry is used for interchangeable clients, pods and users, in safety runs only. Deadlock
  is not checked where the calls are used up or the algorithm has its result.

### Fairness

* `Removal`: awaited calls on pods return; the collector visits every pod of the index again,
  which is `HealthCheckRecurs` of `EventLoop`; the time-outs of a pod pass.
* `CachedStore`: KV writes that were started finish unless the isolate goes, and `readTtlMs`
  passes. Nobody is obliged to read.
* `EventLoop`: ticks keep coming (every request can trigger one, `app.ts:231-242`), handlers
  and store calls return. A paused loop owes nothing: both properties assume that it does not
  stay paused.
* `Endings`: the store's time passes (`WF(Tick)`), and of the due alarms one finds the storage
  working (`SF(Alarm)`), for the runtime retries and reschedules failed alarms; no fairness for
  clients. A tick that has begun goes on unless it is cut off, and another one comes (an interval
  in every isolate, `handler.ts:115-120`); what a cache serves expires after `readTtlMs`; the
  time-out of a run passes; a worker goes on with its calls, and a message is delivered in the end,
  as the queue promises. Nobody has to approve anything. A DAG run ends by its time-out, which
  the default configuration has (`dag-scheduler.ts`, `dagRunTimeoutMs`).

## 4. Proofs

All theorems hold for every value of the constants and every bound; `tlapm` checks them to
the last leaf.

`DurableStoreProofs`
* `Typing`: `Spec => []TypeOK`.
* `Versioning`: `VersionsIssued` and `ViewsAuthentic`. The first says that no version is used
  twice, the second that a client that holds the stored version holds the stored value; this
  is what turns a comparison of versions into a comparison of values.
* `StoreInvariance`: `StoreInv`, which is the conjunction of the above with `MarkersCurrent`
  and `TtlReapable`, under the assumption `Apart` that no key is both written with a TTL and
  used in transactions. The assumption is needed: `transact` neither removes nor writes
  markers, so a transaction on a key with a TTL would leave a marker without its value
  (`durable-object.ts:210-216`). The callers keep to it: only nonces, login attempts and
  audit entries have a TTL, and no transaction touches them. `MarkersCurrent` is the
  strengthening: every marker describes the value now stored, which is why an alarm never
  deletes a value that was rewritten.
* `NothingElseVanishes`: `OnlyExpiredVanish`, from the same invariant.
* `Serializability`: `Serializable`. Initial states map to initial states, and each action
  maps to a `Set`, a `Transact`, an `Expire` or a stutter; the witness of a write is the
  version that is written, and of a transaction the set of keys it read.

`CachedStoreProofs`
* `CachedTyping`; `CacheAuthenticity`: an entry of KV, of a KV write on its way or in a
  caller's hands whose version is current has the current value. It is inductive because the
  coordinator's version grows with each write.
* `CachedSerializability`: `NoLostUpdate`, by the same mapping as above for one key.

`PlatformProofs`
* `RingWellFormed`: head, tail and size are in range and the tail is where the size says. The
  proof removes the remainder first: a position wraps at most once (`Wrap`), so a slot is
  `head + i` or `head + i - capacity`. The inductive invariant `Ring` says that exactly the
  slots from the head on, as many as the size, hold an element.
* `RingImplementsDeque`: `ImplementsDeque`. The listing of the ring (`toArray`) is the state of
  `Deque`; every operation is the same operation on the listing, in particular growing, which
  unrolls the contents while they wrap.
* `FilesInOrder`, under the hypothesis that calls go through the promise chain (`Serialised`), that
  no process goes in the middle of a transaction (`~Torn`) and that programs name keys and
  values (`TxnsTyped`). The invariant (`FileInv`): at most one call is past the lock (`Alone`), and
  that call stands on the contents it read, of which it has replaced exactly what it wrote
  (`CallOK`). Without the chain this fails, which is the KV adapter (section 5).
* `FilesSerialized`: `FilesSerial`, the refinement of the contract, from it. A transaction counts
  as done when its versions have been verified; the files it has yet to write are seen as written.
* `TimerKept`: `TimerSound`, for any interval and any sequence of starts, stops, alarms and
  evictions. The ticks are bounded because an armed alarm is never due before the next
  tick's time (`TimerInv`), which `StillArmed` and the bound do not say of themselves.

`ActionProofs`
* `RunnerSound`: `RunnerInv`, for any workflow whose jobs need jobs of it (`Definition`), any
  number of workers, duplicates and crashes. A worker acts on what it read several steps ago;
  `Calls` says what it knows (`Knows`) and `Alone` that a claimed job has one owner. What a worker
  knows survives every step of another because an ended job does not change, an approval is not
  taken back, and only the owner touches a claimed job (`Steady`, `KnowsStays`, `Turned`).
  `Messages` says that a message, however late or often, is about a job whose needs succeeded,
  and `Outcomes` what the records say of each other. `startRun()` has the run for itself until
  its jobs exist, or a job could be found absent.
* `JobsStartOnce`: `StartedOnce`; `RunsCloseOnce`: `ClosedOnce`, both from `RunnerInv`.
* `DagSound`: `DagInv`, for any tasks, dependencies, trigger rules and limits, any number of
  overlapping ticks, cut off anywhere, and reads of any age. The only way to store an instance is to
  append a new one, and a tick does that with the state `NONE`; what it makes of an instance later
  stays in its memory (`Stored`, `Held`, `Memory`). No hypothesis says how ticks follow each other.
* `RunsKept`: `RunsAgree`, and `NothingPicked`: no stored instance is ever `SCHEDULED`, `QUEUED` or
  `RUNNING`, both from `DagInv`. The second is why the model may leave out what `process`,
  `execute` and `cgGC` would do, and it says that the scheduler as it is wired runs no task
  (section 5); the first then holds because no run is closed as a success at all, and none fails
  but for want of its definition or of time. A tick that took a task without an instance for
  done would break it (its mutant).

`ServiceProofs`
* `SecretsKept`: `SecretsReadBack`. What is stored is what `encrypt()` makes of the text last put
  in (for a workflow secret, put in when there was none: `set()` of an existing one is always
  refused and changes nothing, `ReplaceVersion`), where there is no master key a plain container secret is its text, and a signer holds
  only texts that were put (`SecretsInv`).
* `SeedSound`: `SeedComplete`. What a start has passed in its section it has written, and it sets
  the marker after the last record (`SeedInv`); an item refers only to items before it. A start
  that is cut off leaves no marker and the next begins the section anew.
* `DirectoryKept`: `DirectorySound`, that the index lists the users there are, that no two of
  them share an e-mail or a uid and under the e-mail of each there is a copy of that user, though it may
  be an older one (`service.ts:538-541`), and that one account at most is root. A call keeps what it has read while others write; the
  invariant (`DirectoryInv`) says what it still knows (`CallSound`), that two registrations do
  not write one record or give one uid (`Apart`), that every uid given is below the counter
  (`UidsGiven`), and that nobody is root before the claim (`RootClaimed`).
* `UpdatesKept`: `LosesNoUpdate`, from the same invariant: what an update writes was computed
  from the version it replaces.
* `RulesKept`: `RulesCurrent`, with fresh and with cached reads of the version. A copy under the
  current version may differ from the stored rules, but holds none from before that version was
  written (`since`, `Mixed`): a load that began under it has read only what was stored since.
  With fresh reads it is the stored rules as soon as no change is under way: until then some call
  owes that version a bump (`Owes`, `Dirty`). With cached reads this second half is false, for a
  bump computed from an old version is refused and nobody tries again (section 5).
* `LoginsKept`: `LoginsSound`. A text of a one-time key is spent when it is out of its window or its
  nonce outlives the window (`Spent`); no two logins check the signature of one text (`Rivals`), for
  the nonce is written create-only; what a call holds of a key, session or user is what lets it go
  on (`VisitSound`). It rests on `TimesAssumption`: a nonce is kept for longer than the window on
  both sides of a key's time. With a shorter one a text works twice. That a request is kept out is
  claimed from the moment when no read can find its session running and its user there, which
  with cached reads comes up to 30 s after the revocation or the deletion.
* `GateKept`: `GateSound`, for any burst, interval, isolates and number of requests: between any two
  times of its life the bucket of an isolate lets an address have at most a burst and what has been
  refilled since. `RateInv` states it against the tokens that are left (`Charged`), because the bound
  itself (`Paced`) says nothing of the bucket. It is no bound for the program: there is a Map per
  isolate, and it goes with the isolate (section 5). `ReplayInv` adds that a stored answer stays, and
  that what is replayed is that answer.
* `BlocksKept`: `OneTenant`. A tenant on its way from the claim to the index, with the block or
  about to erase its record, is the one the record names (`Entitled`); the index, which loses
  entries, plays no part.

`EventLoopProofs`
* `Shape`: queue, batches, handlers and store transactions have the form the code gives them:
  the list in the store is finite, a transaction that may still commit has read what is
  stored, an event that a batch is done with was handled, `#recover` runs only after a restart.
* `HealthChecked`: `OneHealthCheck`. The invariant (`HealthInv`) says that the check has at
  least one and at most one place among the slots of the queue and the handlers of all batches.
* `NothingTwice`: `NoDuplicates`. The strengthening (`NoDupInv`): what an isolate holds was
  sent (`Known`), in one place (`Alone`), and what an isolate holds before `#recover` has read
  the list is not in the list yet, nor in a transaction of anybody else that could put it there
  (`Fresh`). The last part is why the recovery cannot bring a second copy.
* `OneRestartSurvived`: `restarts <= 1 => PersistedSurvive`, for any number of isolates and
  events and either timer. This is the bound under which `EventLoop` finds no violation and
  beyond which `EventLoop_restart` does. Before the first restart the store holds all that
  reached it and was not handled; after it, the store or the memory of an isolate does, because
  the commit that empties the list is the step that queues what was read (`SurviveInv`).
* `BatchesOneByOne`: `OneBatch` under `~Timer`. The flag `#ticking` is set exactly while the
  one batch is in progress (`BatchInv`); without the assumption the claim is false (section 3).

`PodServiceProofs`
* `Knowledge`: the invariant `PodInv`. What a job has read is what is stored, as long as nobody
  has written the key since. It is the link between a compare-and-set and the table, and the
  other theorems of the module start from it.
* `TableFollowed`: `FollowsTable`; no step of any call, collector or failure changes a stored
  phase outside the table of `transitionPod()`.
* `IndexSound`: `IndexedExist`, a part of `PodInv`.
* `UsageSound`: `UsageBounded`. The count never exceeds the pods whose `provision()` is over
  (`CountInv`): a job counts its pod in the step that ends it.
* `RemovalSound`: `PodSteps` under `~ProviderFails`, which is the table together with
  `GoneFirst`. A job that is about to take a pod off the index has seen its resource go, and
  writes the index back only if it is what it read (`LeaveInv`). With a failing provider the
  claim is false (section 5).

Assumptions are those the modules state for their constants (`KeysAssumption`,
`BoundsAssumption`, `DagAssumption`, `HostAssumption`, `RingAssumption`, `TimesAssumption`, `RateAssumption`, ...); TLC
evaluates them in the runs. The only further hypotheses are `Apart`, `~Timer`,
`~ProviderFails`, `Serialised` with `~Torn`, and the forms of the constants in `TxnsTyped` and
`Definition`, each at the theorem that needs it; the runs satisfy them. Every inductive
invariant was checked by TLC before it was proved.

Only model-checked:

* liveness (`ExpiredReaped`, `Converges`, `HealthCheckRecurs`, `AdmittedHandled`,
  `TerminatedCollected`, `RunsEnd`), which is out of the proof system's reach;
* what recursive definitions compute (`AlgorithmsSound`, the requests in `ReportsSound`, the
  addresses in `DerivedAgree`), which would need induction over data;
* `AskedIsDone` (the triggers, the links and the job steps), `DerivedAgree`
  and `NothingOverwritten` (entities, templates, decisions, grants),
  `ReportsSound` and `NothingUndone` (providers, pulls, audit trail, views):
  conjunctions over many modules, of which the proofs have not been written.

## 5. What the models show beyond the runs

Behaviour met while modelling that no document of the repository contradicts, or that the
models take the intended way round. The models have the code as it is unless said otherwise.

*Store.* The first request after a load postpones a pending alarm (`durable-object.ts:83`),
so an entry whose TTL has passed stays for as long as the object is evicted before each
alarm; this is why `ExpiredReaped` is stated for an object that stays loaded. A key that was
set to null reads as missing and refuses a create-only write (`durable-object.ts:116,326`);
the DAG of a workflow can therefore not be written again after it was deleted
(`scheduler-context.ts:43`). In the file store the keys `a:b` and `a_b` share a file, and a
crash between the files of a transaction tears it (`file-kv.ts:176`, constant `Torn` of
`FileStore`). The transaction of the KV adapter has no lock (`Serialised = FALSE` there) and
compares undefined with null (`cloudflare-kv.ts:90`).

*Pods.* `terminate()` goes on when `provider.delete()` fails and takes the pod off the index
(`pod/service.ts:314-320`), although its comment says that the GC will retry: with
`ProviderFails = TRUE` the collectors lose sight of the resource. The quota is read before the
resource is made and counted after it, so overlapping provisions exceed it; `UsageBounded`
bounds the counter by the pods, not by the quota.

*Scheduler and runner.* `saveTaskInstance` writes create-only unless it is given a version, and the
scheduler never gives it one (`scheduler-context.ts:111-113`, `dag-scheduler.ts`): every update of an
instance is refused, the result is not looked at, and instances stay `NONE`. As wired, the scheduler
runs no task, and every DAG run ends by its time-out or the deletion of its definition
(`NothingPicked`, `RunsKept`). Its ticks overlap in every isolate (`handler.ts:115-120`): two of them
count the active runs each on its own read, so that more than `maxActiveRuns` may be running
(`dag-scheduler.ts:168-174`), and one may write a run that has ended from an older read; a run set
back to `RUNNING` so ends again, which is what `RunsEnd` shows. Matrix
variants are named after their values but looked up by job name (`runner.ts:343`) and are
never enqueued. A job whose approval is given while it is `Running` stays so, dependents of a
job that failed last stay `Queued`, and a worker that goes after its claim leaves the job
claimed; `RunsEnd` excuses these. Unknown `uses:` steps succeed. Step pods are not removed.
The step log is read and written back without a version. The cron trigger fires on every tick
within a matching minute, in every isolate (`triggers.ts:35`); a shared link may be launched
more often than `maxUses` because check and use are apart, and a launch whose count is
refused three times in a row goes uncounted (`shared-link.ts:116-129`, `handler.ts:656`): `UsesCounted`
speaks of the uses whose write was accepted.

*Registries.* `RunnerRegistry.heartbeat` of a known runner writes under a version that is not
its key's and always conflicts (`runner-registry.ts:76`), as does `WorkflowSecretService.set`
of an existing secret, which is answered as updated (`secrets.ts:38-43`); the heartbeat check is enqueued once and never again
(`handler.ts:702-712`).

*Users.* Overlapping updates may leave an old copy under the e-mail (`service.ts:538-541`). The
throttle is not modelled, for it gives no bound to state: failed attempts are not counted while an entry
of an earlier window is left, nor ever after a successful login that followed them, which leaves a null that refuses the
create-only write (`service.ts:156,164`; the comment at 135
speaks of brute-force protection), and attempts under way at one time are counted as one. A
one-time key is recorded by the text of its nonce but verified by the bytes that it decodes to
(`service.ts:130,414` and `:112-119,448`), so that another base64 text of the same key passes again:
`OneTime` is a property of texts. A one-time key is used up by a wrong signature. The count of users
gives up after three conflicts (`service.ts:602-619`). Behind a cache (`store/factory.ts:57`) a revoked
session and a deleted user are found for up to 30 s more; entries of the uid index stay after a deletion;
`acceptInvite` parses a value that is already an object and fails whenever the group exists
(`permission/service.ts:490`). The isolate that loses the race of the first start may serve
requests before the groups exist (`app.ts:205`, `seed.ts:59`).

*Secrets.* The update of a sealed container secret stores plain text
(`container-secret/service.ts:205`), an upload encrypts again what was encrypted (156), inline
ones are encrypted twice (47, 69); two first uses of a keyring race (`keyring.ts:46-60`) and a
rotation never takes effect (78). The signer of an access key keeps the secret it was made
with for the life of the isolate (`auth/providers.ts:110-112`). `SecretsReadBack` speaks of the
values for which the code has a way back.

*Audit.* Answers are newest first while a cursor points to the last entry of the page and asks for what
is newer (`types.ts:67,81`), so that the next page by cursor is not the next one; this is why
`PagesComplete` is about pages by number. The cursors of the hybrid logger compare a sequence number
that is per isolate (`hybrid-logger.ts:55,102`), and its `query()` reads memory, index and entries in
steps (`:89-93,151-158`), so that a tail over it can pass entries over: `TailGapless` is claimed for the
Workers logger only. A query of the R2 logger misses what is being put, an index append gives up after three conflicts, and a failed put
loses its batch. The first batch of a tail is sent twice (`tail.ts:117-125`).

*Timer and views.* After an eviction a due alarm finds the timer not running and ends it until
the next start (`alarm-timer-do.ts:79`). The controller of a log stream is kept after the
stream has ended, so that later sessions get none (`log-stream-do.ts:153`). Forwarded events
overtake each other, and types that the object does not allow are dropped with an answer nobody
reads (`do-bridge.ts:25`).

*Images and queue.* A consumer that reads a task before the handler's note leaves it `queued`
(`image-pull.ts:55`); the list of tasks of a repository is appended to in one try.

*Providers.* `deleteGroup` of ECI swallows failures (`eci-group-provider.ts:42`); a Podman
container with secret mounts is created and then refused, and one whose start fails is left
(`podman-provider.ts`); an exited container reads `Succeeded`, a terminal state, and can be
started again (`podman-provider.ts:392-423,625`, against `container-lifecycle.ts:293-299`), and Podman
reports `Succeeded` and `Failed` (`:625-626`, `podman-group-provider.ts:365`), which are outside its
profile (`container-lifecycle.ts:399-407`); the statuses reported are therefore not modelled. `provision()` passes the
memory to the group route as it stands, where the pod route divides by 1024
(`eci-codec.ts:671` and `:883`), and leaves out the GPU, init containers, DNS and host aliases;
an update of a pod passes flat parameters to a codec that then misses the name, and what it
throws is logged (`pod/service.ts:472`); `'None'` means "not set", so that a DNS policy `None`
is dropped (`extension-schema.ts:83`); of `vSwitchId` and `subnetIds` the group route prefers the
first (`eci-codec.ts:757`) and the pod route the second (`:1017-1023`). An ECI container below
the minimum size loses its GPU; `exec` and statistics always go to one region; raw API clients
take the first credential whatever the instance (`instance-resolver.ts:239`).

*Middleware.* The buckets of the rate limit are in the memory of an isolate (`rate-limit.ts:105`): an
address has as many as there are isolates, and a full one after each start.

*Entities and permissions.* A change of the route rules bumps the version in one try, computed from a
read that a cache may serve (`route-acl-manager.ts:55`): if that is old the bump is refused, and other
Workers keep their copy, although the comment at `:110` calls it "cross-instance safe" and the one at
`:52` says that all instances see the mutation. Index appends give up silently after three conflicts; `CrudStore`
writes over what changed after its caller's read (`crud-store.ts:88`); members, projects and
approvals are saved without looking at the answer; the deletion of an instance looks for
sandboxes under a key nobody writes (`region/instance.ts:210`); a released subnet block keeps a
tombstone and is never given again (`pool.ts:91`). The seed stores the mandatory rules in a
form the checker does not read; `permission-gate` reads a variable nobody sets; idempotency
stores every answer, also a refusal. The route that grants an elevation parses a body it does
not await and always refuses (`permission/handler.ts:353-357`), and `requireWheel` refuses root
(`:71`). An upload to a container secret stores the bytes before the version is checked, so those
of a refused upload stay (`container-secret/service.ts:142`); two first heartbeats under one name
register two runners.

## 6. Not modelled, and assumptions

* One Durable Object request is atomic. A storage failure between the write of an entry and
  that of its marker inside one request is not modelled.
* A transaction of `DurableStore` reads each key once, and the failure of a read inside a
  transaction, which leaves its caller waiting (`durable-object.ts:356,399`), appears as the
  client giving up. In the modules over `Cells` a transaction is one step, which is what
  `Serializable` shows of the store, and may be refused.
* KV is strongly consistent.
* `configure()` of the loop, several handlers of one event, and `EventBus.onError` throwing.
* One collector job at a time in `Removal`. Cpu and memory quotas follow the code of the
  counter.
* `withRetry`, the query and blob stores, D1 and R2 wrappers; the pools, filters, approvals, retries and
  container groups of the DAG scheduler, which it does not reach (section 5); the login throttle;
  backfills, cron arithmetic,
  expressions; login-policy arithmetic, hashing, avatars, JWTs and all cryptography; console,
  KV and local audit loggers; logs, exec, statistics, registries, DNS, object storage and
  reported statuses of the providers; request parsing, response schemas, routing and CORS; rule chains; the generic
  state machine. They are pure I/O, formatting, or data the program hands on.
* `templates.generated.ts`, the generated SDK types and the error codes have no behaviour.
* `PROJECT.json`, `components`, has the status of every part.

## 7. What could follow

1. `PodService` with two collectors at once, as a safety run.
2. Proofs of the properties of the entities and of the providers.
3. The services over `Cells` composed with `CachedStore` in place of the one-step cells.
4. The phases `process`, `execute` and `cgGC` of `DagScheduler` once the context saves updates,
   against the properties of `SPEC/ACTION_SYSTEM_STATE_MACHINE.md`.
5. The hybrid audit logger over several isolates with its readers.
