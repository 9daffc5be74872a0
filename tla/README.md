# Omni-Notify, formally

TLA+ modules of the notification gateway in `src/`, the TLC runs that check
them on small instances, and theorems about them that TLAPS checks for every
instance. Paths are relative to `src/internal/` unless they begin with `src/`.

## The system

An event arrives over HTTP, is stored, matched against routes, deduplicated per
route, and turned into deliveries, one per provider. A durable queue sends the
deliveries and retries them. Two subsystems hang off it: voice calls (a phone is
rung until somebody answers) and the on-call plugin (incidents are paged and
escalated), which come back into the queue through `SendFallback` and `Deliver`.

| Component | State it keeps | Operations | Talks to |
|---|---|---|---|
| ingestion `notifier/notifier.go`, `direct.go`, `keymutex.go` | `events`, `states`, `route_dedup`; a mutex per fingerprint | `Process`, `Deliver` | router, dedupe, storage; wakes the dispatcher |
| deduplication `dedupe/decide.go` | one record per fingerprint and route | `Decide` | called under the fingerprint's mutex |
| routing `router/router.go` | `routes` (read each time) | `Match` | called by ingestion |
| delivery engine `notifier/delivery.go`, `storage/deliveries.go` | `deliveries`; jobs channel, wake channel, goroutines | `Start`, `Stop`, dispatcher, workers | storage, providers |
| retry delay `notifier/delivery.go`, `config/config.go` | the delivery settings | `backoff` | called by workers |
| voice calls `voice/service.go`, `policy.go`, `storage/calls.go` | `voice_calls`, `voice_call_rings`; the service's mutex | `CreateCall`, `Cancel`, `Tick` | pushes, `SendFallback` |
| voice devices `voice/devices.go`, `history.go`, `storage/devices.go` | `voice_turns`, `voice_enrollments`, `voice_devices` | `DeviceReport`, `Turn`, `CallBack`, `Enroll`, `UpdatePush` | voice calls |
| voice dialogue `voice/dialogue.go`, `intent.go` | none | `Interpret`, `Reply` | called by `Turn` |
| on-call `plugins/oncall/` | incidents, overrides, counters, in memory and in a database of its own; phones | `ingest`, `tick`, API handlers, `load` | `Deliver`, Identity |
| Telegram messages `providers/telegram_send.go`, `telegram_media.go`, `refs.go` | `sent_messages` | `Send` | Telegram |
| Telegram callbacks `providers/telegram_callbacks.go` | an offset per bot, pollers | `Run` | Telegram, outgoing HTTP |
| Apple pushes `providers/apns.go`, `voice/apns.go` | provider tokens | `Send`, `Push` | Apple; clear device tokens |
| log shipper `logship/logship.go` | a bounded buffer | `Handle`, `run`, `Shutdown` | the logging service |
| identity `auth/identity.go`, `plugins/oncall/identity.go` | a cache of signing keys | `Verify` | the identity service |
| admin API `api/providers.go`, `routes.go`, with `storage/` and the start | `providers`, `routes`, the encryption key | create, replace, patch; seed | storage, registry |
| the rest of the HTTP API, MCP, CLI | none of their own | decode, authorise, call | everything above |
| process `src/cmd/omni-notify/main.go`, `plugins.go` | what runs | start and shutdown order | everything above |

What is hard, and where it is a property (the line-by-line list is `hazards` in
`PROJECT.json`):

* *Concurrency.* Requests, the dispatcher, the workers and administrators share
  tables whose statements are atomic one by one only. Ingestion relies on a
  mutex; the queue on a claimed row having one holder, because the updates that
  record an outcome have no condition on the status.
* *Crashes.* The process may die between any two statements, and is restarted.
* *Failures.* Any statement may fail; a `Send` may fail after the provider took
  the message; the request context may be cancelled.
* *Ordering and time.* Times are read before the mutex is taken, so they need
  not grow from one decision to the next; a nudge may come before the wait; a
  phone reports late, twice, or never.
* *Consequences.* What follows from the end of a call, or from a decision to
  notify, is written in a later statement than the end or the decision itself.
* *Copies.* The on-call plugin works on memory and writes through, a cache keeps
  keys, a handler writes what it read some statements earlier, a push names a
  phone by a token that may be the last one but one.
* *Limits.* The jobs channel, the batch, the attempts, the width of a duration,
  the log buffer.

## The modules

### DeliveryQueue: the durable queue

`row` is the `deliveries` table, `provider` what a delivery sees of the
`providers` table. `dispatcher`, `batch` and `fullBatch` are the dispatch
goroutine and its locals, `jobs` the channel, `pc`, `job` and `outcome` the
worker goroutines, `wake` the one-place channel of `nudge`, `engine` the process.

| Action | Code |
|---|---|
| `Start`, `Cancel`, `Stopped`, `Crash` | `Notifier.Start` with `ResetInProgress`; SIGTERM in `main.go`; `Stop`; the end of the process at any point |
| `ClaimDueDeliveries`, `ClaimNothing`, `Push`, `Awake`, `Poll`, `DispatcherExit` | `dispatch` and `dispatchBatch` |
| `Take`, `LoadProvider`, `LoadEvent`, `Send`, `Record`, `WorkerExit` | `runWorkers`, `safeDeliver`, `deliver`, `scheduleRetryOrDie`, `markDead` |
| `EnqueueDelivery`, `Nudge`, `AbandonNudge`, `SetProvider` | `Process`, `Deliver`, `SendFallback`, the provider API |

A worker's steps are the places between which another goroutine can act: after
the receive, after the provider is read, after the event is read, after the
send, and the write. Time is relative: a row keeps the ticks left to
`next_attempt_at`. The order of the claim is left open, so nothing shown depends
on it. `sends`, `accepted`, `unrecorded` and `lost` are history variables.

`DeliveryPromise` is the abstract specification: a delivery is queued, may be
taken by its provider any number of times while it is queued, and is settled
once, as a success only if it was taken, within `MaxAttempts` recorded attempts.
`KeepsPromise` states that the queue implements it; the mapping takes pending, in progress and failed to "queued".

### Dedupe, DedupHistory: deduplication

`Dedupe` has the pure decision of `Decide` and the resolution of a route's
policy. `DedupHistory` runs it for any sequence of events next to the full
history of decisions, and states the rules of the README about that history:
what a user would say ("was it firing", "when was the last notification")
against what the code looks at (two fields). The policy may change between two
events and times may go backwards, as both can in the code.

### Router: routing

`Match` over every table that `UpsertRoute` can produce. `TakesTheRightRoutes`
states the outcome for each route by itself, without lists and cuts, and the
order that decides which route owns a provider.

### Ingest: concurrent requests

`Process` and `Deliver` with one step per statement, a mutex per fingerprint,
and errors and crashes at every statement. `Matched` gives what `ListRoutes`
and `Match` may return for a status. The pool of mutexes in `keymutex.go` may
make two fingerprints share one, which only removes interleavings.
`Serial == INSTANCE DedupHistory` with the dedup table and the decisions taken:
`DecidesSerially` states that concurrent requests refine the one-at-a-time
specification, so its rules, which are proved, hold of the concurrent code.
`SuppressedOnlyWhileFiring` speaks of the routes that see every resolve
(`SeesResolves`): one that matches a severity or a status may miss it, stays
active, and suppresses the next firing. One route of the instance does not
match resolved events, so that both kinds are met.

### VoiceCalls: ringing a person

`calls` is the `voice_calls` table, `offered` the `voice_call_rings` and `turns`
the `voice_turns`. The pass of the ticker, a phone's report and a call back hold
the service's mutex, so `engine` is whoever holds it, with its locals; what
takes no mutex is in `req`, by caller.

| Action | Code |
|---|---|
| `RingingPastDeadline`, `StaleInProgress`, `FinishListed` | `sweep`, `finish` |
| `DueCalls`, `Dispatch`, `Act`, `Invite`, `Invited`, `PassDone` | `Tick`, `dispatch`, `ring`, `invite` |
| `AfterEnd` | `ended`, `followUp`, `SendFallback` |
| `DeviceReport`, `CallBack`, `CalledBack` | the phone's calls under the mutex |
| `CreateCall`, `FindPendingDuplicate`, `CheckPolicy`, `Insert` | `CreateCall`, statement by statement |
| `Cancel`, `Turn`, `RecordTurn` | the calls without the mutex |
| `Fail`, `Crash` | a statement of a request fails; the process dies and may come back with a configuration in which the agent is no longer allowed |

Where the model is coarser than the code: there is one agent and one recipient,
who stays configured and has a fallback provider; an empty list of the pass is
skipped instead of walked through; the four reads of `evaluate` are one step,
because whatever writes a ring time or makes a call live holds the mutex, and
`CountPending` and the policy are one step for the same reason up to the pending
count; a push and the record of it are one step, because a phone's report waits
for the mutex. The fallback is the list `fallbacks`; its own queue is
`DeliveryQueue`. A shutdown, which cancels the context so that all later
statements fail, does to the tables what a crash does.

### OnCall and Rotation: incidents and who is paged

`mem` are the fields of `Plugin`, `db` the tables of its database. All that
changes state holds the plugin's mutex, so a handler is one action; inside it
the statements come one after the other and any of them may fail or be the last
before the process dies. A handler is therefore a chain of steps on a record
(memory, database, what is to go wrong where), and the action takes any of its
outcomes: after a failed statement memory as far as it got with the database
as far as it got, after a death the memory that `Load` reads back.

| Action | Code |
|---|---|
| `Ingest` | `provider.Send` with `ingest`, `ingestLocked`, `openIncident`, `resolve`; again until it returned nil |
| `Tick` | `run`, `tick`: `escalateDue` for every due incident in any order, then `handoffs` |
| `Post` | `serve`: `createIncident`, `act` (acknowledge, resolve, reopen, reassign, escalate, note), `createOverride`, with the idempotency table |
| `Crash`, `Advance` | the end of the process between two handlers; the clock |

`Rotation` has whose turn it is, overrides and the list of shifts, with days of
different length; `RotaHolds` compares the list, which is carved out of spans,
with the person who is paged, which is looked up. The action property
`EveryChangeIsListed` is about a client that polls `/changes`.

### TelegramSend, TelegramCallbacks, ApplePush: providers

`TelegramSend` has one step per request to the Bot API and per statement on
`sent_messages`, for deliveries that run beside each other and share a ref.
The answers are those of an API that may take a request and not say so.
`TelegramCallbacks` has the pollers, which are started, cancelled and replaced as the
providers change, Telegram's own list of unconfirmed updates, and the
goroutines that run a press. `ApplePush` has the fan-out of a page, the
provider tokens it is signed with, and the push that rings a phone for a call
next to the phone's own registration.

### LogShip, KeyCache, Settings, Phones, Lifecycle

`LogShip`: the buffer, batches, retries and the two stages of a shutdown.
`KeyCache`: the cache behind both verifiers, under an Identity that rotates its
keys or is away. `Settings`: handlers of the admin API with one step per
statement, overlapping, and starts with other keys and configurations.
That what was written last can be built holds of a provider on which no two
requests overlapped: a replacement is tried with the secret that the handler
has read, and another request may have changed it since (`TablesWork`). The
`key_from` of an `apns` provider, by which it takes its key from another one, is
left out: whether such a row can be built depends on that other row.
`Phones`: enrollment and credentials of voice phones, the roster of on-call
phones. `Lifecycle`: the order in which the process starts and stops its parts,
and what each part needs while it works.

### Backoff: the retry delay

`backoff` with the defaults and the validation of its settings, in integers of
`Width` bits. The code computes in floating point; the factor is a whole number
here, and rounding close to the largest duration is left out. A value that does
not fit converts to the smallest or the largest integer, by processor.

## The runs

| Run | Shows | Instance |
|---|---|---|
| `queue_faults` | safety of the queue, `KeepsPromise` | 2 deliveries, 2 workers, channel of 1, batch of 2, 2 attempts, 2 starts, 1 fault |
| `queue_live` | deliveries settle, shutdown completes, no nudge is lost | 1 worker, batch of 1, otherwise the same |
| `ingest` | `DecidesSerially`, none missing, suppressed only while firing, every request returns | 2 callers, 1 fingerprint, 3 events, 2 routes, 1 tick, 1 fault |
| `ingest_lost` (violation) | an alert is recorded as notified and never announced | |
| `voice` | one live call, one consequence, the policy, one call per key, ends are final | 2 callers, 2 phones, requests of agents and of a route, 3 calls at most, 3 ticks, 1 fault |
| `voice_live` | every call ends | 1 caller, 1 phone, 5 ticks, 1 fault |
| `voice_lost` (violation) | a crash forgets somebody who did not answer | 1 caller |
| `oncall` | memory and database agree, quiet once handled, one incident per alert, what is over opens nothing, every change is listed | 3 deliveries of an alert, 9 requests of which 1 is made, 3 ticks, 1 failing statement or crash at any statement |
| `oncall_live` | an incident that nobody takes goes through its policy | 7 ticks, 2 levels, 1 repeat, 1 fault |
| `parts` | the properties of the components that share no state | below |
| `telegram_delete` (violation) | a delivery that deletes a message succeeds without | 1 failure |
| `voip_token` (violation) | a rejected token takes a new one with it | 2 phones, 2 tokens each |

`parts` moves one component in each behaviour, and the others stand still:
`TakesTheRightRoutes` (3 routes, 2 priorities, 3 conditions), `RotaHolds` (3
overrides over days of different length), `RulesKept` (3 decisions, 4 policies,
3 times), `GrowsToTheCap` (6 bits, 8 attempts), `SentOnce` and `RefusalsEnd` (2
deliveries, 2 attempts, 1 trouble), `ShownOnce` (2 pages of 2 targets, 2
attempts, 5 ages of a token, 1 mishap), `ActsOnce` (2 presses, 3 pollers, 2
changes, 1 miss), `NoneLostUntold` (5 records, buffer and batch of 2, 3 failed
posts), `WithdrawnKeysExpire` (2 keys, 2 changes, 5 ticks), `TablesWork` and
`NothingIsLost` (2 requests at a time, 3 in all, 2 starts with 4
configurations), `PhonesAreTheirs` (2 people, 2 phones, 2 codes, 4 registrations) and
`NothingRunsAlone` (2 starts).

Why these bounds are enough to meet the interesting cases. Two deliveries and
a channel of one place make the dispatcher block with a row in its hands while
another waits and a third party holds a worker; a batch of two over two rows
makes batches both full and short, a batch of one makes the full one that has
to be followed by a claim; two starts allow one crash or one shutdown and what
follows it; two attempts make the first retried and the second the last. Three
decisions hold an episode, its repeat or resolve, and what comes after; longer
histories are proved. Three routes are what a stopping route, its peer and a
lower one need. Two callers are enough for a race on one mutex. Two calls asked
for, with two attempts each, make calls that are busy with each other, hit the
rate limit and the cooldown, and leave a snooze, a retry or a call back of one
next to the other; `MaxInputs`, `LastRequest` and `LastReport` bound how much is
asked and until when, and the ticks left after them are those in which every
timeout, deferral and expiry still falls. An alert's firing and two resolves
stamped out of order, redelivered, meet each other, a request and the ticker
before and after a crash; one request is enough because what people do at two
times is what differs, and the ticker and the deliveries come in between. Three
pollers are one that runs, one that replaces it and one that comes after. A
buffer and a batch of two over five records fill both. Six bits overflow after
five doublings. `CHECK_DEADLOCK FALSE` is set where the system simply idles
once the bounded number of requests, decisions or attempts has been used up;
the queue itself is checked for deadlock.

### Fairness

The queue: the goroutines are scheduled, `Send` returns (it is bound to
`SendTimeout`), the ticker ticks and time passes, `Stop` returns once everybody
is done, and a process that went down is started again (`restart:
unless-stopped` in `src/docker-compose.yml`). Enqueuing, nudging, administration,
crashes and shutdowns are not fair. Ingestion: a goroutine that can go on does,
weakly; a mutex hands over in the end because only finitely many requests come
in the bounded instance (Go's mutex guards against starvation itself). Voice
calls: the pass goes on and the clock does; that a phone reports, that anybody
speaks, and that a request is made or finished is not fair, so `EveryCallEnds`
does not rely on the phones. The clock stops at `MaxTime`, which makes the
property stronger: every call has to end by then. The on-call plugin: its ticker
ticks and time passes (`FairSpec` of `OnCall` writes the weak fairness of `Tick` out, with what makes
a tick change something in the place of `ENABLED`); `MaxLate`
says that a tick comes before an incident has been due for longer. Nobody has
to answer, and no delivery has to come.

### Findings

* `ingest_lost`: the dedup record is written before the deliveries, in separate
  statements; what fails in between leaves the alert active and suppressed.
* `voice_lost`: a call is moved to its end state before its next attempt is
  made or its fallback sent; nothing looks at ended calls again after a crash.
* `telegram_delete`: the ref of a message is forgotten even when the request to
  delete it failed, so that the retry succeeds and the message stays.
* `voip_token`: when Apple rejects a token, the one the phone has by then is
  cleared, which may be a new one.

Met while modelling, and noted with the hazards because no text of the
repository is against it: two racing requests can overrun `max_pending`; an
error of the database while an event is read makes its delivery dead at once;
after a failed statement the on-call memory is ahead of its database until the
next write or the next start; an incident opened for an unknown assignee is
open although the answer is 400; two overlapping requests on one provider may
leave a row that does not build, although each tried what it wrote; a route that
does not match the resolve of an alert stays active.

## The theorems

Each theorem holds for every value of the constants that the named assumption
of its module admits; TLC evaluates these assumptions on the instances. Each
proof has the same outline: an inductive invariant, a lemma that it holds at
first, one lemma for each action or kind of action, and what the theorem says
of it. Of a record that a step changes, lemmas with generic values (a worker's
move, a row that is written, an element that is appended) say what stays, and
the lemmas about actions cite them.

### The queue

`DeliveryQueueProofs`, for any sets of deliveries, providers and workers and any
limits: `TypeCorrect`, `OneHolder`, `NoStaleJob`, `NoExcessAttempt` and
`TerminalStays`. The inductive invariant `Inv` is the conjunction of the four
state properties with two facts they need. `BatchInv`: the dispatcher is pushing
exactly when its batch is not empty, so that `Head(batch)` is a job.
`BackoffInv`: only failed rows wait for a time, so the tick, which changes every
row with time left, changes no claimed and no settled row. That a claim does
not create a second holder needs `JobsAreFresh` (a claimed row is in progress,
so it is not claimed again), and that a late record does not hit a settled row
needs it again: neither property is inductive alone. Assumptions: the limits
are numbers, the channel, the batch and the attempts positive, and the set of
deliveries finite (`QueueAssumption`).

`DeliveryPromiseProofs` adds what has been sent, on top of `Inv`. `AccountInv`
relates the histories to the row: sends against attempts, with the one that is in
flight (`SendsInv`), what a success was taken for (`TakenInv`), and that without
a fault a message that was taken belongs to a success or to a worker about to
write it (`OnceInv`); it needs that no worker outlives the process
(`ParkedInv`). From it follow `SendsAreAccounted` and the refinement
`QueueKeepsPromise`: every action of the queue is a step of the promise or
changes nothing it sees. A restart is the case where the invariant is needed: a row that was
in progress goes back to the queue, and its provider may have taken the message.
`NoRowIsStranded` follows by the cases of the claim. `NudgesArrive` has an
invariant of its own (`WakeInv`): a dispatcher that waits, or is pushing a batch that
was not full, has left no new row unless the token is there.

### Deduplication and ingestion

`TablesProofs`, for any keys, policies, times and lengths of history:
`RecordIsEnough`, `FiringNotifiesOnce`, `ResolveNotifiesOnce`,
`StatelessKeepsWindow`, and `RulesAreKept`, which is the three rules in one. The
induction is over decisions: `RecordSumsUp` is what
makes the rules follow for the newest decision, `StampedInv` (an active record
has been notified) gives the repeat interval something to be measured from, and
the rules are kept in the invariant because they speak of the whole past, which
an appended decision does not change (`PastRulesStay`).

`IngestProofs`, for any callers, fingerprints, routes and lists that a match may
return, with names of routes being unique (`IngestAssumption`). `Base` says that
a caller past the mutex holds it (`MutexInv`) and, because of that, that the
record it is about to decide from is the one in the table (`PrevInv`). With a
count of the decisions that are still to come (`CountInv`, against `MaxEvents`) every step is a
decision of `DedupHistory` or changes nothing that it sees:
`DecisionsAreSerial`. `OwedQueued` needs that each numbered event has one
caller, who knows its deliveries (`EventInv`). `SuppressesWhileFiring` needs
`FlagInv`: what a route's record says is active, the table of states says too,
or the request that resolved it is still on its way to that route.

### Routing, the retry delay and the rota

`TablesProofs`, with an induction over numbers that rests on the least element of
a set (`Least`, `Induction`).

`RoutesAreRight`, for any routes, priorities and conditions. The only invariant is
that the table is a finite function (`TableOK`); the rest is about `Match`. Any
names of the table can be listed by priority and name (`CanBeListed`, by the
number of names: one comes after all others, `LastOne`), and such a list has
each name once (`Listing`, by the pigeonhole principle). Where a stopping
route cuts the list, what stays is what no stopping route has priority over
(`Kept`), so that the outcome can be said for each route by itself. Names and
priorities are numbers (`RouterAssumption`).

`BackoffGrows`, for any width of a duration, configuration and number of attempts.
The invariant `DelayOK` is that the delay is the one of the last attempt; the
uncapped delay grows by the factor (`IdealGrows`), a capped one fits
(`CappedFits`), and one that no longer fits has a factor of two at least.
The second, the bases and the caps are durations (`BackoffAssumption`).

`RotationIsRight`, for any users, overrides and lengths of days. `turnAt` finds the
turn that holds an instant although it starts from a guess by days of 24 hours
(`TurnAtIs`): the guess is one turn early at most, because clock changes bring no
handoff a whole day forward, and the searches do the rest. (That is assumed only
because the model knows finitely many turns; the loops of the code have no
first one to run out of.) Each span
that is cut keeps in one piece whatever is not cut out (`PiecesKeep`,
`CarveKeeps`), so after every override each instant of the window is covered by
one span, of the newest override that holds it or of the turn (`SpansCover`, by
induction over the overrides, `Owner`). The window does not matter: that is why
the list of shifts and the page of an instant agree. The only invariant is that
no override is empty (`OverridesOK`), which `createOverride` checks. Assumptions:
the handoff times are those of a stretch of days, in order (`RotationAssumption`).
`RotaIsRightAmongTables` is the same as the runs state it.

### Voice calls

`VoiceCallsProofs`, for any callers, phones, requests, deliveries and limits; an
agent has keys of its own (`VoiceAssumption`): `KeysAreUnique`, `PolicyIsKept`,
`OneCallAtATime`, `EndsAreFinal`, `ConsequencesAreOne`. The invariant `Table` has,
next to the properties, `Judged`: from the verdict until the call rings,
no call is live and what the policy counts is as it was judged. It is kept
because whatever changes it waits for the mutex, and it is why the check one
step before the write is enough. A key of a turn belongs to a turn that was
recorded (`TurnInv`), which makes the keys unique. `TellInv` is `OneConsequence` with the
call that the engine is just dealing with.

### Providers

`ProviderProofs`. Telegram messages: `SendsFit`, `RefusalsAreFew`,
`SentByOneTry`, for any orders, options, refs and retries. `SendInv` counts what
options are left against the rounds (`JobFits`) and says of each delivery, by where it
stands, what of it is out (`Story`). Apple pushes: `PagesAreShown`, for any pages and
phones; until a try is over its targets have shown what it counts (`PageInv`).
Pages are lists (`PushAssumption`). Presses: `PressesActOnce`; a poller has
taken up what its offset is past (`PollersFit`), a goroutine has a press of its
own that has not been acted on (`HandsFit`), and without mishaps what is taken is
confirmed or behind the offset of the one poller (`TakenFit`).

### On-call

`OnCallProofs`, for any policies, rota, requests, deliveries and stamps:
`OnCallTypeOK`, `RestartsLoseNothing`, `QuietStays`, `AlertsFindTheirIncident`,
`OverIsOver` and `ClientsAreTold`. A handler is a chain of steps, so the lemmas
say what each step, and each function of the plugin, keeps of its place in the chain: what
is true wherever it breaks off (`Good`), and that memory and database agree
(`Idle`), but for an incident that is being worked on (`Work`). The lists that
handlers go through, the users of a level and the due incidents in any order,
are functions over the places in the list, and what holds after each place is by
induction over numbers, which the module has from the least element of a set (`Least`,
`Induction`). `OverInv` takes the end of a chain, through, failed or dead, to the
invariant of the states between handlers, `Inv`.

`Inv` is the conjunction of the properties with what they need. The tables of
memory and database fit the history of openings (`MemFits`, `DbFits`): each
incident knows its birth, and none that is triggered is one that somebody was
told is handled. Numbers come again after a failed statement or a crash, so that
births are what tells incidents apart. Each delivery that ingest has returned
nil for is in `deliveries`, and the stored end of its alert is not before its resolve,
to the second (`Covered`): with the comparison of texts the later stamp of one
second need not win, and the second is all that `WhatIsOverOpensNothing`
promises. Without a fault an alert's row names its open incident, and the next
number is larger than all (`Found`). That every change is listed comes from the
chain: a row is written only with a change number larger than any cursor that a client may
have from before the handler (`Listed`), which `RestartLosesNothing` extends to
memory. Assumptions: levels and their users are lists, the policy of the services exists,
stamps are numbers, and a request is one of those the API has (`OnCallAssumption`).

### The components that share no state

`PartsProofs`. `PartsHaveTheirNeeds`: the start has come through the first
steps of its list and the stop has the last ones before it (`StartInv`,
`StopInv`). `EveryPhoneIsTheirs`: a code that was redeemed is used up, and no
two entries of the roster have one token (`RedeemedInv`, `RosterInv`).
`WithdrawnKeysGo`: the keys that are held, and those of an answer under way, were
published at the fetch or later (`KeysInv`). `RecordsAreTold`: each record is in
one place on the way (`WhereInv`), in order (`OrderInv`). `TablesAreGood` and the
action property `WhatIsSetStays`: what a handler has read of a row on which no
other request has worked is still so (`WorkInv`), and what is left to seed
names providers that are there or come first (`BootInv`). The assumptions say that
times are numbers, that the marks `NoAnswer`, `FailedFetch` and `Free` are no
keys or tokens, and that requests and configurations have the shape that the
handlers and `config.go` let through.

### What is only model-checked

`RecordSumsUp`, `AttemptsBounded` and `TerminalIsFinal` are proved and not
checked by a run of their own: the first is longer histories of what `RulesKept`
sees, the other two follow from `KeepsPromise` on the instance.

Liveness under fairness is beyond the prover: `EverySettles`, `StopReturns`,
`EveryRequestReturns`, `EveryCallEnds`, `EscalatesToTheEnd`.

Lists, searches and powers are not a limit as long as they are written as
recursive functions or as a `CHOOSE`: `TablesProofs` and `OnCallProofs` show how
to induce over the places. Operators of the community modules that are recursive
or folds stay closed to the prover, and no module that is proved about uses one
where a theorem needs its value.

## The plan

1. *Done:* the queue, deduplication, routing, ingestion, the delay, voice calls.
2. *Done:* the on-call plugin with its rota, Telegram, Apple, the log shipper,
   the key cache, the admin API's tables, the phones, start and stop.
3. *Done:* proofs for the queue and its refinement, deduplication, ingestion and
   its refinement, voice calls, Telegram and Apple, and the five components of
   `parts` that share no state.
4. *Done:* proofs for `OnCall`, with the lists its handlers go through as
   functions over places, by induction over numbers.
5. *Done:* proofs for routing, the retry delay and the rota, with sorting, powers
   and spans as definitions that can be induced over.
6. `Pipeline`: `Ingest` composed with `DeliveryQueue`, from a request to a
   settled delivery, once a run is free for it.

The runs stay about a dozen, so that the whole set can be repeated at every
change; that is why the components that share no state have one together.

## Not modelled, and why

Formatting for each provider kind, HTTP decoding, YAML, migrations, metrics and
the web UI are conversions or I/O whose failures reach the models as errors of
a `Send` or of a statement. The fingerprint hash, the repeat counter, reasons
and error texts decide nothing that the properties see. Listing and retention
queries do not take part in delivery.

In components that are modelled: of the on-call plugin the pruning of rows
older than a day, the texts and timelines of incidents, their versions, the
list of who was paged, a policy that is taken out of the configuration before
a restart, and the order in which things are displayed; of Telegram the text and
captions of messages, the size of albums and the thirty days after which refs
go; of the log shipper the level filter and the attributes of records; of the
key cache the cryptography; of the providers other than Telegram and Apple
everything but the answers a `Send` can give (Matrix edits and pins through
refs as Telegram does). Time is counted in steps as large as the property needs, and
clocks that are set back are modelled only where the code reads one before it
waits (ingestion).
