# A TLA+ verification of claude-code-router

claude-code-router is an HTTP proxy between Claude Code clients and LLM
upstreams. It picks a provider by model name, and protects every provider with
a chain of admission gates. What can go wrong in it is mostly concurrent:
request goroutines meet in semaphores, mutexes, bounded queues, timers and live
gauges, while an operator reloads the configuration under them and time windows
open and close. This directory models those parts in TLA+, checks them with TLC
and proves with TLAPS, for every value of the constants, their safety properties
and a refinement.

`PROJECT.json` is the index: components, runs, mutants, the map from definitions
to source lines, findings, hazards and theorems.

## 1. The system

A `/v1/*` request passes, outermost first:

    Reloader.ServeHTTP            the atomic snapshot of the handler tree
      auth, session, trace        per-request middleware
        model router              model pool -> alias -> key -> glob -> default
          circuit breaker         consecutive 5xx -> open -> one probe
            throttle gate         windowed 429s -> paced forwarding
              cold-start gate     prefill budget and new-session rate
                upstream pool     weighted pin / least loaded, windows
                  host limiter    one budget per upstream host
                    member limiter  one budget per upstream
                      proxy

Each tree is built by `CreateRouterFromConfig` (`pkg/factory/factory.go`); a
SIGHUP builds a new one and swaps it in.

| Component (source) | State | Operations | Hard behaviour | What makes it correct |
|---|---|---|---|---|
| Concurrency limiter (`concurrency-limiter.go`, `reselect.go`) | semaphore channel, waiters counter, per-request timer and poll | acquire, wait, time out, hand back, release | four select arms ready at once; FIFO hand-over by the runtime; panic in the wrapped handler | slots and waiters match the requests that hold them, no idle slot next to a waiter, no overtaking, no starvation |
| Host limiter (`host-limiter.go`) | one limiter per host, shared by members | as above, without hand-back | held while the member slot is awaited | one budget per server however its URL is spelled; slots given back on every path |
| Circuit breaker (`circuit-breaker.go`) | state, failures, openedAt, probing under a mutex | admit, observe, releaseProbe | admit and observe are separate critical sections; clock read outside the lock; panics | count and state agree, only consecutive failures open it, the probe flag is always cleared |
| Cold-start gate (`cold-start-gate.go`) | seen map, token bucket, reserved tokens, queue, notify channel | admit, wait, retry, first delta, release, prune | check-then-wait over a lock, several timers, a broadcast channel, once-only release | budget respected, reservations and queue slots paired, no lost wake-up, one charge per session window |
| Throttle gate (`throttle-gate.go`) | 429 window, delay, last halving, pacing slots | pace, forward, observe | responses observed out of clock order | delay bounds, slots returned, recovery only after a clean window |
| TTFT backpressure (`ttft-backpressure.go`) | effective budget, sample windows | observe, shrink, grow | moves the budget the cold gate's waiters sleep on; a window is evaluated by whoever comes after it | floor and ceiling; one move per window, in the direction the window showed; nobody sleeps for good |
| Model pool (`model-pool.go`) | round-robin counter | Resolve: pin, least loaded, overflow | reads live gauges and windows one after the other | weights kept, sibling found, no division by zero |
| Upstream pool (`upstream-pool-handler.go`) | round-robin counter | select, hand back and re-select | window edges during the scan and in a queue | a closed member's queue is left; every request ends |
| Model router (`model-router.go`) | locals of a request | pool, alias, key, glob, default; dispatch; report | windows move and clients leave between the looks; panics | routed as declared, closed providers skipped, the lift list is the provider's own, gauge balanced |
| Reloader and process (`reloader.go`, `CreateServer`, `main.go`) | snapshot, signal channel, ctx | load, build, swap, notify, shut down | edits and signals during a reload; signals before Notify and after Stop | no partial swap, no missed edit |
| Trace switch (`trace_state.go`) | flag, timer | enable, disable, expire | an expired timer waits for the mutex | one live timer, goes off by itself |
| In-flight gauge (`inflight.go`) | count and peak buckets per provider | start, done, collect | peak of a sliding window | the peak is the window's |
| Usage recorder (`usage-recorder.go`) | tail buffer | write, extract | chunks of any size, a bounded buffer, markers quoted in text | a count that is reported was sent |
| Configuration (`config.go`) | none | load, normalise, validate, windows, host keys | overnight windows, locations, zero weights | what is loaded can be served; windows are half open |
| Rejection reason, status recorder | one slot per request | claim | nested gates | the first gate is blamed |
| Authentication, system lift, proxying, logging, metrics, static endpoints | none or write-only | one request each | none | stateless |

Components interact through: calls down the chain (a gate's `next`), live
gauges read across it (`InFlight`, `Saturated`, `windowEligible`), the
re-selection signal in the request context, the request context itself
(disconnect), and the snapshot pointer.

`PROJECT.json` lists the hazards line by line.

## 2. The modules

One module per component, an `MC` module and `.cfg` files to instantiate it,
and `Proofs` modules for the theorems (`ProcessProofs` has those of `Reloader` and
of `TraceState`). Operators named `X_Something`
next to `X` are faulty variants, written down to see that a property notices
them; no specification uses them.

Common conventions:

* A member of `Requests` is a client connection that carries one request at a
  time; after `idle` it may send another. `pc[r]` is the place of the request's
  goroutine, with one value for every point at which other goroutines may run
  in between: a lock not yet taken, a select, the wrapped handler.
* The body of a critical section is one action. What the code does outside the
  lock, above all reading the clock, is a step of its own, so a goroutine acts
  with an instant (`at[r]`) that may be older than the state it meets.
* Time is in ticks up to `MaxTime`. Timers may fire late, never early.
* The wrapped handler may answer with any status class, stay away, or panic.
* Variables marked *history* do not exist in the code. They only record the
  past for a property, and no guard reads them.

**ConcurrencyLimiter.** `len` is `len(l.sem)`, `sendq` the runtime's queue of
senders parked on the channel, `waiters` the atomic counter. `EnterFree` and
`EnterFull` are the first select, `StartWaiting` the setup of timer and poll,
`SelectSlot`, `SelectLeave` and `SelectPark` the second select with any
combination of ready arms, `Leave` the tail of the timeout, hand-back and
disconnect arms, `Release` the deferred receive, which hands the slot straight
to the first parked sender, as Go's runtime does on a full buffered channel.
`Reselectable` says whether the context carries a re-selection signal: a member
limiter sees one, a host limiter strips it.

**CircuitBreaker.** `admit` is five actions, one for each way through it,
`observe` three. `Respond` reads the second clock value. `Panic` is the path on
which only the deferred call runs. `releaseProbe` is a critical section of its
own after `observe`.

**Slots, Semaphore.** `Slots` is a counting semaphore with a first-come queue as
a value (holders and queue) and its operations; `Semaphore` makes an abstract
specification of it. `ConcurrencyLimiter` implements `Semaphore` under the
mapping `holders <- At(Holding)`, `queue <- sendq` (`ImplementsSemaphore`, checked
and proved). This is what lets `UpstreamPool` put a `Slots` value in the place of
every limiter instead of three goroutines and a channel.

**TTFTBackpressure, ColdStartGate.** `TTFTBackpressure` is the controller as a
value and its two observations; every call runs under the controller's lock and
is one step of the gate, which holds it in `bp`. The samples of a window are kept
in order, a new one inserted at its place, where the code sorts a copy to find
the median. In `ColdStartGate` `AdmitWarm`,
`AdmitCold`, `BlockBudget` and `BlockRate` are the ways through
`tryAdmitLocked`, each with the prune walk in front, used by `AdmitAtOnce` for the
first attempt and by `RetryAdmit` and `RetryBlocked` after a wake-up. `wait[r]`
holds the locals of a waiter: why it is blocked, whether the notify channel it
holds was closed, when its refill timer fires and the budget it read. `Freed` is
`broadcastLocked`. A reservation is released at the first delta (`FirstDelta`,
then `Measure` reports the time to it) or, failing that, by the deferred call
(`ReturnCold` reports the status, then `ReleaseDeferred`). The estimate of a body
is a constant per request. `Threshold = 0` is a gate without controller.
`MaxSamples`, in the guard of `FirstDelta`, is a bound of the instance: the code
appends without a limit, and the proofs hold for every value of it.

**ThrottleGate.** `Enter` reads the mode; `AcquireSlot`, `PacingTurn`,
`PacingGone` and `LeaveQueue` are the two selects; `Count429`, `EnterThrottle`,
`Increase`, `NoDecrease` and `Halve` the ways through `observe`. The window is the
bag of the instants of the 429s observed: the code keeps a slice, counts it and
drops what is too old, and never looks at the order. `last429` is history, the
latest 429 since the gate went on.

**TraceState.** Timers are numbered by the `Enable` that starts them. `Fire` is
the runtime starting the callback; from then on `Stop` does not reach it, and
`disableForExpiry` waits for the mutex.

**Reloader.** The file, the process, the loop goroutine and the signal channel.
A configuration is abstracted to what a reload makes of it: it loads and builds
(`Good`), does not load, or does not build. `Edit`, `Sighup`, `SighupKills` and
`Shutdown` are the operator's, the rest belongs to the main and the loop
goroutine. Opening the listener, draining and the cancellation of the context
are external (`libhttp`, `run`).

**ModelPool.** `Resolve` with every look at a member as a step: `EligibleStep`
looks at one window, `FindMin` and `CollectTies` read one load each, `Pin` is
the ring and the saturation test, `OverflowStep` one sibling. Loads
(`LoadMoves`) and windows (`WindowEdge`) move in between. A provider is one
upstream, so that its in-flight sum is one counter bounded by its cap, and an
upstream without a cap reads 0, as the factory wires it. The ring's cumulative
weights are counted: a slot for every unit of weight of every member up to there
(`RingSlots`). The round-robin counter
starts over at `RRPeriod`, a multiple of every possible number of ties
(`PeriodAssumption`), so that no pick can tell it from the counter itself; the
same in `UpstreamPool`.

**Eligibility.** Windows, days and host keys of `config.go`, and
`UpstreamMember.Eligible`, over a calendar of `DayLength` ticks and `WeekLength`
days. `EligibleIndices(ups, t0, t1)` is the set of results a scan may have that
takes from `t0` to `t1`: `Eligible` reads the clock once for the window and once
for the day of every member, so it is every result over non-decreasing readings.

**UpstreamPool.** `ServeHTTP`'s loop over `Eligibility` and `Slots`, with both
limiters below it. A scan yields the set of members found open, and `Ascending`
puts a set in the order of declaration. `ScanEligible` records the set that the re-check compares
with, `Select` scans again and pins, `ReadLoad` reads one load each and picks
among the ties. `EnterHost` and `EnterMember` are the two limiters, `Poll` the
re-check of a request queued for its member, `Unwind` the deferred release of the
host slot, after which a handed-back request starts over at `Top`. A host limit
that is not positive is no limit (`HostCap`). `NoReturn` is not part of the
specification: it says of the constants that within the horizon no member closes,
opens and closes again, and is the hypothesis of `NoWaitOnClosed` (below).

**Config.** A configuration file as a record, `normalizeUpstreams` and the
validations as operators, `Load` as their composition (a refused file is
`NoFile`), and what the router is built from: `AllowedApiKeySet` and the list of
routes. A route is known by its place, that of its provider in the order of
declaration and that of its pattern in `models`; a loop that looks for one of
several stops at the `First`. `ParsedFile` is what parsing alone guarantees of a
file: shapes, one place per provider, and times of day that are absent or within
the day and with a location. It is what the proofs assume of `Files`, and TLC
evaluates it on the files of the runs.

**UsageRecorder.** A body is a sequence of units (event markers, data lines, the
two ends of a JSON object). `write` is the tail buffer, counted in units,
`ExtractUsage` the extraction. A data line has its line ending, because
`scanSSEEvent` looks for the end of a line as LF LF only: behind a CRLF one it
finds nothing. Events named message_ something (`MessageEvents`) make a body a
stream whatever its content type.

**ModelRouter.** Over any file that `Load` accepts, the way of a request from the
authentication to the report: `Receive` (pool, alias and suffix), `KeyStep`,
one `GlobStep` per matching route, `Dispatch` (lift decision and gauge), `Answer`
(the header) and one `Write` per chunk that gets to the client, each of which goes
into the tail buffer, `Return` or `Panic` of the provider's handler, `Report` and
the deferred `End`. The client may leave at any time (`Disconnect`, which sets
`left`). The router does not look at the request's context itself, but two things
it calls do, once per member or message: the pool handler when it is asked for an
open member, and the lift of system messages. `Cancelled` is what such a call may
answer: it gives up if the client had left when it began (`done`), and may or may
not if the client left since. What the handler does inside is left open: a gate's
429, any prefix of any response in chunks of any size, silence to a client that
has left, or a panic at any of these points. `WellFormed` says what a response of
the messages API looks like: a JSON object, or a stream of events with one delta
that carries counts, at most one start, with counts or without, and other lines,
which may quote a marker and carry none; the lines of a stream all end in the same
way. Nothing in the specification uses it; it is the hypothesis of
`RouterUsageFaithful`.

## 3. The runs

| Run | Expect | Instance | Why it is enough |
|---|---|---|---|
| `limiter` | pass | 3 requests, 1 slot, with liveness and the refinement | a holder, a parked request and a third that arrives, times out or overtakes |
| `breaker` | pass | 3 requests, threshold 2, open period 2, 4 ticks, symmetry | open, probe and reopen, with a straggler of the closed phase and a refused request |
| `cold_gate` | pass | 3 requests (two of one session, one without), budget 2, estimates 2, 0, 3, interval 2, window 3, 1 queue place, 4 ticks | an over-budget request alone, a full queue, a refill, and a window that ends |
| `backpressure` | pass | 3 cold requests of sizes 2, 1, 4, ceiling 4, a window per tick, 3 ticks, 1 queue place | the budget is halved twice and grows again, a request sleeps on a budget that moves, and an oversized one has the provider to itself |
| `throttle` | pass | 3 requests, threshold 2, window 2, floor 2, cap 6, 1 pacing slot, 6 ticks, at most 4 429s in the window, symmetry | enter, double to the cap, halve and leave again, with a queue behind the slot |
| `trace` | pass | TTL 2, 3 enables, 8 ticks, with liveness | two fired timers may wait while a third window runs |
| `reloader` | pass | 2 good, 1 unloadable, 1 unbuildable config, 3 signals, with liveness | a signal during a reload and one that is dropped |
| `model_pool` | pass | 3 members of weights 2, 1, 1 and caps 2, 1, none, overflow on the first, 2 hashes, 1 request | every eligible subset, ties of two and three, a saturated pin |
| `upstream_pool` | pass | 3 requests, of which two are pinned and one may leave; two members on one server with differently written URLs, the first of cap 1 in tick 0, the second without a cap from tick 1; host limit 2; with liveness | one served, one queued for the member, one queued for the host when the windows change hands |
| `routing` | pass | 2 requests, symmetry; 3 providers, one open over midnight by another clock, one with two upstreams that take turns; 4 files, 3 of them to be refused; 4 models, 2 keys, 7 responses, a buffer of 4 units, days of 3 ticks, 3 ticks; 640,000 states | every way to a provider while windows open and close and clients leave, a response larger than the buffer, streams without a start, without counts on it or with CRLF lines, and every chunking of them |
| `model_pool_ties` | violation | as `model_pool` | |
| `routing_closed` | violation | as `routing`, the provider with a window has a gate | |

`limiter` shows that slots and the waiters counter match the requests through
every interleaving (`SlotAccounting`, `WaitersAccounting`), that no slot idles
while a request is parked (`NoIdleSlotWhileParked`), that a late arrival never
overtakes (`NoBarging`), that every request ends (`EveryRequestEnds`) and that all
this is a semaphore (`ImplementsSemaphore`).

`breaker` shows that the count is below the threshold exactly while closed
(`CountMatchesState`), that only failures in a row are counted
(`FailuresConsecutive`) and that a set probe flag will be cleared (`NoWedge`).

`cold_gate` shows that reservations and queue slots are accounted for
(`CountersAccounted`), that nobody sleeps when it could be admitted, or has a
timer that will wake it (`NoLostWakeup`), and that pruning never makes a session
pay twice (`ChargedOncePerWindow`). `backpressure` is about the budget that moves:
only a single oversized request exceeds the ceiling (`BudgetRespected`), nobody
sleeps for good (`NoLostWakeup`; a budget that grows is not announced, but
whoever sleeps on a smaller one still has a release to come), and the budget
stays between floor and ceiling, moves at most once per window and in the
direction the window's evidence allows (`BudgetFollowsEvidence`).

`throttle`: `DelayBounds`, `SlotsAccounted`, and `RecoversOnlyWhenClean`: the delay
comes down only a full window after the latest 429 of the current throttling
episode, with responses observed out of order. `trace`: `OneLiveTimer` and `TracingStops`.
`reloader`: `ActiveIsConsistent`, `NoMissedReload` and `EditApplied`.
`model_pool`: `PinnedByWeight`, `OverflowFindsSibling`, `TiesSpread`, and
`LeastLoadedWhenQuiet`, which is what remains of the least-loaded promise when
loads may move. A single request is enough there because selections share only
the counter, which one step reads and advances.

`upstream_pool` composes selection, host limiter, member limiter and hand-back:
slots of both layers match the requests inside (`SlotsBalanced`), a server sees
no more than its host's limit however its URLs are written, as long as they agree
on the scheme (`HostBudgetRespected`), a request queued for a member that closed while another
is open is about to be handed back (`NoWaitOnClosed`), and every request ends
though it holds one slot while it waits for another (`EveryRequestEnds`). The
last one does not need a timeout: members are below exactly one host, so waiting
goes one way. The re-check compares sets, so it would miss a set that changes
and changes back between two looks; looks are half a second apart and windows are
given in minutes, so the instance has no set that comes back (`NoReturn`, which
TLC evaluates on it).

`routing` goes from the file to the report: what is loaded can be served, and one
provider at most claims a key (`LoadedIsServable`); a key pins, else the provider
declared first serves, and nobody is passed over unless it was closed since the
request came, or the client has left and no gate hides the provider's pool
(`RoutedAsDeclared`); a provider closed all that time gets nothing
(`ClosedSkipped`); system messages are lifted by the list of the provider the
request goes to, except for a client that has left (`LiftedByOwnList`; the state
after each dispatch is looked at before the client may leave);
the gauge survives panics
(`GaugeBalanced`); windows are half open, over midnight and in their own location
(`WindowHalfOpen`, against a count of the ticks from one bound to the other); and
counts that are reported were sent, by the event they are reported for, whatever
the chunks and the place where the stream broke off, and a stream of LF lines that
got through has its output count (`UsageFaithful`).

Type invariants are checked in the runs of the limiter and the breaker and proved
for every component; the upstream pool has its types in the invariants behind
`PoolSlotsBalanced` and `PoolLooks`.

Every property of a passing run has a mutant in `PROJECT.json`: a faulty variant
of one mapped definition under which TLC finds the property violated.

### Where the code and its documents disagree

* `model_pool_ties` (a code bug): `leastLoaded` reads the loads twice. If every
  load at the minimum moves between the two readings, the tie list is empty and
  the modulo divides by zero; net/http recovers and the client loses its
  connection. The upstream pool's `leastLoaded` was changed to read once for
  this very reason.
* `routing_closed` (a code bug): only the pool handler can be asked for an open
  member (`HasEligibleMember`). With a cold gate, throttle gate or breaker around
  it (`factory.go:352-396`) the provider always counts as open; key routing, the
  glob walk and the model pool do not skip it, and its pool then uses its first
  member outside its window.

Further disagreements the models show, described here and not given runs of
their own:

* A breaker probe whose client disconnects has no status and closes the breaker
  (`circuit-breaker.go:199`), although such a response "is neither a failure nor
  evidence of health" (`circuit-breaker.go:184`).
* Once a cold session's first request is admitted its queued requests are warm,
  but nothing wakes them (`cold-start-gate.go:458`); they are held, and may time
  out with a 429, although a warm request "is never held" (`docs/config.md:297`).
* The refill anchor moves by whole intervals while the bucket is capped at one
  token, so two new sessions may be admitted closer together than the interval
  (`cold-start-gate.go:490`; `:33` says that admissions are spaced by it).
* A SIGHUP while the server drains ends the process (`reloader.go:129`), although
  `specs/completed/002-sighup-hot-reload.md:106` calls it a no-op. A SIGHUP before
  `signal.Notify`, which runs in a goroutine that may start after the listener,
  ends it too (`factory.go:110`).
* `concurrency-limiter.go:212` says no slot is acquired for a client that
  disconnects while queued; with the send and the context both ready, the select
  may take the send (`SelectSlot` of a request in `gone`). The slot is freed
  again as soon as the proxy notices.
* Two probes can overlap when a probe's goroutine stalls for a whole open
  period between `observe` and its deferred `releaseProbe`, which then clears
  the flag of the next probe (`circuit-breaker.go:139`).
* A request forwarded before the breaker opened that returns after a probe has
  closed it is counted (`circuit-breaker.go:183` speaks of responses while open
  only).
* The throttle gate's delay comes down "after a full 60s window with no 429"
  (`throttle-gate.go:241`) only within one throttling episode. A response that
  read the clock long ago (`throttle-gate.go:168`, outside the lock) may start a
  new episode with an old instant and so forget a newer 429 of the one before.
* `http://h:443` and `https://h` reach one server and draw from two budgets: the
  host key drops a port only if it is the scheme's own (`config.go:496`).
* An expiry that waits for the mutex while `Enable` starts a new window ends
  that window early (`trace_state.go:88`).
* Every reload builds fresh host limiters while requests of the old tree keep
  their slots, so a host may see up to twice its budget for as long as they run
  (`factory.go:665`, `docs/config.md:237`).
* The proxy's error handler answers 502 to any error, a cancelled client
  included (`anthropic-proxy.go:64-70`), so the status 0 that the breaker
  (`circuit-breaker.go:178`) and the controller (`ttft-backpressure.go:147`) set
  aside for it does not come from there. The models allow either.
* The in-flight peak is taken from the counts at `Start` only: a count reached
  before the window that is still there at its beginning and falls inside it is
  lost (`inflight.go:32`).
* A provider without `models:` has no route: its key claims and its
  `requiresLeadingSystem` list are without effect, and as the target of a pool it
  gets the default provider's list. `ClaimsKey` and `LiftedByOwnList` say so.
* An overnight window with `days:` is cut at midnight: the weekday is that of the
  instant, not of the window's beginning (`config.go:429-441`).
* `Eligible` reads the clock once for the window and once for the day, and a scan
  once more per member: at the edge where one member takes over from another the
  provider may look closed though one of them was open at every instant.
* To a request whose client leaves while it is routed, every provider without a
  gate looks closed, windows or not (`upstream-pool-handler.go:213-218`): key pin
  and glob walk pass over open providers to the next gated one or the default,
  where the request is dispatched, counted and reported, although a provider is
  skipped when "its members' time windows all exclude "now"" (`model-router.go:335`).
  `RoutedAsDeclared` makes the exception (`PassedOver`).
* The lift of such a request gives up, "rather than finishing a transform whose
  response nobody will read" (`system-lift.go:86`), but the request is then forwarded
  with its misplaced system messages (`model-router.go:408-410`).
* A stream with CRLF lines has no counts: "Also try \r\n variant used by some SSE
  emitters" (`usage-recorder.go:344`) finds the data line, but its end is looked for
  as LF LF (`usage-recorder.go:359`). `UsageFaithful` promises the output count of
  LF streams only; that counts which are reported were sent holds of both.
* A quoted `event: message_start` in the answer moves the scan away from the real
  one and the input count is not reported (`usage-recorder.go:335`).
* A client that leaves while its request is queued is recorded as a 200
  (`model-router.go:446`).
* A request queued at the host limiter is not handed back when its member closes
  (the signal is stripped there); it is looked at again once it is queued for
  the member, and served there if that has a free slot.

### Fairness

* `ConcurrencyLimiter!FairSpec`: weak fairness of each goroutine's own steps
  (the Go scheduler) and of `Release` (a round-trip ends: the transport bounds
  the wait for headers to 5 minutes, the server the writing of a response).
  None of arrivals, disconnects, wait timers or polls.
* `UpstreamPool!Spec`: weak fairness of each request's own steps: goroutines run,
  the re-check looks twice a second, and the proxy's transport bounds a response.
  None of timeouts, disconnects, arrivals or the clock.
* `TraceState!TraceFairSpec`: time passes, expired timers' callbacks start and get
  the mutex.
* `Reloader!FairSpec`: weak fairness of the loop goroutine, whose steps are a
  bounded amount of work each. None of the operator.

### Deadlock

Deadlock is checked in every run but the reloader's: there the process may end
and nothing follows. The requests of `UpstreamPool` come once each; its
`Terminating` is the stuttering once all of them are done.

## 4. What is proved

| Module | Theorems | From |
|---|---|---|
| `ConcurrencyLimiterProofs` | `TypeCorrect`, `SlotsAccounted`, `WaitersAccounted`, `SlotsNeverIdle`, `FirstParkedFirstServed`, `LimiterIsSemaphore` | `LimiterAssumption`: finitely many requests, a positive cap |
| `CircuitBreakerProofs` | `TypeCorrect`, `CountAndStateAgree`, `OnlyConsecutiveFailures`, `NeverWedged` | `BreakerAssumption`: positive threshold and open period |
| `ThrottleGateProofs` | `ThrottleTypes`, `ThrottleDelayBounds`, `ThrottleSlotsAccounted`, `ThrottleRecovers` | `ThrottleAssumption`: finitely many requests, positive threshold, window, floor and slots, a maximum delay not below the floor |
| `ColdStartGateProofs` | `GateTypes`, `GateCountersAccounted`, `GateBudgetRespected`, `GateNoLostWakeup`, `GateBudgetFollowsEvidence`, `GateChargedOncePerWindow` | `GateAssumption`, `BackpressureAssumption`: finitely many requests, a budget or an interval, positive windows and divisors; with or without the controller |
| `ModelPoolProofs` | `PoolTypes`, `PoolPinnedByWeight`, `PoolLeastLoaded`, `PoolOverflow`, `PoolTiesSpread` | `PoolAssumption`: at least one member, positive weights; `PeriodAssumption` |
| `UpstreamPoolProofs` | `PoolSlotsBalanced`, `PoolHostBudget`, `PoolMemberCaps`, `PoolNoIdleSlot`, `PoolNobodyStuck`, `PoolLooks`, `PoolNoWaitOnClosed` | `PoolAssumption`: finitely many requests, at least one upstream; `PoolNoWaitOnClosed` from `NoReturn` |
| `ModelRouterProofs` | `RouterTypes`, `RouterRoutedAsDeclared`, `RouterClosedSkipped`, `RouterUngatedClosedSkipped`, `RouterLiftedByOwnList`, `RouterGaugeBalanced`, `RouterLoadedIsServable`, `RouterWindowHalfOpen`, `RouterRecords`, `RouterUsageFaithful` | `RouterAssumption`: finitely many connections, parsed files; `CalendarAssumption`; `TailAssumption`; `RouterClosedSkipped` for files without gated providers, `RouterUsageFaithful` from `WellFormed` |
| `ProcessProofs` | `TypeCorrect`, `SwapIsSafe`, `ReloadNeverMissed`; `TraceTypes`, `TraceOneLiveTimer`, `TraceExpiryPending` | `ReloaderAssumption`: the kinds of configuration are disjoint; `TraceAssumption`: a positive TTL |

The bounds of the instances (clocks, numbers of signals and of calls) are
constants of the theorems like any other: nothing depends on their values. TLC
evaluates every assumption on the runs.

Each theorem is `Spec => []P` (or `Spec => [][A]_vars`), by an inductive invariant
`IInv`:

* *Limiter.* A slot is handed to `Head(sendq)`, so that the count stays right
  needs `QueueIsParked`: the head is a parked request, and once. That nobody is
  parked next to a free slot needs the bound `len <= Cap`. `IInv` is the
  conjunction of the five invariants. The counting steps rest on two lemmas on
  cardinality and on lemmas about removing a request from the queue.
  `NoBarging` follows from `IInv` step by step: with a non-empty queue the
  channel is full, so neither select can send. `LimiterIsSemaphore` maps every
  step to one of `Semaphore` or to a stutter: taking the send is `Acquire`,
  parking is `Wait`, an event that reaches a parked select is `Leave`, the
  deferred receive is `Release`, and everything else is invisible. It needs
  `SlotAccounting`, for the channel's count to be the number of holders, and
  `QueueIsParked`, for who is outside.
* *Breaker.* An ordinary response acts only while the breaker is closed; that
  the probe flag is set only while half-open shows it cannot strand the flag.
  That the count is below the threshold while closed makes the step to open
  land on it.
* *Throttle gate.* Goroutines and detector share only the clock value read for
  `observe`, so `IInv` has two halves. `SlotInv` counts the slots and needs
  `PacedHoldSlot`: the deferred receive runs whatever the request holds.
  `DetectorInv` needs `CleanSince`: the latest 429 of the episode is still in the
  window, or not newer than the last halving. Without it a pruned window says
  nothing of when the last 429 was. The proof attempt is what showed that the
  property holds of an episode only (above).
* *Cold-start gate.* `ClockInv` (nobody holds an instant of the future),
  `ControlInv` (history and controller describe the same window),
  `SeenInv` (what is missing from the map has expired, which makes pruning
  harmless), `RateInv` (at most one token, which bounds the refill timers),
  `CountersInv`, `BudgetRespected` and `WaitInv`. `WaitInv` is where the check under
  the lock meets the wait outside it: a sleeper holds a channel that the next
  release closes, or a timer, or there is a request inside whose release is to
  come. That the budget may shrink under what is reserved, and grow without a
  broadcast, is why it speaks of the budget the waiter read.
* *Model pool.* Loops over members whose loads and windows move: `AtStep` says for
  every place in the code what the loop has established of the members it has
  passed, for requests during whose selection no load moved (`quiet`).
  `PoolTiesSpread` needs lemmas on remainders: two consecutive counter values
  differ modulo any number of ties above one, also where the counter starts over.
  `PoolPinnedByWeight` counts the slots of the ring that lead to a member: the
  cumulative weight of a member is that of its predecessor plus its own weight
  (`RingSlots` grows by a disjoint set of that size), so cumulative weights are
  monotone and the slots of a member are the interval between two of them. That
  the loop stops, for every slot below the total, at the first member whose
  cumulative weight exceeds it needs a least element of a set of naturals, which
  the library gives without an operator parameter. `PoolTypes` adds that each
  fallback of the code ends with a member as well.
* *Upstream pool.* `Accounted` relates one limiter, of either layer, to where the
  requests are, and every operation of `Slots` keeps it; `SlotsBalanced` alone is
  not inductive, since a request that leaves a queue must have stood there once
  and hold no slot. No step depends on which member the selection picks.
  `PoolHostBudget` needs that spellings of a URL with the same server and scheme
  have one host key. `Accounted` also says that a request waiting at a limiter
  holds a slot or is queued, and that nobody is queued unless every slot is held:
  that is `PoolNoIdleSlot`, and from it comes `PoolNobodyStuck`, the safety part of
  `EveryRequestEnds`: a full limiter has a holder (a cap is positive), the holder of
  a member's slot that the member's queue is waiting for is under way, and the
  holder of a host slot is under way or waits at a member.
  `LookInv` records of every request the instants of its two looks at the windows
  and that its choice came out of the later one (or that nothing was open then).
  Under `NoReturn` a member that was open at the second look and is closed now was
  open at the first one too, so the set the re-check compares with differs from
  what the windows say now. Without it the implication is false: a set may change
  and change back between the two looks. The code leaves it to the scale of things
  (a look every half second, windows in minutes), and so does the theorem, as a
  hypothesis about the horizon that a reader can check of a configuration.
* *Router.* `RoutedAsDeclared` speaks of the moment of dispatch. `AtGlob` carries it
  through the walk: every matching route before the place it has come to was found
  closed at an instant since the request came, or by a client that has left
  (`Passed`), and stays so as time goes on. That a step gives up only for a client
  that has left is in the invariant as `done => left`.
  `OwnList` carries the lift list. `Loaded` is what normalisation and validation
  leave of a parsed file; from it come `LoadedIsServable`, with the one claimant of
  a key and the two ends of a window, and that a window has a location and ends
  within the day.
  `RouterWindowHalfOpen` is arithmetic on remainders over any day length.
  `RecordInv` says that the tail buffer is `EndOf` what was written, the last
  `TailCap` units of the body up to there. It is inductive because `write` of a
  chunk to the end of a prefix gives the end of the longer prefix, in both of its
  branches (`RouterRecords`). `RouterUsageFaithful` then is about a window on the
  body instead of a history of writes: where the last marker in the window is, which
  line the scan meets after it, and that a quoted marker leads to a line without
  counts. There may be no start event (`a = 0` in `StreamAt`), or one without
  counts. `WellFormed` enters only here; `RouterRecords` holds of any body.
* *Reloader.* A swap re-establishes `NoMissedReload` only if what was read is
  still what the operator signalled for. `LoadedIsFile` says so during an
  attempt, unless an edit came (then `fresh` is false) or a further signal (then
  the channel is full). `AttemptsBounded` keeps the tree numbers in their range.
* *Trace switch.* `StartedByCalls`: the timer that `Enable` starts is a new one.
  `ExpiryPending` is the safety part of `TracingStops`.

Only model-checked:

* What needs fairness: both `EveryRequestEnds`, `TracingStops`, `EditApplied`. That
  the refinement carries the liveness of a limiter over to the pool is not used:
  `UpstreamPool` has fairness of its own.

What TLC checks of safety is proved as well: every invariant and every action
property of the passing runs is stated by a theorem.

## 5. What is left out

* Data: bodies, headers, wording, metrics and logs. In `ModelRouter` the rewrite of
  the request body is its effect on the model name; that a body with a model field
  in another case gets a second field is therefore not visible.
* In the cold-start gate the body estimate is not computed from a content length;
  the two readings of the clock when a first delta is reported are one.
* In the limiter the histogram of waiting times.
* `TRACE_TTL`, which only tests read.
* In the model pool a provider with several upstreams, and the overflow of the
  64-bit counter.
* In the configuration YAML syntax, environment references, tilde expansion and
  the bounds of plain numbers; changes of daylight saving time.
* In the usage recorder bytes: a cut inside a unit is a cut beside it. Decoding of
  gzip is whether the whole stream is there. `WellFormed` has no stream that mixes
  line endings and none with several `message_delta` events.
* The order in which several gates of one provider act on the same request: each
  is modelled with an arbitrary handler inside, which covers the others. The
  throttle gate therefore also counts a 429 that an inner gate of the router made,
  as the code does.

### Not modelled

* The peak of the in-flight gauge: a metric that no decision of the router reads.
* The rewrite of misplaced system messages, session ids, header swaps: functions of
  one request without state.
* Proxying, logging, redaction, metrics, static endpoints and the command line: I/O,
  formatting, and reads of counters that other modules keep.

## 6. What could come next

1. `InFlight`: the windowed peak against a reference definition.
2. The outer chain (breaker, throttle gate, cold gate) around one pool, for what
   one gate's 429 does to the next, and two trees for budgets across a reload.
3. Proofs: action properties of the breaker (what may open it) and of the upstream
   pool (a hand-back releases both slots).
