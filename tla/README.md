# A TLA+ model of Kasa Collector

Kasa Collector (`src/app`) is one Python process on one asyncio event loop. It discovers
TP-Link Kasa devices, polls them in two periodic loops and writes their readings to
InfluxDB. This directory holds a model of the parts of it that are hard to get right by
testing: the life of a client shared by several tasks, how a client is made under timeouts
and cancellations, the long game of which addresses are collected from, a poll cycle's
deadlines and accounting, what is read from a strip and what may be written of it, and the
process with its heartbeat from start to shutdown. TLC checks every module on small
instances; TLAPS proves the safety properties of each for every instance.

Contents: [inventory](#1-inventory), [modules](#2-modules-and-how-they-map-to-the-code),
[runs](#3-runs-bounds-and-what-they-show), [fairness](#4-fairness),
[proofs](#5-proofs), [findings](#6-where-the-code-and-its-documents-disagree),
[limits](#7-what-is-not-modelled), [plan](#8-plan).

## 1. Inventory

| Component | State | Operations | Correct when |
|---|---|---|---|
| Device manager (`collector/device_manager.py`) | `devices`, `emeter_devices`, `polling_devices`, `manual_addresses`, `_moved_to`, `discovery_misses`, `last_poll_ok`, `retired`, `known_addresses` and its file `known_devices.json` | a discovery pass (reconcile configured hosts, follow moved names, broadcast, prune, reclaim, authenticate), `swap_client`, `mark_reachable`, `disconnect_all_devices` | a configured device is never dropped; any other only after enough silence; what was collected once is found again; every client that leaves the registry is closed |
| Poller: clients and cycles (`collector/poller.py`) | per client: `in_flight`, `retiring`; per strip: reconnect task and back-off; per fetch: `_FetchDeadline` | two cycles (energy, sysinfo), `_fetch_counted`/`_fetch_held`, `close_when_free`, `_reconnect`, `close` | nothing fetches on a client that is closed; the counters tell what happened; no device and no InfluxDB holds a cycle for ever |
| Poller: readings (`collector/poller.py`, `storage/sysinfo_fields.py`) | python-kasa's list of a strip's outlets and the modules it gave up on | the polls of a plug and of a strip, the fields of a reading, the type of a sysinfo key | a strip is written whole, each outlet in its own series, and no value costs another its write |
| Kasa API (`collector/kasa_api.py`) | the client in hand | broadcast discovery, `get_device`, `authenticate_discovered_device` | a connection ends with one open client or with none |
| InfluxDB storage (`storage/influxdb.py`) | the write API, `sysinfo_data` cache | `process_*`, `send_to_influxdb`, JSONL files | a batch is reported written only if it was |
| Retry helper (`collector/utils.py`) | none | `async_retry` | only transient network errors are tried again, in bounded time |
| DNS cache (`collector/dns_cache.py`) | name per address, with a TTL | lookup, expiry | an entry is not served past its TTL |
| Heartbeat and health check (`health/`) | one file | `beat`, one check per process | healthy only while this run stores data |
| Orchestrator (`main.py`) | three tasks | `start`, `periodic_discover`, `shutdown` | a shutdown finishes and leaves no session open |
| Configuration, logging (`core/`) | settings | validation, masking, rotation | (no state of the collection) |

How they interact. The orchestrator starts the emeter loop, the sysinfo loop and the
discovery task; both loops iterate over the same dict, `DeviceManager.emeter_devices`. The
poller asks the manager `is_current`, `connect_fresh` and `swap_client`; the manager calls
the poller's `close_when_free` through its `release_client` hook, and the poller reports an
answering device to `mark_reachable`, which is pruning's evidence. The heartbeat file is
all the health check, another process, sees of the collector.

What is hard. Every `await` lets another task in: a client can be pruned, swapped, moved,
re-added or shut down between a cycle's snapshot and a fetch's first step, during a fetch,
or during the close of the client it replaces. Broadcasts are lossy, names move, files
cannot always be written, and the process may be killed with only the roster left. A read
may be retried into its deadline, and a write may land and still be reported lost.
`PROJECT.json` lists each of these hazards at its line, with the properties that cover it.

## 2. Modules and how they map to the code

`PROJECT.json` maps every definition to its lines.

### Clients

**`ClientLifecycle`** - the device manager and the poller composed around the clients they
share. A step is the code between two awaits. `devices`, `emeter` and `manual` are the
manager's dicts (`polling_devices` is changed only together with `emeter_devices` and read
by nobody, so it is left out); `inFlight` and `retiring` are the poller's; `fetch`,
`reconnect`, `adder` and `dropping` say where each task is and which client it has in its
hands; `stage` is the discovery task's place in a pass and `phase` is `shutdown`'s. The
actions follow the code: `CycleStart`, `FetchBegin`/`Skip`/`Update`/`End`/`Closed`
(`_fetch_counted`), `RequestReconnect` to `ReconnectClosed` (`_reconnect`), `DropMoved`,
`AddsStart` to `AddsEnd` (`reconcile_manual_devices`), `Prune`, `RegisterFound`, and
`Shutdown` to `DisconnectAll`. A close takes two steps, a connect one (`Connect` has its
inside). Which devices answer, which are missed, when a back-off is over: open. A
cancellation may catch a close half way, or the task holding the only reference to a new
client. Two history variables name the windows where the code gives no guarantee: `raced`
(a client that a re-add closes or overwrites while it is registered) and `cut` (a client a
cancellation took from everybody's hands). The properties except exactly those clients, so
that everything else about the same states is still checked, and section 6 shows what
happens inside `raced`.

**`ClientHandle`** - the abstract promise: each client is a counted handle, live until it is
dropped, given a new user only while it is live, and closed by whoever is last. Nothing is
promised of the clients it excuses. `ClientLifecycle` implements it (`ImplementsHandle`)
with `Life(c)` computed from who refers to `c`; the excused are the `raced`, of which there
are none where no entry is a name.

### Connecting

**`Connect`** - one attempt to get a client for an address, await by await:
`authenticate_discovered_device` probes the client discovery built, then calls `get_device`
under `asyncio.wait_for`, `max_retries` times, and once more without credentials; a
reclaim, an add or a reconnect calls `get_device` once with no limit. `get_device` tries
`discover_single`, `Device.connect` with credentials, and without. `pc` is the await,
`hand` the local variable `device`, `after` what the code does once a close is over. The
time limit and a cancelled pass both arrive as a `CancelledError` at any await, that of a
close included (`Interrupts`), each once. `get_device` handles it at the update, the settling
and the close of a client it refuses, by closing the client (`HasHandler`); in the probe and in
every other close nobody does, and the client in hand is `lost`.

**`Attempt`** - what an attempt promises: one session at a time, and at the end either the
one that is handed over or none. `Connect` implements it (`ImplementsAttempt`), with the
lost clients left out of `live`.

**`DnsCache`** - lookups of one address by several tasks: the time is taken first, the lock
let go during the lookup, the answer stored with the time taken at the start. Times are
ages up to the TTL.

**`Authentication`** composes the two: an attempt that registered its client awaits the
name of its log line, while pollers look up the same address.

### What is collected from

**`DeviceRegistry`** - the discovery pass seen from the addresses: reconcile, broadcast,
prune, reclaim, authenticate, one action per address and stage, with the roster file, the
misses, the poll evidence, moved names, polls in flight, and a restart at any step. The
registry's values (the clients) are left to `ClientLifecycle`.

### Polling

**`FetchCycle`** - one loop of the poller in time: fetches with their tries, back-off,
deadline and write budget, the outcome counters, the reachability report, the metrics, the
heartbeat and the sleep. `landed` and `answered` are what really happened, against which
the counters are compared.

**`Readings`** - pure operators: a device's answer to an energy read made into integer
fields (`EmeterFields`: legacy or milli-units, rounding, what does not fit in 64 bits), and
a sysinfo value made into a field of the one type its key has. Numbers are counted in
quarters, so that rounding and truncating differ, and floats lose their fraction above
`Precision`.

**`StripPolls`** - polls of one strip: the total and every outlet are read, then all of it
is written in one batch, or nothing is. The outlets of a SMART strip are listed in an order
that changes with every client, and `series` records which InfluxDB series each has been
written to; modules python-kasa gives up on start the reconnects, with their growing gaps.
A plug's poll is that of a strip's own total. What a device may report is whatever Python
can hold (`ReportAssumption`, `IsValue`).

**`Doubling`** - the powers of two in the back-off of a fetch and in the gaps of the
reconnects, as a recursive function, so that what they bound can be proved.

### The process

**`Orchestrator`** - `main.py`: the InfluxDB connection, the first discovery, the two loops
and `periodic_discover`, a signal, the shutdown with its timeout, the second cancel of
`wait_for`, the last pause in `periodic_discover`'s `finally`, the closes, and death at any
step. A cycle and a pass are no more here than the awaits a cancellation finds them at. A
cancelled one may go on closing clients for `CloseTime`: it waits in a `TaskGroup` that has
cancelled its tasks already, so `wait_for`'s second cancel is swallowed there (`SecondCancel`)
and ends only a pause. `again` remembers where it found the pass.

**`Heartbeat`** - the file `beat` replaces and the health check that reads it: stat, then
open, then a comparison with PID 1's boot and start. Of the cycle a heartbeat is for, it
keeps (history) whether its data landed. Processes, reboots and steps of the
wall clock follow each other.

**`Container`** composes the two: the emeter loop beats after a cycle that stored data, the
process stops or is killed and is started again, and the check runs beside it.

### Instances, proofs, mutants

**`MCClientLifecycle`, `MCAuthentication`, `MCDeviceRegistry`, `MCFetchCycle`,
`MCStripPolls`, `MCContainer`** name the sets the configurations use.
**`ClientLifecycleProofs`, `ClientHandleProofs`, `AuthenticationProofs`,
`DeviceRegistryProofs`, `DoublingProofs`, `FetchCycleProofs`, `StripPollsProofs`,
`ContainerProofs`** hold the theorems.

In each module a few definitions marked as mutants (`LastHoldLate`, `HasMovedNever`,
`RetryAfresh`, ...) stand before the definition they are a wrong version of. They are used
nowhere; putting one in the place of the definition that follows makes the property
`PROJECT.json` names fail, which is how each property is known to have teeth.

## 3. Runs, bounds, and what they show

| Run | Instance | States | Shows |
|---|---|---|---|
| `client_addresses` | 2 keys (1 configured), 3 clients, client symmetry | 225 k | counts are exact, the dicts agree, `ClientHandle` is implemented |
| `client_names` | 1 key, 2 names resolving to it, 4 clients, symmetry in clients and names | 488 k | `IInv`, the safety properties and `ClientHandle` where two adds race for one key |
| `client_liveness` | 1 key, 1 name, 2 clients, no symmetry | 27 k | a dropped client is closed; a shutdown finishes |
| `client_readd_held` | 1 key, 1 name, 3 clients | violation | section 6 |
| `authentication` | 3 clients, 2 timed calls, 2 callers, TTL 2 | 46 k | an attempt implements `Attempt` and ends; no expired name is served |
| `registry_safety` | 2 addresses (1 listed), 1 name, threshold 2, grace 1, 2 events | 799 k | what is pruned, kept, remembered; the routes never overlap |
| `registry_liveness` | 2 addresses, 1 name, threshold 2, grace 1, 2 events | 274 k | remembered addresses are reclaimed; names are followed |
| `registry_roster` | as above | violation | section 6 |
| `fetch_cycle` | 2 devices, interval 5, budget 4, 3 tries, delays 2 and 3 (capped) | 330 k | outcomes, single writes, reachability, cycle and heartbeat bounds, the cycle ends |
| `heartbeat_floor` | 1 device, same times | violation | section 6 |
| `strip_polls` | 2 outlets, 4 kinds of strip, 4-bit integers, gaps 1 to 3 | 197 k | batches are whole, outlets keep their series, fields fit, reconnects are spaced and bring a module back |
| `container` | 2 loops, timeout 1, discovery interval 2, closes up to 2, maximum age 1, 2 boots, clock stepped once | 346 k | counted is stored, healthy is this process's, the shutdown is bounded and ends |

Why the bounds are enough to be of use. *Clients*: in `client_addresses` a key can have a
client held and retired, its replacement, and a reconnect's or an add's new one, all at
once; a client nobody refers to is made again, so histories are not bounded. *Keys and
names*: the properties relate a client to one key; two keys let a client of one key meet the
tasks of the other, and two names on one key are the only way two adds meet.
*Authentication*: each of two timed calls may lose a client while a third is in hand; a
second caller is what makes two lookups overlap, and a TTL of 2 tells an entry that is
fresh, one that is about to expire and one that has. *Registry*: a threshold of 2 tells a
first miss from the last, a grace of 1 tick a fresh poll from a stale one; `MaxEvents`
bounds changes of the world (up/down, DNS, disk, failed broadcast, restart) to two in a
behaviour, at any steps; passes, polls, lost broadcast answers and ticks are not bounded.
*Times*: the interval, its 80% budget and the delays keep the order the defaults have (a
delay below its cap, one above it, and a third failure that comes before or after the
deadline). *Strips*: two outlets are enough to be swapped; an integer of 4 bits
(`IntMax` 7, `Precision` 6) has values below, at and above each limit, all of which
`Reports` contains with every mix of units; gaps of 1, 2 and 3 are the first, a doubled and
the capped one. *Container*: the discovery interval and
`CloseTime` exceed `SHUTDOWN_TIMEOUT`, so that the second cancel finds the pass in its last
pause, still closing, or over; the clock step exceeds the maximum age, so that it can make an old
file look new; `MaxBoots` and `MaxStart` leave room for a process started again in the same
boot, and one with the same start in the next. `sinceOk`, `quiet`, `age`, `wait`, `starts`
and `AgeCap` saturate where the code, or the property, no longer tells their values apart.
`KeepMissing = TRUE` (the manager then prunes nothing) is a constant of `DeviceRegistry`
that no run sets.

The properties are stated and explained in the modules. Those to start from:
`HeldNeverClosed`, `NoLeak`, `NeverReopened` and `ShutdownClosesAll` (clients),
`ImplementsAttempt` and `ServedIsFresh` (connecting), `PrunedOnlyWhenQuiet`,
`ConfiguredStays`, `RememberedIsReclaimed` and `NameIsFollowed` (addresses),
`OutcomeTellsTruth`, `StoredOnce`, `ReachedIffAnswered` and `BeatsInTime` (cycles),
`LandedIsWhole`, `SeriesKeepOutlet` and `DisabledIsReadAgain` (readings),
`StoredOnlyWhenOpen`, `HealthyIsHonest`, `WaitIsBounded` and `ShutdownEnds` (the process).

## 4. Fairness

Weak fairness on steps that come by themselves, and strong fairness in one place.
`ClientLifecycle`: tasks the event loop has queued run; a fetch ends (its deadline and its
write's are the code's own); a connect and a close end (python-kasa bounds its requests). No
new cycle, pass, reconnect or signal is assumed. `Authentication`: every request to a device
and every lookup is answered or fails in the end; that a device answers well is not assumed.
`DeviceRegistry`: `periodic_discover` goes on (it outlives an exception), and each of its
waits ends; that a device is up, or a name resolves, is the premise of the property, not an
assumption. `FetchCycle`: the clock ticks, due timers fire, queued tasks run; that a device
or InfluxDB ever answers is not assumed, which is the point of `CycleEnds`. `StripPolls`:
the loop polls on, a poll or a reconnect under way ends; and, strongly, a strip asked again
and again answers one day (`SmartRead`, `Reconnected`) - without it nothing the collector
does could bring a module back, which `DisabledIsReadAgain` is about. `Container`: every
await of the process ends and time passes; a signal, a crash, a check are not assumed.

## 5. Proofs

Each theorem holds for all values of the constants under the module's named assumptions.
`PROJECT.json` lists them; the argument of each file is at its top.

**`ClientLifecycleProofs`**, for all sets `Keys` (finite), `Clients` and `Entries`: `TypeOK`,
`InFlightExact`, `IInv`, `HeldNeverClosed`, `RegisteredNeverClosed`, `NoLeak`,
`ShutdownClosesAll` as invariants, and `NeverReopened` and `DroppedIsReleased` as properties
of every step (the last is implied by `ImplementsHandle`, and no run checks it by itself).
It assumes only that `Keys` is finite (the holders of a client must be countable) and that
`None` is none of the constants' elements.
The safety properties are not inductive by themselves. That nothing held is closed needs
that a retired client is out of the registry and still has a holder (`RetiringDropped`,
`RetiringHeld`), that the count is the number of holders (`InFlightExact`), that one client
is under one key (`OneKeyEach`: a drop of one key must not leave the client at another),
that a client in an add's hands is open and unknown to everyone else (`AddersApart`), and
what each stage and phase has waited for (`Quiet`). `IInv` is their conjunction with
`HeldNeverClosed`, `RegisteredNeverClosed` and `NoLeak`, which need each other: a
registered client becomes a held one, a held one a retired one, a retired one a closing one.
The file proves `TypeOK`, then the count (with cardinality lemmas on `Holders`), then for
each conjunct that each action keeps it, most actions through a lemma on what they leave
alone; the theorems are at the end.

**`ClientHandleProofs`**: that `ClientLifecycle` implements `ClientHandle` for entries of
any kind (`HandleImplemented`), that no client is excused where no entry is a name
(`NothingRaces`), and `EmeterFollowsDevices`. `HandleInv` adds to `IInv` that a client a
cancellation cut off is in nobody's hands (`CutIsApart`), that what is polled is registered,
and, without names, that it is the registered client itself and that an add finds its key
empty. The step simulation (`EveryStep`) shows of each action what it does to the one or two
clients whose life changes; `CutIsApart` is in turn kept because of it, as no step takes a
handle out of `lost`.

**`AuthenticationProofs`**: `TypeOK`, the refinement of `Attempt`, and `ServedIsFresh` for
any number of callers. `ConnectInv` says at which awaits there is a client in hand and that
whatever else is open is lost; `DnsInv` that a cached name was read no longer ago than its entry's
stamp says, so that one that has not expired is fresh.

**`DeviceRegistryProofs`**: `TypeOK`, `CollectedIsKnown`, `RoutesAreDisjoint`,
`PrunedOnlyWhenQuiet` and `ConfiguredStays`. `RegistryInv` adds that a listed address the
manager counts as configured is registered (`ManualIsRegistered`), that what a pass sets out
to prune is registered (`PrunesRegistered`), and that an address with `n` misses has had `n`
quiet rounds at least (`MissesAreQuiet`), which is what pruning rests on: at the step that
retires an address the rounds before it and this one make `Threshold`.

**`DoublingProofs`**: `Doubled[0]` is 1 and each value is twice the one before
(`DoublesEachTime`). A recursive function is whatever satisfies its equation, if anything
does, so that something does is what has to be shown: finite beginnings of it exist and
agree. The inductions are on sets, from the library's well-foundedness of `<`.

**`FetchCycleProofs`**: `OutcomeTellsTruth`, `StoredOnce`, `ReachedIffAnswered`,
`CycleBounded` and `BeatsInTime`, for any set of devices and any times that keep
`CycleAssumption`. `CycleInv` relates each task's place to what has landed and answered
(`TasksTell`), its clocks to the cycle's (`TimesAddUp`), and the time since the last beat
to both (`BeatsAddUp`). `TypeOK`, with `DoublesEachTime`: no fetch is tried more often than
`MaxRetries` or backs off for longer than the cap.
What safety says of `CycleEnds` is proved as well. `StepsLeft` bounds the steps a fetch may
still take by its budget, its tries and its stage (`FetchIsShort`), and while a cycle
fetches, every step, a tick included, lowers it for one of the fetches and raises it for
none (`CycleRunsDown`). So of finitely many devices' fetches only that many steps can be
taken; that a next one is taken is fairness, and left to TLC.

**`StripPollsProofs`**: `SeriesKeepOutlet` through `SeriesInv` (a position that is reported
names the outlet whatever the list's order), and `LandedIsWhole` through `WholeInv` (each
client lists every outlet once, and an IOT poll under way has read the total and the
outlets up to the next), for strips of any size. `ReconnectsSpaced` through `SpacingInv`:
the gap is the distance the next reconnect must keep, doubled as often as there were
reconnects up to `MaxGap`, and the wait is what is left of the last. `FieldsFit`, for integers
of any width, floats of any precision and any values: rounding and truncating do not take a
value that `Storable` lets through out of 64 bits, and a calculation in thousandths stays by
its unit.

**`ContainerProofs`**: `StoredOnlyWhenOpen` through `ProcInv`, which says when a loop may
run; `HealthyIsHonest` through `BeatInv`, which orders the runs by boot and start and dates
the file; and `WaitIsBounded` through `WaitInv`: until `wait_for` cancels again the wait is
within `SHUTDOWN_TIMEOUT`; what still closes clients is within `CloseTime`; and a pause that is
there afterwards began after such a close, so that the ticks waited and those it has left are
within `CloseTime + DISCOVERY_INTERVAL`.

Only model-checked. All liveness, which is out of the prover's reach: `DroppedIsClosed`,
`ShutdownFinishes`, `AttemptEnds`, `RememberedIsReclaimed`, `NameIsFollowed`, `CycleEnds`,
`DisabledIsReadAgain` and `ShutdownEnds`. Every invariant and every property of steps that a
passing run checks is proved too.

## 6. Where the code and its documents disagree

1. *A client closed under a fetch.* `poller.py:446`: "A replaced client is closed only once
   no fetch holds it." `_add_manual_devices` (`device_manager.py:287`) releases the client
   registered at the address before it registers the new one. If no fetch holds the old
   client then, its close is awaited while it is still registered; a cycle that starts
   meanwhile finds it current, holds it, and has it closed under it. Run
   `client_readd_held`. It takes a listed name whose address is already registered by
   another route. In the same window a reconnect may swap in a client that the add then
   overwrites unclosed.
2. *The roster drifts.* `device_manager.py:970`: "the persisted roster cannot drift from the
   live one." A failed write is swallowed with the address already in `known_addresses`, so
   it is not tried again until another address is new. Run `registry_roster`.
3. *The health check's floor.* `config.py:371` raises the maximum age of a heartbeat to two
   intervals because "a shorter limit fails a collector that stores every cycle". Two are
   not enough for that: after a short cycle the loop sleeps up to one interval, and the next
   cycle may take 80% to read and 80% to write and still store. Run `heartbeat_floor`;
   `BeatsInTime` is the bound that holds (`Gap`). It matters where the limit is at its floor
   (an interval above 60 s, or a lowered setting).

Three more are in the models, where the properties state what does hold; no run is about
them.

- `how-it-works.md:49` has a strip with a disabled module connected afresh. The code does
  not for one whose own total's module is disabled too, nor for a SMART plug:
  `DisabledIsReadAgain` is about an outlet of a strip that can still be read.
- `troubleshooting.md:121` says a strip is never written in part. An outlet of a SMART strip
  that failed is left out of its batch: `LandedIsWhole` asks for all there is of an IOT
  strip, and for all that was read of a SMART one.
- `main.py:483` has `KASA_COLLECTOR_SHUTDOWN_TIMEOUT` "limit task cancellation time". A
  cancelled pass, or cycle, that still closes clients at its end swallows the second cancel:
  the wait lasts as long as the closes, and after those of a pass one whole
  `DISCOVERY_INTERVAL` more. `WaitIsBounded` says so, and that the pause comes on top in no
  other case.

## 7. What is not modelled

- *Configuration and logging*: validation, masking and rotation keep no state that the
  collection reads. The settings are constants here.
- *Emulators, tests, dashboards, packaging*: not the program.
- *Tags and aliases*, except the `plug_id` an outlet's series is known by; the sysinfo cache
  and the JSONL side file, which nothing the models state depends on.
- *Duplicate answers to a broadcast*: `KasaAPI` merges them before anyone sees them; a
  broadcast is the set of the addresses that answered.
- *`DnsCache.clear_expired` and the cache's statistics*: nothing calls them.
- *How long a close takes.* It takes two steps in `ClientLifecycle`, no time in
  `FetchCycle`, and in `Orchestrator` those of a cancelled cycle or pass take up to
  `CloseTime`, a constant: the collector sets no limit of its own to it.
- *How long a silent device stays*: `PrunedOnlyWhenQuiet` bounds it from below only. A late
  poll can put a pruning off, and no bound from above holds in general.
- *A wall clock stepped under the DNS cache*: its times are taken to be monotonic there; the
  heartbeat's are not.
- A crash is modelled where something survives it: the roster (`DeviceRegistry`) and the
  heartbeat (`Container`). Clients and cycles leave nothing behind.

## 8. Plan

Done: everything sections 2 to 5 describe. Left, in the order of what it would add:

1. A run of `DeviceRegistry` with `KeepMissing = TRUE`; its theorems cover both settings.
2. `FetchCycle` and `StripPolls` composed: a strip's reads under the cycle's deadline, with a
   reconnect requested in one cycle and finished in a later one.
3. The merge of duplicate answers to a broadcast, beside `Connect`.
