# TLA+ models of the Cyber Monitor integration

These modules model the stateful core of the Home Assistant integration in `src/`: which sweeps
are launched and what becomes of their results, how a scan is folded into the inventory, which
targets are reported as answering nothing, what is shown of each endpoint and how it is probed over SSH, how publishes
become debounced alerts and rate-limited events, how a CVE refresh becomes a verdict, how feeds are read, and how a
remote scanner is.
TLC checks them on small instances and TLAPS proves all their safety properties for every value of
the constants.

    tlc -config MCInventory.cfg MCInventory      # one run; the runs are listed below
    tlapm InventoryProofs.tla                    # one proof module

## The system

Home Assistant runs one event loop. Every callback runs to its next `await` without interruption,
so a step of a model is the code between two waits; everything else interleaves.

| Component | State | Operations | Talks to |
|---|---|---|---|
| Local scan coordinator, `scan/coordinator.py`, and scanner, `scan/scanner.py` | clocks of the discovery and service sweeps, enabled schedules, scope last swept, scanner lock | tick, launch a sweep, sweep ends or fails, scan on demand, set schedule | store (folds), entities and alert monitor (publishes) |
| Inventory store, parser, join: `scan/store.py`, `scan/parse.py`, `scan/join.py` | hosts ever seen with first and last sighting, ports and their age; stamps of the last scans; the file and its delayed write | apply a scan (merge, re-key, prune), save, load, read off endpoints and unknown hosts | coordinator |
| Alert monitor, `alerts.py`, over `alerting.py` | per flag a debouncer, a held flag, its retry timer, two event limiters, details of findings; the alert file | both coordinator listeners, retry timer, save, start, stop | bus events, flag entities |
| CVE coordinator, `cve/coordinator.py`, over `cve/cpe.py` | the report being built, the report published, whether a new key was asked for | refresh: read registry, fetch catalog, look up each CVE, query each installed version | device registry, NVD, alert monitor |
| Coverage, settings, argument vectors: `scan/coverage.py`, `scan/settings.py`, `scan/options.py` | none of their own; the streaks they compute are the coordinator's, the repair Home Assistant's | resolve options, derive timeouts, judge what a sweep missed | scan coordinator, forms |
| SSH probe, services view: `scan/ssh_probe.py`, `scan/services_view.py`, and `_run_ssh_probe` of the coordinator | the pass under way, the answers last published, their clock | a pass over the store's hosts with a wait at each that offers ssh; services and readings of a record | store, entities |
| Endpoint sensors, `scan/entities.py`, and device deletion, `scan/__init__.py` | what was ever given a sensor, the sensors | add sensors for what is new in a view, show a record, delete a device | coordinator (listens), registry |
| Scanner agent client, `scan/api.py`, and `AgentCoordinator` | ETag and inventory cached, the view published | refresh (inventory, then status, then join), set schedule, request a scan | the agent over HTTP, entities, registry and options (join) |
| Feeds, `feeds/` | last good items per feed | fetch each, keep on failure | entities |
| Setup, unload, removal, services: `__init__.py`, `scan/__init__.py`, `scan/scan_service.py` | loaded runtime | set up, reload, unload, remove, `scan` service | all of the above |
| Config flow, entities, constants, brand, tools | options of the entry; projections | forms; read data | all of the above |

What is hard in it, and what would be correct:

* **Several clocks, one scanner.** A tick launches at most one sweep, a sweep lasts minutes, an
  on-demand scan may hold the lock, the operator edits scope and schedules meanwhile, and a sweep
  may fail at any time. No sweep may come before its interval is over, none may be run and thrown
  away, and a changed scope must not be taken for swept.
* **Delayed writes and restarts.** The inventory is written up to 30 s later, alerts up to 10 s. A reload
  cancels neither a running sweep nor a pending write; a crash loses the write. What is announced
  or known must survive what the code says it survives, and nothing may be announced twice.
* **Observations and publishes are different things.** Coordinators publish on every tick, edit and
  registry change; only a new scan is an observation. Only a refresh that read something is one.
* **Partial answers.** A liveness sweep says nothing of ports, a scan cut short nothing of the hosts
  it did not reach, a lookup that failed nothing of its CVE, a bound that does not parse nothing of
  a version. None of them may be read as an absence.
* **Silence and absence.** A sweep of address space that is gone reports clean. Only complete sweeps in a
  row that looked at a target and found nothing may say so, and one that stands must go when it is no longer true.
* **Two waits, two refreshes.** A refresh of the agent waits for the inventory and again for the status;
  meanwhile the agent scans again, devices are registered, and a saved option may refresh beside it over the same
  ETag and cache. What is published must be of one answer, validated, and joined with what is known now.
* **A walk over a dict that changes.** An SSH pass waits at each host while scans add to, re-key and prune the very
  dict it iterates. What it did not try must not pass for tried, and its answers must not outlive the service.
* **Things found late.** Hosts and services turn up in any order, go, come back and are deleted; each is given its
  sensor once, and the first pass that can probe anything must not wait an interval spent on nothing.
* **Keys that change.** A host is keyed by its address until its MAC is learnt.
* **Limits.** Holds, windows and caps are re-read from options at every use.

`PROJECT.json` lists these hazards one by one at their lines, with the property that covers each or
the reason why none does.

## Modules

| Module | Models | Composed of |
|---|---|---|
| `Alerting` | `alerting.py`: policy, debouncer, held flag, limiter, as operators | |
| `AlertMonitor` | `alerts.py`: listeners, timer, saves, lifecycle, both flags | `Alerting` |
| `AlertPromise` | abstract: what one debounced flag promises, without counters | |
| `Inventory` | `scan/parse.py`, `store.py`, `join.py`: merge, re-key, prune, apply, reads | |
| `InventoryStore` | the store over time: scans, saves, restarts, crashes | `Inventory` |
| `LocalCoordinator` | `scan/coordinator.py` and `scanner.py` in local mode, per setup | |
| `Coverage` | `scan/coverage.py` and the scope and timeout of `scan/settings.py`, as operators | |
| `EmptyTargets` | the scope and schedule forms, coverage streaks and the repair over sweeps, setups and removal | `Coverage` |
| `EndpointDevices` | `scan/services_view.py`, `scan/ssh_probe.py`, the SSH pass, endpoint sensors and their deletion | `Inventory` |
| `Feeds` | `feeds/` and the part of `async_setup_entry` around it | |
| `Cpe` | `cve/cpe.py`, classification and asset discovery, as operators | |
| `CveCoordinator` | `cve/coordinator.py`: one refresh, a step per answer | `Cpe` |
| `AgentCoordinator` | `scan/api.py`, the agent's coordinator, the schedule switch; the agent as an environment | |
| `AlertMonitorProofs` | proofs about `AlertMonitor` | |
| `InventoryProofs` | proofs about `Inventory` and `InventoryStore` | |
| `LocalCoordinatorProofs` | proofs about `LocalCoordinator` | |
| `EndpointProofs` | proofs about `EndpointDevices` | |
| `EmptyTargetsProofs` | proofs about `Coverage` and `EmptyTargets` | |
| `FeedsProofs` | proofs about `Feeds` | |
| `CveProofs` | proofs about `Cpe` and `CveCoordinator` | |
| `AgentProofs` | proofs about `AgentCoordinator` | |
| `MC*` | values of the constants for TLC | |

In the modelling modules an operator named for a change to the one below it (`CountsEveryPublish`,
`StampedOnError`) is a deliberately wrong version that is used by nothing: replacing the right one by
it must make the property it is paired with in `PROJECT.json` fail.

### AlertMonitor

`mon[f]` is `_Flag` of the flag `f` with its timer and limiters, `disk[f]` its row in the alert file.
A publish is one action, because both listeners are callbacks without an `await`: `ScanLands` and
`RepublishScan` are `_on_scan` with a new and with an old stamp, `CveLands` and `RepublishCve` are
`_on_cve`. `Published` is the whole chain `_observe` runs: details and forgetting, count, events,
wanted state, hold, timer. `Start` reads both files, seeds the flags and makes the two initial publishes;
`Unload` writes before it returns, `Shutdown` flushes what is pending, `Crash` writes nothing. The
inventory is an arbitrary status per host at each scan, and its file may lag it. `hist` is
history: stamps counted, run lengths, events sent. The events of one observation are one step of the limiter
(`AllowEach`); the assumptions in `MCAlertMonitor`, which TLC evaluates before each of its runs, compare
it with the calls of `allow` one by one and its deque with everything sent in the hour, for pasts of up to three
events and caps of 1 to 3.

### Inventory and InventoryStore

A scan is a function from keys to sightings, whatever devices answer at whatever addresses with
their MAC shown or not. `ScanLands` is `apply_scan` as a whole: merge, re-key, prune, stamps,
and the write scheduled. Host names, vendors and operating systems follow the rule of ports and are left out, as
are IPv6-only hosts and the agent's address table, which the local scanner never passes.

### LocalCoordinator

Every setup is a generation `g` with a coordinator, a store and a lock of its own, because that is
what `async_setup_entry` makes and nothing cancels what an earlier one still runs. `Refresh` is one
`_async_update_data`: seed clocks, service sweep if due, else discovery if due, publish. The end of
a sweep is `FullSweepLands`, `CustomScanLands` or `SweepFails`, each with all that its path assigns
and publishes. `Remove` is `async_remove_scan_entry`: it deletes the file through a store of its own, which knows
nothing of the write the unloaded store has pending. Inventory is reduced to its stamps and set of hosts. Coverage
and its repair are `EmptyTargets`, the SSH pass is `EndpointDevices`.

### Coverage and EmptyTargets

A target's text is a constant's value: the span it names, or none for a host name. `Within` walks a cursor
over the exclusions as the code does, in an order of their first addresses; where two begin at the same address any
of the two orders is taken, and the answer is proved to be the same. In `EmptyTargets` the entry keeps what setup collected apart from the options
saved since, whose keys may be absent, because `resolve_settings` treats an absent and an emptied
list of exclusions differently and not so targets. `SaveScope` and `SaveSchedule` are the two form steps with
their merge. A sweep captures scope and budget as it starts and ends in `CompleteSweepEnds`, which is
coverage, streaks and repair at once, or in `ShortSweepEnds`, which changes none of them. When a sweep is due
is `LocalCoordinator`'s, so here one may start whenever the scanner is free. Whether a repair outlives the
process is Home Assistant's and left open.

### EndpointDevices

`store` is the inventory with `Inventory`'s own fold, and it is also what entities show, because the published view refers to
the store's dict and every change of it is published in the same step. `pass` is the SSH pass under way: where it
waits, the keys the walk has yet to reach, the size of the dict when it began. `ScanLands` changes the dict
under it (`Disturbed`). `ProbeAnswers` and `ProbeRaises` end one wait and walk on to the next candidate in any order of keys,
end the pass and publish, or, where the dict's size is another than at the start, end it with Python's `RuntimeError`, which
`_launch` logs. Keys exchanged at one size go unnoticed there; the walk may then reach any part of what is left.
`AddNewEndpoints` is the listener of `setup_scan_sensors`, part of every publish; the two sets `seen` and `seen_services`
of the code are one set of sensors. `DeleteDevice` is the registry's deletion after `async_remove_scan_device` agreed.
Its address stays a device's own here: what moving does is `InventoryStore`'s. When a sweep is due is
`LocalCoordinator`'s, so scans of any part of the network may land at any time. `hist` is history: what a pass should try and
has tried, what the last look at a device found, what was deleted.

### Feeds

A document is a sequence of entries, of which the date and what may name it are kept; a server answers with any document
and status or not in time. A round asks all feeds at once and is published when the last has answered (`Answers`).
`Setup` is the part of `async_setup_entry` before the feeds' first read; `ScannerIsReady` and `ScannerIsNotReady` are
what the rest of it comes to, the latter being a `ConfigEntryNotReady` after which Home Assistant begins again.
`data` is what entities show, `good` is `_last_good`.

### CveCoordinator

`job` is the refresh under way, and every wait of it ends in an action: `CatalogAnswers`,
`CatalogFails`, `LookupAnswers`, `LookupFails`, `LookupRefused`, `QueryAnswers`, `QueryFails`, or, for any of
them, `AnswerRaises`: an answer that is not the object the code reads ends the refresh and leaves what was published. What
runs after the last answer (tally, window, publish) is part of that answer's action. `EditRegistry`
changes devices between any two of them and `Reload` cancels the refresh, as the entry's background
tasks are. Lookups are made in any order, where the code sorts; the catalog's keyword
filter and 90-day cutoff are in the choice of what is listed. Severities, version conflicts, coverage
counts, `fixed_in` and overdue dates feed no count modelled here and are left out.

### AgentCoordinator

`task[r]` is one `_async_update_data` under way: it asks, the agent answers or the request fails, the answer is
received, and the same for the status. Answering and receiving are apart, because answers of two
refreshes may arrive in the other order. `Poll` stands for the refreshes Home Assistant runs one at a time (interval,
follow-up of a control, setup), `Editor` for those `_async_options_updated` starts directly beside it. The agent
numbers its results and the changes of its timer; each result is readable, unreadable or absent, so
what the client refused is known by its number. A failed refresh keeps its data and hides them (`Failed`). Who is
known is one value (`decided`) that a join reads. Asking for a scan leaves nothing in Home Assistant: results come when they come.

## Runs

| Run | Bounds | Shows |
|---|---|---|
| `alert_debounce` | 1 host, 4 scans, 2 starts, thresholds 1 to 3 edited at will, crashes | `AlertMonitor` implements `AlertPromise` for hosts; no finding announced twice; every clearing can be named |
| `alert_cve` | 1 host beside the CVE flag, 5 refreshes, 2 starts | the same promise for the CVE flag; a refresh that read nothing moves nothing |
| `alert_hold` | 1 host, 4 scans, hold 0 or 2, publishes in any number over time 0 to 2, retries over time 0 to 4 | the hold is kept, a deferral has its timer and its bound however often publishes repeat or withdraw it, and what stays wanted is shown in the end |
| `inventory` | 2 devices, 2 addresses, 1 port, 3 scans, time 3, stale after 1 | history kept, ports measured, no host with a MAC also under its present address, live endpoints |
| `local_coordinator` | 1 setup, 2 scopes, intervals 1 and 2, 1 on-demand scan | no scan thrown away, a scope swept is one nmap was given, the view current, a changed scope swept in the end |
| `local_reload` | 2 setups that may overlap, restarts, crashes, a removal | intervals kept, over restarts by the clocks on file; the file keeps its hosts unless setups overlapped |
| `empty_targets` | 3 networks and a host name in 3 scopes, 2 versions of addresses, 2 setups, 4 sweeps, repair after 2 | the repair names the targets silent in the last sweeps, no other; a sweep covers what was typed last and has time for it |
| `cve_refresh` | 2 CVEs, 3 products, 3 versions, 6 registries, 1 refresh and 1 reload, 50 NVD tables | verdicts sound, each listed CVE with its findings and no others, counts of one registry, a window count only when whole |
| `agent` | 2 results of 3 forms, 1 timer change, 1 failed request, 2 setups, 1 option refresh beside the poll | the ETag is of the inventory held; no inventory goes on that is older than the agent's when the client was last idle; the join is with what is known; without overlap nothing goes back; the view catches up |
| `endpoints` | 2 devices, one of which may hide its MAC, 1 port (ssh), 2 users, 3 scans, a pass each 2 over time 2, stale after 1, 1 restart | access shown is backed by the last look and the last pass; every find has its sensor, once; an interval is spent only by a pass that tried all it should, never by one with nothing to try |
| `feeds` | 2 feeds, 5 documents with dates alike, missing and unreadable | no sensor before its feed was asked; what is shown is what was last read, a number only if that was the last time; the key names the newest entry |
| `doc_unread_is_zero` | the bounds of `cve_refresh` | a place where the code does not do what its text says, below |

Why these are enough. A debounce needs one more scan than its highest threshold and a restart in
between; hosts do not interact in a debouncer, so one suffices there. Holds need a flip, a deferral and an
expiry: a hold of 2 that starts at time 0 ends at 2, while publishes still come, so they repeat and withdraw the deferral
and race its timer; only then is the clock left to the retries. The count of deferrals (`alerting.py:317`), which
decides nothing and only grows, is left out, or the number of publishes would have to be bounded. Re-keying needs two devices that swap one address. Two setups are the least that overlap,
and a third meets nothing a second does not. Four sweeps are two to raise a repair and two
to break or keep it, and the scopes have a target excluded in part and one excluded by two that adjoin. Nothing but whether a key was asked for outlives a
refresh, so one refresh and a reload cover what refreshes do to each other. The
endpoints' bounds let a scan land in a pass that has another host to reach, with a key more, fewer, or one exchanged for another (a
host whose MAC was hidden), which is all a walk can notice. Its ssh client
gets in or does not, since no property tells the other verdicts apart. One of the registries is of a phone alone, which
no table names but as a platform, so a listed CVE may also be about nothing installed. The
50 tables hold every range with at most one lower and one upper bound over the
versions before, at and after the installed one, written short and long, and unreadable. For the agent two results are an older and a newer, one failure meets
every point of a refresh, and one overlapping refresh crosses the poll both ways (three results with one setup were checked as well). Deadlock is off only where
bounds make the system stop (`alert_hold`, `empty_targets`, `cve_refresh`).

**Fairness.** `alert_hold` assumes that time passes and that a due timer fires (`WF` of `Tick` and
`Retry`): the event loop runs due callbacks. `local_coordinator` assumes that the coordinator is
refreshed (its update interval) and that a running sweep ends (`asyncio.wait_for` around nmap,
with a kill). `agent` assumes that Home Assistant polls (`UPDATE_INTERVAL`), that each step of a refresh
comes (the request timeout ends the rest: `RequestFails` and `StatusFails` are not fair and their
number is bounded, so a run of failures ends) and that the agent's unit consumes its marker; the agent need not scan.
`endpoints` assumes the coordinator's refresh and that a probe ends (`PROCESS_TIMEOUT` and a kill,
`scan/ssh_probe.py:222-231`); scans are bounded, so those that make the walk fail end too. Nothing is assumed of scans landing, writes or the operator.

## Proofs

All for any sets of hosts, devices, versions and registries, and any bounds, from the assumptions
named next to the constants (finiteness of sets that are counted, distinctness of markers, bounds
in order).

* **AlertMonitor.** `TypeCorrect` first, then `MonitorInvariant`, whose parts say, per flag: details
  cover confirmed keys in memory and on file; with no write pending memory and file
  agree; what was announced is confirmed, unsaved or lost; the timer is that of the hold of the last
  flip. No property is inductive alone: that no finding is announced twice
  needs what is on disk at the next start. Every action does one of six things to
  a flag (`StepOf`), and each conjunct is proved over those six. From it: `DeferredFlipHasTimer`,
  `DeferralIsBounded`, `HoldRespected`, `ClearedFindingHasDetail`, `NoSecondAnnouncement`, and `ConfirmedIsOnDisk`,
  which no run checks. `BurstWithinCap` is the limiter's: sent up to the cap, counted otherwise. A second
  invariant, `PromiseInv`, adds that a debouncer counts a finding in the one direction it may still move, and there what the
  history counts, and that the stamp a coordinator may publish again is the one its flag holds. With it every step maps to a
  step or a stutter of `AlertPromise`: `ImplementsHostPromise`, `ImplementsCvePromise`, and `OnlyAReadingMovesCve`.
* **InventoryStore.** `Sound` of memory and file: records typed and under their own key, stamps in
  order and none after now. Folding is a merge, a re-key and a prune, each shown to keep it. The key
  condition is what makes a re-key retire only records without a MAC. Beside it, of memory and file, `AddressIsNotTheHost`: a record
  under the present address of a host with a MAC is of no earlier sighting, because each fold retires the address of every host it
  shows (`FoldLeavesNoDouble`). From them: all four properties of the run `inventory`, `PortsHaveTheirAge` (no run checks it) and
  `UnknownUntilForgotten`, which says what the join does with hosts that left.
* **LocalCoordinator.** Three invariants side by side. `Typed`: types, and no stamp after now. `Heard`: the scope the
  coordinator takes for swept is that of the last full sweep, a sweep runs only once the clocks are seeded, and a seeded
  clock is no older than the last try the history knows. `Filed`: unless two setups overlapped only the current one writes
  and the file holds no host its store lacks. From them: every safety
  property of `local_coordinator` and `local_reload`. Without seeding before the first sweep an interval would start anew
  at each restart; without the account of who may still write, an older setup's file could replace a newer one.
  `SweepsKeepTheirInterval` is about what a setup knows: its own tries, and before the first of them the scans on file.
  A sweep that failed, was not yet written or is still running when the setup ends may be followed by another at once.
* **EndpointDevices.** Three invariants over one store whose hosts stay typed and under their own key (`FoldIsKept`): `Shown` (what is published is in
  `seen`, which is the sensors and what was deleted), `Looked` (a record's ports are those of the last look at that
  device since it was recorded) and `Walked` (what has offered ssh throughout is tried, being tried or
  ahead of the walk, until a key changes). The last needs that a candidate's key is its MAC. From them: all safety properties
  of `endpoints`.
* **Cpe and CveCoordinator.** Versions are ordered (`VersionsCompare`, `NewerIsTransitive`), an accepted risk wins
  (`AcceptedRiskWins`), the rollup is the worst verdict. The invariant follows a report:
  its findings are those of the lookups made (`Joined`), which are about the CVE looked up and what it names (`FindingsName`), its counts taken when none is left
  (`Tallied`), its window the queries of its own registry (`Asked`). The count is then that of the exposed pairs by a
  bijection from pairs to affected findings. From it: all properties of `cve_refresh`.
* **Coverage and EmptyTargets.** That the entry resolves to the scope typed last is inductive (`ScopeStored`): the scope form
  writes both keys and the schedule form neither. From it: `ScopeIsAsTyped`. With it `TimeoutStored` is inductive (a timeout
  that is stored is one that was typed), so a sweep is given that or what the scope stored needs, up to the cap. The sum of the spans' sizes,
  which the code takes, is no less than the number of addresses they name (`SumCoversNames`), hence `BudgetCoversScope`. `EmptyMeansSilent` says that the
  code's walk finds exactly the targets that were asked and silent: before each span the cursor is past no address the walk has
  not accounted for (`Progress`), for every order of the spans the code's sort may return. `RepairIsCurrent` follows from it and from `Repaired`,
  a streak reaches k exactly where each of the last k answers was silent.
* **Feeds.** `latest_entry_key` names the first of the newest readable entries (`LatestKeyIsTheNewest`): the pass has the
  newest of what it has seen. `FeedInv` keeps apart the round under way, whose records are those the answers so far leave
  (`Recorded`), the record kept for a feed that will fail, which is of the document read last or none (`Backed`), and the round
  published (`Published`). What is shown depends on what was kept when the answer came, and that only on the answers of earlier rounds:
  without `Backed` neither `ShownIsLastRead` nor `LatestNamesTheNewest` survives the next failure. From it: all
  properties of `feeds`.
* **AgentCoordinator.** `Crossing` is inductive: every answer on its way is no older than its request's floor, the
  cache holds a validated result and a tag only of that, and a "not modified" on its way is of a tag that is still
  safe to serve. From it: `TagNamesTheCache`, `NoOlderThanAsked`, `DecisionsAreJoined`. `NeverGoesBack` needs that without
  overlap at most one refresh is under way and the view is no newer than it (`InTurn`).

Three results are about data of any length: the sum over the spans, the walk over the exclusions, the pass over the entries of a
feed. Each is a recursive function, and the library's induction theorems cannot be instantiated here. Instead the proof shows
that the function exists (`FoldExists`, `PassExists`: it extends by one element) and takes a least counterexample, which the library's
well-foundedness of numbers and of finite sets gives (`LeastNumber`, `SmallestSubset`; `Climb` is the form the walks use).

Only model-checked, because liveness is out of the prover's reach: `DeferredFlipLands`, `ChangedScopeIsSwept`, `ViewCatchesUp`,
`FirstPassComes`. Every other property of a passing run is a theorem.

## Where the code and its text differ

Shown by a run or a proof:

* An actionable count may be a number though a lookup failed, so zero may mean not measured
  (`doc_unread_is_zero`; `cve/coordinator.py:404` against `31-34`).
* A host that left stays an unknown host until it is pruned, and with `stale_days` 0 for good: nothing sets a status to
  anything but up (`UnknownUntilForgotten`), where `scan/join.py:136-142` says "NOT LIVE, NOT LISTED as unknown".

Met while reading, without a run:

* A scan is counted again after a shutdown and start when it confirmed nothing, since the stamp of the last counted
  scan is saved only with a transition or an unload (`alerts.py:278-279`), where `alerts.py:26-35` says that one observation is one scan and
  that the stamp is persisted.
* A host that left keeps its entities available until it is pruned: `available` asks `endpoints`, which is the whole
  persisted inventory. `scan/entity.py:143-148`, `scan/__init__.py:233-235` and `README.md:107-112` say that they go unavailable.
* A deleted device that joins again gets no sensors until the entry is reloaded, because `seen` outlives the deletion
  (`scan/entities.py:319`), where `scan/entities.py:298-300` says a host that joins must get entities without a reload; and one that
  has not come back reappears at the next reload, because its record is still stored, where
  `scan/__init__.py:235-236` leaves the decision to forget to the operator.
* A service sensor is "never removed, even when the service closes" (`scan/entities.py:371-374`); after a restart
  only services open now get one.
* A write or a sweep that outlives the unload writes the inventory again after removal deleted it (`scan/store.py:117`,
  `scan/__init__.py:213`). `LocalCoordinator` shows the behaviour; no property covers it, since without such a write or sweep
  nothing but the deletion is left to state.
* A liveness sweep that learns a host's MAC drops the ports measured under its address and their age: the new record is stored as
  one never scanned, and of the old one only `first_seen` is carried over (`scan/parse.py:239-249`), where `scan/parse.py:167-171` says the
  previous observation is carried forward and `:244` "The identity changed; the history did not". `PortsAreMeasured` says so.
* A host stored without its MAC at one address and seen with it at another stays in the inventory twice until the older record is
  stale, since only the present address is looked up (`scan/parse.py:242`), where `scan/parse.py:234-236` says that without
  the retirement each enriched host would. `EnrichedHostIsThereOnce` is about the present address alone.
* A body that is JSON but no object makes a CVE refresh raise (`cve/coordinator.py:276`, `:282`, `:316`), whatever was
  already read, though `cve/coordinator.py:248-249` makes a failure of a fetch a value and not an exception (`AnswerRaises`).
* A scan that changes the dict's size ends an SSH pass with a `RuntimeError`, and what it found so far is lost; one that
  exchanges keys lets the pass go on, and hosts may be passed over (`scan/coordinator.py:651`). `SpentIntervalTriedAll` excepts the second.
* An SSH answer is stored under the MAC whose address was read before the wait (`scan/coordinator.py:652-664`): a device that takes
  that address meanwhile answers for it. `EndpointDevices` keeps addresses fixed and does not show it.
* A custom scan of one host with ports stamps the clocks of the estate's sweeps (`scan/coordinator.py:813`, `scan/store.py:109-111`), which
  a restart then seeds from: a sweep of the network is put off by a scan of one host.
* After a reload two sweeps run at once, each setup having a lock of its own and nothing cancelling a sweep,
  where `scan/scanner.py:10-14` says one scan at a time, estate-wide.
* For the same reason a sweep that outlives its entry may raise the repair that removal has just deleted
  (`scan/coordinator.py:749` against `scan/__init__.py:214-217`); `RepairIsCurrent` excepts it.
* A service sweep asks nmap for hosts with open ports only (`scan/options.py:153`) and is counted by coverage like any other, so with
  discovery switched off a subnet of live hosts without open ports is reported as answering nothing.
* An acknowledged host is forgotten in memory and nothing is saved (`alerts.py:221`), so after a stop the
  file brings it back as confirmed and its leaving is announced; `docs/automations.md:56-57` says "forgotten,
  never cleared".
* A restored entry with no scan has stamp 0, which is counted as an observation of nobody
  (`scan/coordinator.py:913-917` against `alerts.py:268-269`).
* A CVE flag that was up before a restart stays down until a refresh reads something, though its confirmed findings were
  restored (`alerts.py:233-235`), where `alerts.py:36-37` says it comes up again.
* A cleared event does not mean a host left: being registered elsewhere clears it too (`alerts.py:16-17`).
* `deferred` counts proposals and not changes (`alerting.py:316-318` against `25-29`).
* A fix may be named that is older than the version installed: 5.16.3 with ranges below 4.9.301 and from 5.16
  to 5.16.6 gets 4.9.301 (`cve/cpe.py:161-184`).
* A refused key met only by the window sweep asks for no new key (`cve/coordinator.py:532-535` against `36-37`).
* A bound missed before an unreadable one settles a range as out (`cve/cpe.py:118-124`), where
  `docs/cyber_estate.md:294` says the verdict is unknown. By `VerdictsAreSound` the code's answer is right.
* A new device at the address of an older one without a MAC inherits its first sighting
  (`scan/parse.py:244`); a reload in the 30 s before a write may lose a host, where
  `scan/store.py:20-22` speaks of a timestamp.
* The status cannot fail a refresh, says `scan/coordinator.py:329-331`, but `async_get_status` catches only
  `CannotConnect` (`scan/api.py:218-222`): a token rejected between the two requests takes the data down with it.
* An option saved while a poll waits refreshes beside it (`__init__.py:84-85`). If the poll, with the older answer, ends
  last, the older inventory replaces the newer in view and cache until the next poll, up to ten minutes later.
  `NeverGoesBack` excepts overlapping refreshes for that reason alone; TLC finds the exchange when the exception is dropped. In the
  same way a "not modified" may be served from a cache that an overlapping refresh has set back since the request (`scan/api.py:120-124`), so
  that what is returned is older than what was known when it was asked for: `NoOlderThanAsked` is bounded by what the agent
  had when the client was last idle.

## What is left

Written in this order: the alert monitor, the inventory, the local coordinator, the CVE coordinator, coverage, the agent
client, endpoints (which puts the SSH pass, the sensors and the inventory's own fold in one machine), feeds. What would come
next, and why it is not here:

* **A CVE refresh driving the CVE flag** in one machine. `AlertMonitor`'s CVE refreshes already bring any reading, unread ones
  included, so `ImplementsCvePromise` covers what the flag does with them; the composition would add which lookups fail.
* **Proofs of the liveness properties**: the prover has neither fairness nor ENABLED.

Not modelled: the setup, reconfigure and reauth forms of the config flow (they validate and store what the models take as
input), the census of services, rollup sensors and attributes (they project data the models hold), the `scan` service's argument
checks, XML, RSS and JSON field extraction, nmap's argument vector beyond what decides which hosts are reported, severities, fix
versions and report text in `cve/`, brand and tools.
