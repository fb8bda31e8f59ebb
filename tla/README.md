# GeneratorPi in TLA+

A verification project for [GeneratorPi](https://github.com/mrchrisneal/generatorpi), a Flask
application on a Raspberry Pi that starts and stops a Powermate PM9400E generator through one
relay wired across its only button. It tracks what it believes about the engine (it has no
sensor), estimates the fuel, keeps an event log, pushes notifications and updates itself.

Everything is translated from the code under `genpi/`; paths below are relative to the
repository. `PROJECT.json` maps each definition to the lines it models.

## 1. The system

### Components

| Component | State it keeps | Operations | What makes it correct |
|---|---|---|---|
| Relay and control (`relay.py`, `control.py`, handlers in `routes/core.py`) | the pin, `relay_lock`, `generator_state` | start sequence (in a spawned worker), stop (in the request thread), manual override, factory reset | one sequence drives the button; the button comes up on every path; the lock is always given back; a completed sequence pressed exactly as often as it should; the flag follows completed sequences and overrides |
| Tracked state (`state.py`) and fuel model (`fuel.py`) | odometer, start of the current run, fuel baseline, alert settings; copies in the `kv` table | running transition, odometer correction, fill, reading, rate, alerts, load at boot | the odometer is the run-time; the gauge is the run-time since the fill; the table follows memory |
| Low-fuel alert (`fuel.py`) | `_low_fuel_alerted` | monitor tick, re-arm | one push per crossing, and a send tried for every crossing |
| Event store (`store.py`) | SQLite tables `events`, `kv` behind one connection and `_event_lock` | record and trim, page, kv | bounded, without holes, and a polling client comes to see the newest event |
| Web push (`store.py`, `routes/push.py`) | the table `subscriptions`, threads that send | upsert with a cap, remove, send and prune | bounded; a live browser's row goes only as the oldest of a full table |
| Self-updater (`updater.py`, `routes/update.py`) | `_update_state`, the decision event and choice, staging, backups, result marker | start, stages 1 and 2, gates, decide, rollback, promotion, acknowledge; a generated bootstrap script under systemd | nothing live changes without consent and a backup; an update that fails leaves nothing behind; success is reported only for a complete release; it ends |
| Lifecycle (`lifecycle.py`, `main()`) | server handle, `_RESTART_REQUESTED` | serve, restart by `execv`, cleanup | ends and starts leave the relay released |
| Rate limiter and auth (`ratelimit.py`, `auth.py`, `app.py`) | `_fail_tracker` | check, verify, count, lock out, expire, evict, purge | a running lockout holds; attempts and the map are bounded, however requests overlap |
| Browser client (`frontend/app.js`) | poll queue, cursors and rows of the log panel | enqueue, coalesce, age, drain; initial, delta and older pages; switch of views | no poller starves; a panel left alone catches up |
| Configuration, TLS, system monitor, logging, UI | files, caches | read, parse, render | I/O, not modelled (section 7) |
| Command-line updater (`update.sh`, `do_install` of `setup.sh`) | the checkout, `STOPPED`, `MUTATED`, the unit | fetch, back up, stop, reset, set up, probe, roll back, exit trap | success is the release as served, a rollback what was there before, and the service is left started |
| `dev.sh`, `tools/` | | develop, watch | offline, not modelled |

### How they interact

Requests run in a pool of server threads. A start request only looks at `relay_lock` and spawns
a worker that acquires it; a stop runs in its request thread. Four locks guard the shared state:
`relay_lock` spans whole sequences with their sleeps, `state_lock` guards the tracked state,
`_event_lock` every SQLite operation, `_update_lock` the updater's progress. The only nesting is
`state_lock`, then `_event_lock`. Three daemon threads run beside the requests: the fuel monitor,
the update checker and, during an update, the update worker, which blocks on a
`threading.Event` that request threads set. A restart replaces the image with `execv` from the
main thread while all other threads are wherever they are; systemd restarts the process
otherwise. What survives is the SQLite file, the result marker, the backups and the live files.

### What is hard

The same button is driven by threads that come and go, with sleeps inside the critical section;
the process may be replaced inside a press. Values in memory and in the table are written in
sections of different locks. The clock the odometer trusts is corrected by NTP. The updater's
event is set and cleared outside the lock that guards what it announces, its worker may be
parked for ten minutes, and the program replaces its own files, one by one, without a journal.
The shell updater may be interrupted between a command's effect and the flag that notes it. The
limiter's verifications take seconds and overlap its lockouts. The browser's answers arrive after
the panel they were asked for has changed, over a link that loses them.
`PROJECT.json` lists each hazard at its line with the properties that cover it.

## 2. The modules

| Module | Models | Kind |
|---|---|---|
| `OneTouch` | what relay control promises to the engine: sessions, presses, the flag; no locks, no threads | abstract specification |
| `RelayControl` | `relay.py`, `control.py`, the handlers that reach them, every end and start of the process | component, refines `OneTouch` |
| `RelayControl_proofs` | inductive invariant and theorems | proofs |
| `TrackedState`, `MC_TrackedState` | `state.py`, the mutators of `fuel.py`, `kv_get`/`kv_set`, factory reset, clock corrections, restart | component, and its instances for TLC |
| `TrackedState_proofs` | inductive invariants and theorems | proofs |
| `UpdateGate` | `_await_decision`, start and decide handlers, the stages as success or failure | component |
| `AtomicUpdate` | what the updater promises of the installation: an update takes effect at one instant and completely, or not at all; no files, gates or backups | abstract specification |
| `UpdateApply` | `UpdateGate` with the files: staging, backup, swap, verification, rollback, result marker, loss of the process | composition, refines `UpdateGate` and `AtomicUpdate` |
| `UpdateApply_proofs` | the inductive invariants of the gate and of the files, the two refinements, theorems | proofs |
| `UpdateBootstrap` | the script `_write_bootstrap_script` generates: swap, restart, health poll, exit trap, rollback, watchdog | component |
| `UpdateBootstrap_proofs` | inductive invariant and theorems | proofs |
| `UpdateSh` | `update.sh`, with `setup.sh` as it runs it | component |
| `UpdateSh_proofs` | inductive invariant and theorems | proofs |
| `EventStore` | the table `events`: record and trim, the wipe, pages by cursor | component |
| `PollQueue` | `pollFetch` and `_drainPollQ` of `frontend/app.js` | component |
| `EventFeed` | the EVENT LOG panel: a browser's queue and cursors over the event store | composition of `EventStore` and `PollQueue` |
| `EventFeed_proofs` | the table's and the queue's invariants, in the composition | proofs |
| `Subscriptions` | the table `subscriptions`, the browsers, the threads of `send_push` | component |
| `LowFuelAlert` | `evaluate_low_fuel`, its flag and what moves the level, pushing to the subscriptions | composition with `Subscriptions` |
| `LowFuelAlert_proofs` | inductive invariants of the flag and of the table, lemmas about the table as a sequence, theorems | proofs |
| `RateLimiter` | `ratelimit.py` around `auth_required` | component |
| `RateLimiter_proofs` | inductive invariant and theorems | proofs |

### Correspondence

**RelayControl.** A thread's `pc` names the next critical section of `api_start`,
`start_generator`, `stop_generator` or an override: `acquire` (`control.py:41`), `check` (47-54),
`announce` (62), `press` and `held` (`relay.py:40` and the sleep before 51), `commit`
(`control.py:95`), `record` (105), `release` (116). `state_lock` sections are single steps, so it
is not a variable; `relay_lock` is. A retry is two more presses, so `MaxStartRetries` only
decides how many (`PressesOf`). `CloseDevice` is `main()`'s `finally`, after which daemon threads
still run and `on()` raises; `Exit` is any loss of the image, after which the pin keeps its level
or drops, whatever the platform does; `Boot` is the import of `relay.py`, which makes the device
released. `events` is the durable log: `Record` appends or drops, since `record_event` never raises
and swallows what SQLite refuses. `serial` is history: it numbers the request a thread serves, so that an
event in the log can be told from another request's.

**TrackedState.** Hours are whole ticks; `wall` is `time.time()`, `Tick` lets it pass and
`ClockStep` corrects it. Every mutator is one step under `state_lock`, except that
`set_total_run_hours` makes two kv commits (`SetTotalRunHours`, `FinishSetTotal`), between which
`setting` holds the lock. `factory_reset` is two steps (`ResetStore`, `ResetMemory`) because it
takes two locks. Levels and rates are opaque; what a reading does to the rate (a blend of two
estimates) is left open. `KvSet` and `KvGet` may fail as `kv_set` and `kv_get` do, which only log: a failed
write keeps the old row, a failed read gives the default. `engine_hours` and `burned` are history
variables: they count run-time independently of the code's arithmetic, and the properties compare the two.

**UpdateGate.** `worker` is the update thread, `posting` the request threads between releasing
`_update_lock` and `event.set()` (`routes/update.py:101`). `Park`, `Clear`, `Wake` or `TimeOut`
and `Read` are `_await_decision` in order. The working phases are one value. `approved` is a
history variable: an operator said PROCEED at the staged gate of the current run.

**UpdateApply.** File contents are `old`, `new`, `bad` or `absent`; files the release adds are
absent before it. The in-process path is modelled; `_swap`'s `os.replace` makes one file one
step, the extraction of a backed-up file is not atomic, and a rollback stops at the first
exception, which may leave the file at hand cut short. `WriteUpdateResult` is the marker; the worker only
writes "restarting". The mapping to `AtomicUpdate` is at the end of the module: what a worker has touched does not count until it is
done (`Found`), and `Stage` reads its progress off the worker, the phase and `swapped`. Two things
the code does not survive are steps of the abstract specification, so that it promises nothing it
cannot keep: `Tear`, a rollback that the storage fails, and `Die` while files are exchanged.
What starting a set of files does is external: the old set serves, the new one does
whatever the release does (`release`), a mixed one anything.

**UpdateBootstrap.** The systemd path, after the same go/no-go. A run has a main script and a
watchdog, each with a `pc` over the commands of the generated body: `swap` (`updater.py:728`),
`restart` (730), `health` (732), `finish` (736-737), `cancel` (738), `report` (739-740), and
`restore`, `revive`, `confirm` for `rollback()` (699-706), which the `EXIT` trap and the watchdog
share; a rollback process whose shell is killed goes on as an `orphan`. `CopyFails` is what bash
does with `( set -e ... ) || exit 1`: `set -e` has no effect there, so only the last file's status
counts. `DONE_FLAG` and the staging directory are shared by all runs, as in the code. A file's
content is the run that wrote it, or `Torn` where a restore failed on it; `works` says which releases serve,
and a mixed set does anything. Any command of either script that touches the files or systemd may hang
(`Hang`), the watchdog's restore and restart included. A restore passes over an added file it cannot remove
(`RestoreSkips`) and stops at an exception (`RestoreBreaks`), and the script goes on in both cases, because it
does not look. `missed`, `unrestored` and `spoiled` are history: copies that failed, files a restore failed on
or did not get to, and scripts whose files another script, a new download or a loss of power reached while
they ran.

**UpdateSh.** `pc` is the command the script is at: `prepare` (`update.sh:172-231`, which dies
without a trace), `stop` (235), `reset` (239), `check` (242), `setup` (247), `probe` (250), and in
`do_rollback` `revert` (155), `resetup` (156), `restart` (158), `reprobe` (160). `StopTakes` and
`StopReturns` are apart because an interrupt may fall between a command's effect and the flag set
after it; a reset writes file by file. A tree says of each file whose content it has; `setup` and
`loaded` are the trees the last setup and the running service were made from. `Interrupt` is what
bash does on a signal: the trap sees as `$?` the status of the last command that ended, which
bash 5.2 confirms. `found` and `flawed` are history. A previous commit that no longer resolves, and a
`systemctl start` without effect (its status is ignored, lines 158 and 164), are not modelled: the start job
counts as accepted, and a service that does not come up from it is one that does not answer.

**EventStore, PollQueue, EventFeed.** A row is its `seq`, and a page a set of rows: its order is that of the
numbers. The queue is in the order of queuing, and a job counts the ticks it has waited, `IntervalTicks` to a
refresh interval. `Level` is the effective priority the scan of `_drainPollQ` computes, one less for each full
interval the job has itself waited; so each job gains its levels at its own moments, which of two is the more
urgent changes while they wait, and `MostUrgent` decides when a job is sent. `Pause` is any of the things that
block all polls but the state. The browser's clock is taken to run forward. `PollFetch` replaces the path of a job of the
same key in place, as `pollFetch` does. An answer meets the panel as it is when it arrives (`PollAnswered`,
`OlderAnswered`); a request that fails or is aborted before an answer settles without effect (`PollLost`); an
error, or an answer cut off in its body, is `{}` and is painted as a page without rows (`PollFailed`). Of the
panel the model keeps `top`, the event at its top. `blanked` is history: such a page has emptied the panel, and
nothing newer has come since. Cursor 0 is JavaScript's falsy `newestSeq`.

**Subscriptions, LowFuelAlert.** The table is a sequence by `created_ts`; a new row goes in
anywhere, because `time.time()` on the Pi may have been set back. An insert or a delete that fails is swallowed,
as is a read, after which `send_push` gives up like one with a bad key (`PushGivesUp`); without push support no
thread is started. An endpoint belongs to a
browser and is dead for ever once dropped; the push service answers 404 or 410 for such, and
anything may fail. Endpoints are ones `_push_endpoint_error` accepts. In `LowFuelAlert` the level
burns while running and moves freely otherwise: the odometer's arithmetic is `TrackedState`'s.
`Crossing` is the locked part of `evaluate_low_fuel`, `PushLowFuel` what follows it. `rearmed`
and `owed` are history: a cause to alert again, and to whom a fill has made a send due.

**RateLimiter.** An entry holds its age and what is left of its lockout instead of two instants of
`time.monotonic()`. `Arrive` is the check before the credentials are verified, `Accept` and
`Reject` the outcome recorded after it; in between the request holds no lock. Ages beyond the
cleanup's interval are not told apart.

## 3. The runs

| Run | Result | What it shows |
|---|---|---|
| `Relay` | passes | Mutual exclusion, press counts, the button following the lock holder, start and completion paired in the log where it has both, refinement of `OneTouch`; the lock always comes free, and while somebody starts the process again the button always comes up |
| `TrackedHours` | passes | On a steady clock, odometer and gauge equal the independent counts across overrides, corrections, fills and a restart, and the table agrees with memory |
| `TrackedClock` | passes | With the clock stepping both ways, failing kv writes, a reset and a restart: nothing becomes negative, banked hours do not shrink by themselves, a correction moves odometer and fill mark together |
| `UpdateApply` | passes | Consent, refusal, one update at a time, all-or-nothing, backup before touch; every update ends; refinement of `UpdateGate`, and of `AtomicUpdate`: the release takes effect at the restart, at once and whole, and success is claimed only over it |
| `Bootstrap` | passes | Success is reported over the release in every file whose copy worked; "rolled back", by a script or by its watchdog, over what was installed, but for the files its restore failed on, and a service that answers; if the watchdog's own commands return, the update ends whatever hangs in its main script, and a release that does not serve does not take the service away for good |
| `SwapSkipped` | violated | "An EXIT trap rolls back on ANY non-success exit -- swap error, ..." (`updater.py:625`): a copy that fails before the last one is skipped, and success is reported |
| `WatchdogLate` | violated | "If the whole apply isn't done within 10 min ... force a rollback" (`updater.py:715-717`): the watchdog of a run that failed rolls back the retry that succeeded |
| `Feed` | passes | The table is exactly the newest rows since some point, whatever the trimming and a factory reset; an event poll is sent however often the state is polled, and one that has aged is not overtaken by what is queued later; a panel left on its events comes to show the newest one, over a link that loses answers, unless an error has blanked it |
| `Alerts` | passes | One push per crossing, none without a cause; for a crossing that lasts a send is tried to every browser whose row was there at the fill and stayed, unless the push as a whole gives up; the table is bounded, and neither pruning nor a re-subscription takes a live browser's row |
| `Limiter` | passes | The map is bounded with every eviction reached; failures exceed the limit by less than the threads; a running lockout ends early only by a success or an eviction |
| `UpdateSh` | passes | exit 0 over the release as served, "Rolled back" over what was there, the service started at the end of every run that comes to its end, also after a run that was killed or interrupted |
| `UpdateShSignal` | violated | "Final safety net: never leave the service stopped on an abnormal exit (e.g. a SIGINT mid-run ...)" (`update.sh:70-71`): an interrupt after a command that succeeded, or before `STOPPED=true`, leaves it stopped |

### Divergences seen and not run

The models have these behaviours; each is left out of the property named, or below its promise.

* A re-exec during a press ends the process with the relay energised until the next import of
  `relay.py` releases it, though its header (`relay.py:9-10`) says it is released on every exit
  path. After a `systemctl stop`, or on a host
  without the unit, nobody need start it: `ButtonComesUp` holds of a process that is up again and again.
* `record_event` drops what it cannot write (`store.py:151-181`), so a `start_complete` may stand in the log
  without its start, behind another sequence's events. `StartsArePaired` is about those that have both.
* A fill during a run stores a mark ahead of the banked odometer (`fuel.py:187`); after a crash the
  gauge stands still until the odometer has caught up. `GaugeIsBurn` excludes runs a restart forgot.
* A fuel mutator between the two halves of `factory_reset` (`routes/core.py:498`) leaves its row in
  the emptied table. `KvAgrees` is checked without resets.
* `event.clear()` after the gate has opened (`updater.py:216`) erases an answer accepted in between:
  ten minutes later the update is reverted. Safe, so only `UpdateEnds` speaks of it.
* The marker says success while the import of the release may still fail (`updater.py:1043`).
  What is checked of it is about the files.
* `_rollback` in the process stops at the first exception, and the log still says that no changes were applied
  (`updater.py:609`). `FailedLeavesNothing` excludes such a run, `AtomicUpdate` has it as `Tear`.
* The generated `rollback()` does not look whether its restore worked (`updater.py:699-706`): it restarts, and
  where a mixed set answers it reports "rolled back to the previous version", though lines 627-628 say that it
  records whether recovery itself succeeded. `RolledBackIsRestored` excludes the files the restore failed on.
* The watchdog is there so that an update shall "never hang indefinitely" (`updater.py:715-717`), but its own
  restore and `systemctl restart` (701-702) have no timeout and may hang on the same mount or systemd.
  `UpdateEnds` and `ServiceComesBack` assume that they return (`WatchdogGoesOn`).
* An error answer becomes `{}` (`frontend/app.js:108`), so an error for an initial page clears the panel (272)
  while `newestSeq` stays: what was shown does not come back until a newer event is recorded or the view is switched.
  `CatchesUp` excludes a panel that was blanked when it held the newest event.
* "Whatever has waited long enough ages to the front" (`frontend/app.js:94`): two jobs gain their levels at
  different moments, so of two that wait together either may lead. `NoOvertaking` is about jobs queued after one has
  aged. `EveryJobSent` holds of all.
* A failed insert or read of the subscriptions is only logged (`store.py:328-329, 358-360`), a send that fails is
  not repeated, and the flag is up by then (`fuel.py:90`): a browser need not be told. `EveryCrossingIsSent` is about
  the attempt.
* A delta poll queued while another is in flight carries the cursor of before its answer, and rows
  are painted twice (`frontend/app.js:274`), though line 273 says that it pulls only events after the newest
  held; the answer to `loadOlderEvents` is painted without
  the guard on `logView` that line 269 claims for every render. `CatchesUp` holds all the same.
* A reset that fails midway leaves a mixed tree with `MUTATED` still false (`update.sh:239`), so
  the rollback only starts the service, though lines 32-35 promise the previous commit.
  `RolledBackIsRestored` excludes such a run.

### Bounds, and why they are enough

* `Relay`: two threads are enough for every overlap of two sequences, and a third request lets a
  worker arrive after a sequence ended and another began; two attempts give a loop with an inner
  iteration, a first and a last. No symmetry: liveness is checked.
* `TrackedHours`: four ticks allow two runs with a correction or fill before, during and after
  either; odometer settings of 0, 1 and 3 lie below, at and above the run-hours. `TrackedClock`:
  steps of -1 and +2 move the clock before the start of a run and beyond it. The two runs split
  the question because under clock corrections the odometer is NOT the run-time.
* `UpdateApply`: two clients make one late `event.set()` and one answer in time; three answers
  cover a gate of each kind in one update; a second update meets what the first left behind. One
  file kept and one added give every mixed set. The theorems below lift the bounds.
* `Bootstrap`: one update has its two scripts to interleave; three files, the first of them added by the release,
  give a failed copy, restore or kill before, between and after others. `WatchdogLate` takes two updates of one file, the
  least in which a watchdog can outlive its run; `SwapSkipped` two files, the least in which one
  copy is not the last.
* `UpdateSh`: two files make a mixed tree, two runs let the second start from what the first left
  in any of its states; `UpdateShSignal` needs one file and one run.
* `Feed`: three events for a table of two and pages of one trim rows, leave rows out of a page and
  make a burst longer than a page. State and events are the pollers, since the log tail and the history are queued
  by the same code and paint nothing of the panel (with them the run takes too long; the theorems are for any
  pollers); two ticks to an interval let two jobs age at different moments, and four let a job of priority 1 age past 0.
* `Alerts`: three browsers for two rows evict; three levels, two thresholds and a margin of one put
  a level below, inside and above the hysteresis; one push at a time, whose sends run in any order.
* `Limiter`: three clients for two entries evict; a limit of two and two threads overrun it; the
  lockout is shorter than the cleanup's interval, as in the configuration (300 s, 600 s).

### Fairness

`RelayControl`: weak fairness of each thread's steps (the interpreter schedules every runnable
thread; all sleeps are finite). Nothing is assumed of requests, `CloseDevice`, `Exit` or `Boot`: after a
`systemctl stop`, or without the unit, nothing starts the process again, so `ButtonComesUp` says of itself
that the process is up again and again.
`UpdateGate`/`UpdateApply`: weak fairness of the worker's steps as a whole; its only wait is
`event.wait(600)` and every network call has a timeout. Answers and `event.set()` are not fair.
`UpdateBootstrap`: weak fairness of each script's steps, except in a command that hangs, which may
stay hung for ever, in either script; of the watchdog, whose wait is `sleep 600`; and of systemd starting a service
that is down. Time is abstracted to this: a watchdog wakes once its main script has ended or has
been hung.
`EventFeed`: weak fairness of the timer's refresh with the panel at its top, of the passing of time, and of a
request's end (each is aborted when its time is up); strong fairness of an answered event poll: a
link that is tried for ever answers for ever, or the panel could show nothing at all. Scrolling,
switching, events and resets are not fair. `CatchesUp` assumes that the user leaves the panel on
its events and that no update dialog stays open, both in its statement.
`LowFuelAlert`: weak fairness of the monitor's crossing (it looks every `FUEL_MONITOR_SECONDS`),
of the push that follows, and of the sending thread, each of whose sends has a timeout; whether a
send succeeds is open. `RateLimiter` and `UpdateSh` have safety properties only.

Deadlock is checked in every run but `UpdateSh`, where an interrupted last run may leave a stopped
service behind: elsewhere a process, the service or the Pi can always end or start again, a request
or a poll can always come, and in `TrackedState` some mutator can always run.

## 4. What is proved

By TLAPS, for every value of the constants, from the assumptions stated beside them
(`NoThread` is no thread, at least one start attempt, added files are files).

*Relay control* (`RelayControl_proofs`). `IInv` joins the types, `LockDiscipline`,
`ButtonFollowsHolder`, `SequenceFits` and `NothingOutlives`. None is inductive alone: bounding
`presses` needs to know what a thread at `press` has left, the button needs to know that the
lock holder is the only thread at `held`, and that needs the lock discipline. From it follow
`TypeCorrect`, `MutualExclusion`, `ButtonSafety`, `PressCounts`, `CleanEnd`, and `Refinement`: each step is
a step of `OneTouch` or a stutter under the mapping at the end of `RelayControl`. `PairedLog` is
about the whole log, whatever it drops: `PairInv` says that two busy threads serve different requests, that a
request still before its announcement has no event of a sequence, and that from its announcement to its end no
control event follows its `start`, since only the holder of the lock writes those.

*Tracked state* (`TrackedState_proofs`). `TypeCorrect` and the two action properties
(`HoursBanked`, `CorrectionExact`) hold on any clock and with failing writes. `Odometer` and
`Gauge` assume a steady clock (`ClockSteps = {}`): the odometer needs to know that the run's
clock runs exactly while the flag is set and was not started in the future (`RunClock`), the
gauge that the odometer is right and the mark behind it (`GaugeInv`). `TableFollows` assumes
reliable writes and no factory reset, and says of the middle of a correction which row is behind
(`TableInv`).

*The gate* (`UpdateApply_proofs`). Consent is decided while the worker is parked and used after
it resumes, so the invariant records what an offer, a choice and a verdict mean at each point
(`OfferFits`, `ProceedApproved`). It gives `Consent`, `Refusal` and `Exclusion`.

*The files* (`UpdateApply_proofs`). `GateStep` shows that every step is a step of the gate or
leaves it alone, hence `GateRefinement`, and the gate's invariant comes for free. `FInv` adds
where the task stands (`TaskFits`), what the run is guarded by (`Guarded`: before the swap
nothing has changed, after it the backup is what was found), what each pass over the files has
established (`Visited`) and what a pending marker stands over (`MarkerFits`). It gives
`AllOrNothing`, `Backed`, `CompleteRelease` and `HonestSuccess` for releases of any size.

*One instant* (`UpdateApply_proofs`). `AtomicRefinement`: `UpdateApply` implements `AtomicUpdate` for
any release. `StageFits` says where the mapping stands at each point of a run. While a worker runs
`Found` is fixed, so every step that only moves files is a stutter (`WorkIsHidden`); the steps that
show are the ends of a run and those of the process, and there `FInv` says what the mapping needs:
a worker that gives up has put back what it found unless the storage failed it, one that finishes
has the whole release in place, and a marker that is promoted stands over it.

*The bootstrap* (`UpdateBootstrap_proofs`). A script reads no lock, so what it knows of the files
holds only until something else writes them: `BootInv` says it of the scripts that are not
`spoiled`. `FilesFit` gives the files at each point of such a script (behind the swap the release
in every file that was not missed, behind the restore the backup in every file it did not fail on), and the argument is that each
step of another actor either leaves the files and the flag alone or spoils the script.
`HonestSuccess` and `HonestRollback` follow for any number of files, runs and restarts.

*The command-line updater* (`UpdateSh_proofs`). `ShInv` relates each place of the script to the
tree and the service found there: behind `check` the tree is the release, `mutated` means a
rollback has somewhere to go, and before it the tree is the one the run found unless a reset
failed. It gives `AlwaysLeftRunning`, `HonestSuccess` and `HonestRollback` for any set of files.

*The limiter* (`RateLimiter_proofs`). The cap alone is not inductive: it needs the map to be over
clients and its entries well formed, and lockouts need that an entry's age and the rest of its
lockout together are at most `Lockout` (`Aging`), so that a cleanup never meets an old entry with a
running lockout. `LockoutsHold` assumes `Lockout <= CleanupEvery`, as configured by default; with a
longer lockout the cleanup does lift it. `FailuresBounded` counts the verifications under way.

*The event table* (`EventFeed_proofs`). `TableHolds`: trimming after each insertion leaves the newest
rows since the last wipe, for any cap.

*The poll queue* (`EventFeed_proofs`). `QueueHolds`: one job per key, in the order of queuing, none waiting
while no request is in flight; a queue that is empty when idle is why `pollFetch` never sends past a job that
waits. `NotOvertaken` is arithmetic on top of it: since the later of two jobs was queued both have waited the same
time, in which the later has gained exactly its whole intervals, down from a level of 0 or more, and the earlier,
already at 0 or below, no fewer (`FullIntervals`, `StaysAhead`); so the scan never prefers the later
(`ScanFinds`, `RemovedJob`).

*The alert and its table* (`LowFuelAlert_proofs`). `OneEach`: while the flag is down there is a cause
to alert, so a push has one. `Bounded`: an endpoint is in the table once and the table within its
cap, wherever a stepped clock puts a new row. `RowsStay` needs no assumption on the clock or on the
writes: whatever is inserted where, the row that is cut off is the first, and it rests on what insertion,
removal and the cut to the newest do to a sequence without duplicates (`PlacedRow`, `RemovedRow`, `NewestBounded`).

## 5. What is only model-checked

Liveness: `LockComesFree`, `ButtonComesUp`, `UpdateEnds`, `ServiceComesBack`, `CatchesUp`,
`EveryJobSent`, `EveryCrossingIsSent`. It is outside this prover's reach, as are `ENABLED` and
induction over data. Every invariant and action property of a passing run is stated by a theorem.

## 6. Plan

Done: all modules of section 2, `AtomicUpdate` and its refinement by `UpdateApply`, and the proofs of
section 4. What remains, in this order:

1. What `UpdateBootstrap` and `UpdateSh` promise of the installation as refinements of `AtomicUpdate`,
   or of a weaker one: neither is atomic where a copy is skipped or a reset fails midway.
2. Pure algorithms against reference definitions: version gate, manifest path rules, env file.

## 7. Not modelled, and why

Rendering, styles and markup; parsing and formatting; the log's wording; system metrics; TLS
certificate generation; authentication of one request (a pure decision on its headers); the env
file and the configuration, read once at start; the manifest's checks, whose outcome `UpdateApply`
leaves open; the log tail, a read that repairs itself with the next full one; the test push and the
client's status reports, which only add to the log; the pruning and the names of backups; `dev.sh`
and `tools/`, which an operator runs by hand. GPIO, SQLite, systemd, the push services and NTP are external: they appear as the
outcomes `genpi` can see. SQLite commits are taken as durable and atomic, and a section
that fails as failing as a whole: an insert that works before a trim or a commit that does not (`store.py:165-179,
310-327`) is not modelled. Threads start when asked
to: a failure to start one is not modelled.
