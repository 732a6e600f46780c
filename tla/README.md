# Verification of sms-webapp

TLA+ models, TLC runs and TLAPS proofs for the metrics exporter in `src/webapp`.
The models translate the code, not its documents. Where a document, a comment or
a docstring promises something the code does not do, *Findings* says so, and a run
shows the difference for the six that take several steps to see.

## The system

The program runs *handlers* (builtin, bash, openvpn, amd-smi) at a fixed
interval, joins what they export into one text, and publishes the text as one
file, `metrics.cache`. `GET /metrics` reads that file and nothing else.

    systemd --> cli.py: preflight, run_app --> ASGI server --startup--> main.py
                                                    |  await scrape_once(), then create_task(serve())
      GET /metrics --> main.metrics --> Runtime.render ---- reads ------.
                          |count_request                                v
      Runtime.serve --wait_for(interval)--> scrape_once --to_thread--> metrics.cache.tmp --rename--> metrics.cache
                                               |  prepare(), collect() of every handler, gathered
                                               v
                                        MetricHandler: read, verify, execute, finalize
                                               |             |
                             config files (re-read every cycle)   ProcessRunner.run_many: commands, process groups

### Inventory

| component | state it keeps | operations | interacts through |
|---|---|---|---|
| `core/runtime.py` Runtime | the cache file and its `.tmp`, `scrape_count`, `last_timings`, `request_count`, `serve`'s task | `scrape_once`, `serve`, `render`, `_write_cache`, duplicate check | awaits and gathers of the handlers' phases, worker threads, the file system |
| `main.py` front end | the runtime (`startup` drops its reference to `serve`'s task) | `startup`, `count_request`, `/metrics` | calls of Runtime; the ASGI server awaits `startup` |
| `core/process.py` ProcessRunner | child processes and their groups | `run_many`, `run`, `run_status`, `_execute`, `_reap` | fork/exec, pipes, `killpg`, asyncio's child watcher, cancellation from `serve`'s timeout |
| `core/base.py`, `handlers/bash.py`, `helpers/support.py`, `helpers/exposition.py` | none between phases (locals of one cycle) | `read`, `verify_metrics`, `run_cmds`, `parse_distribution`, `render_exposition` | values passed along the four phases |
| `core/builtin.py`, `handlers/builtin.py` | none; reads the runtime's counters and the OS | `verify`, one collector per command word | Runtime (bound at activation), files, commands |
| `handlers/openvpn.py` | none | `verify`, sources, status parsers, extractors | files that the OpenVPN server rewrites while they are read |
| `handlers/amdgpu.py` | none | `verify`, one `amd-smi` call, one row per card | a command's JSON |
| `helpers/util.py` | none | environment lists, directives, `read_text`, `run_command`, `map_row` | called by the three collecting handlers |
| `core/loader.py` | none | imports handler modules at start | result: the set of active handlers |
| `cli.py` | certificate and key files, the systemd unit file | TLS preflight, install, uninstall, `run_app` | file system, `systemctl`, systemd's restarts |

### What is hard about it

- A coroutine can be cancelled at every await, but a worker thread cannot be
  cancelled: a timed-out cycle's `_write_cache` goes on without anybody waiting.
- All writes share one temporary file name.
- The program can be killed between truncating, writing and renaming.
- Counters are sampled inside a cycle, published with it, and updated after it.
- Config files change while a cycle runs.
- A command is a group of processes. The leader can exit, and be reaped, before
  its timeout; helpers can hold its pipes; either may run as another user, whom the
  service cannot signal; cancellation can strike during the spawn or during the
  clean-up of an earlier timeout.
- The parts of a config are keyed differently: duplicates by *series*, commands
  and results by metric *name*.
- A collecting handler awaits between its sources, and the host changes
  meanwhile: users log out, accounts go, OpenVPN rewrites its status file.
- An install or an uninstall is several commands and each may fail; the service
  can be killed, or the machine go down, between the certificate and its key.

What makes each part correct: the cache is whole, fresh and in order, counters
agree with it, and cycles keep coming (Runtime); `run_many` is always left, and
what it could stop has stopped (ProcessRunner); the exported block is valid and matches what
was checked and printed (HandlerSupport); a failed probe reads as zero or as no
row, never as a value, and rows keep to their source (the collecting handlers);
what was removed is gone, what was installed serves, and files are never mixed or
overwritten (the command line). `PROJECT.json` lists every hazard
with its line and the properties that would catch it.

## Modules

| module | models | role |
|---|---|---|
| `MetricsCache` | the promise of `/metrics` to its readers | abstract specification: one register, published in order, read whole |
| `MetricsCacheProofs` | | its types, freshness and monotonicity proved |
| `Runtime` | `core/runtime.py`, `main.py` | the core: event loop, writer threads, crashes; instantiates `MetricsCache` |
| `RuntimeProofs` | | invariants, the refinement and the counters proved |
| `MCRuntime` | | constants for TLC |
| `ProcessRunner` | `core/process.py` | commands as a leader and its group, with the kernel and the child watcher |
| `ProcessRunnerProofs` | | its safety proved |
| `MCProcessRunner` | | constants for TLC |
| `HandlerSupport` | `helpers/support.py`, `helpers/exposition.py`, `core/base.py`, `handlers/bash.py` | a whole cycle of the bash handler for one config |
| `HandlerSupportProofs` | | its six properties proved |
| `MCHandlerSupport` | | constants for TLC |
| `Builtin` | `core/builtin.py`, `handlers/builtin.py` | `verify` and `collect`, one step per source |
| `AmdGpu` | `handlers/amdgpu.py` | `verify`, the probe, the extractors |
| `OpenVpn` | `handlers/openvpn.py`, `map_row` | `verify`, sources, status files, extractors |
| `Collectors` | `verify` and `execute` of `core/base.py` | the three handlers behind their common interface |
| `InductionLemmas` | | induction and recursion over numbers, in a form the provers can use |
| `BuiltinProofs` | | what the builtin parsers compute, and the invariants of its cycle |
| `CollectorsProofs` | | the same of the other two handlers; the eleven properties of `Collectors` proved |
| `MCCollectors` | | constants for TLC: representative configs and status files |
| `Deployment` | `cli.py`, `run_app` | the command line, the preflight, the service under systemd |
| `DeploymentProofs` | | its safety proved |

The modules meet at four interfaces. `Runtime` treats a handler as a task that
may take any time in any phase, fail, and export any set of series; it relies on
a cancelled task ending, which is `RunManyEnds` of `ProcessRunner`, and on nothing
of a cycle being left behind, which is `OwnCommandsEnd`; the exceptions those two
make (a command of another user) `Runtime` assumes away. It checks duplicates on the series `series_names` lists, and
that these are the series really exported is `RendersCheckedSeries` of
`HandlerSupport`. That a handler's `execute` fails only for a reason the documents
know is what `Collectors` says of the handlers that collect by themselves, and the
`Start` of `Runtime` is what happens in state `starting` of `Deployment`.

### Runtime

One action is one stretch of code between two awaits, one system call of a
writer thread, or one act of the operating system.

| state | code |
|---|---|
| `proc`, `loop`, `stage` | where `main.startup`, `serve` and `scrape_once` are; `"cancelling"` is `wait_for` delivering its cancellation |
| `task[h]` | the gathered task of a handler, through `prepare` and `collect` |
| `metrics[h]`, `sample` | the series its verified config exports; the counters the builtin handler read |
| `content[k]` | the text cycle `k` rendered: its counters and its series |
| `writer[k]` | the worker thread in `_write_cache` for cycle `k`: queued, holding the temporary file open, done writing, renamed, failed |
| `tmp`, `cache` | the files' contents: a cycle, missing, empty (truncated), or mixed. `Relinked` follows a file another thread still holds open through a rename |
| `client`, `body` | a request inside `render()`, and the last response of that client |
| `cycle`, `born` | numbering only: calls of `scrape_once` over all processes, and the first one of this process |

`Start` is the program's start up to the await in `startup`; `BeginCycle`,
`Prepare`, `Gathered`, `Execute`, `Finalize`, `Submit` and `Complete` are
`scrape_once` in the order of its awaits. `Raise` distinguishes the exceptions
`serve` catches (an `ExceptionGroup`, the timeout) from those that end its task
(the duplicate check's `ValueError`, an `OSError` of the write). `Timeout`,
`Cancelled`, `Aborted` and `Wake` are `wait_for`, the delivery of the
cancellation, and the sleep. `OpenTmp`, `WriteTmp`, `Replace` and `DiskFault`
are the steps of `write_text` and `os.replace`. `Crash` may come at any time;
`render` never waits for anything but its own read.

### ProcessRunner

`call[c]` is where `run()` is for a command, `leader`, `exit`, `helper` and
`holds` are the processes, and `foreign` says which of the two run as another
user, as those of a command in `Elevated` may. `Spawn`, `Spawned`,
`Communicated`, `TimedOut` and `Reaped` are `_execute` and `_reap`, `Cancel*` is a
cancellation at each of their awaits, `Finish` is `run_many`'s gather. `Fork`,
`Exit`, `Die`, `HelperExit` and `Watch` belong to the operating system and to
asyncio. All helpers of a command are kept as one process; those that leave the
process group are not modelled.

`GiveUp` is `_reap` up to its wait. `killpg` reaches everyone in the group whom the
service may signal (`Kill`); it is refused only if there is nobody of the kind
(`Refusable`), and then `kill()` of the leader is refused as well: its
`PermissionError` ends `run()` before the wait, and the call is `"refused"`. Two
cases are left open because they depend on the kernel and on what asyncio has seen:
a leader that has exited but is not reaped, and a dead helper of the service's own
user that is not yet waited for (`Signalled`). The third way out of `_reap` is the
`ProcessLookupError` of `kill()` when the pipes have just ended. A cancellation
inside `create_subprocess_exec` never reaches `_reap`: asyncio kills the leader
alone; if that is refused, some versions raise at once and others wait for it, and
`CancelSpawn` allows both.

### HandlerSupport

`Verify` is `verify_metrics`. The output of each command then arrives line by
line (`NumberLine`, `SumLine`, `CountLine`, `KeyLine`, `BadLine`) at the locals
of `parse_distribution` or `parse_value`; `EndOfOutput` is their last part and
one turn of `run_cmds`; `Finalize` is `finalize` and the renderers. `printed` is
history: how many lines the output has for each key. Metrics of one name share
one command, and are only required to find outputs of equal length. This allows
more than the code does, so what holds here holds there. The loop over a
histogram's buckets ends at the first gap or decrease: `Passed` is how far it got,
and `Cumulative` checks the count against the bucket it ended at, as the code does.
That an accepted histogram has passed all of them is proved (`AllPassed`).

### Builtin, AmdGpu, OpenVpn and Collectors

The three modules have the same four variables: `phase` (the next source, step or
`raised`), `input` (what the handler was given: its config, for `OpenVpn` also the
two path lists), `readings` (what each source held when it was read, in order) and
`results` (what `execute()` returns). `readings` is history where the code keeps
only what it parsed; the properties compare it with `results`. In `OpenVpn` it has
two parts: the configs read so far, and the status texts by the position of their
config. A *source* of the code is a position whose config is of status-version 3
(`Positions`), and the extractors' dicts are functions from labels, filled in the
order of the positions (`LastRows` for an assignment, `FirstRows` for
`setdefault`). The line loops of `Builtin` are recursive functions: `Counts(lines)[i]`
is what the locals of `_count_check_update` are after `i` lines, `Sums` the running
totals of `_parse_df` and `_parse_netdev`.

| module | actions and code |
|---|---|
| `Builtin` | `Verify`; then, in the order of `collect()` and only if configured: `Providers`, `CollectWho`, `UserUids`, `CountProcesses`, `Packages`, `Reboot`, `CpuCount`, `ReadLoad`, `ReadMemory`, `ReadDisk`, `ReadNetwork`. Each takes any text its source may hold at that moment, or `None` if the command or the read failed |
| `AmdGpu` | `Verify`, `Probe` (one run of `amd-smi` with any entries, or none), `Execute` (all extractors) |
| `OpenVpn` | `Verify`, `ReadConfig` and `SourcesRead` (`sources()`), `ReadStatus` (one turn of `parsed()`, on a status that may be whole, missing, cut between two lines or inside one: `Torn`; all of these are prefixes of the file), `Execute` |

What is alike is kept once: one numeric column of `amd-smi`, one counter of a
client, one number and one flag of a config. A line of a status file is `whole` if
it has all its fields; a row of a table needs that and the header of its table
before it (`map_row`). `Collectors` follows one handler per behaviour: in
`execute()` the handlers share nothing but the event loop, so what one meets of
the others is that any time may pass at an await, and every step here may meet
any state of its source anyway.

### Deployment

| state | code |
|---|---|
| `command`, `wanted`, `report` | the next command `install_unit` or `uninstall_unit` runs, the options of the invocation, what it said last |
| `unit`, `loaded`, `enabled` | the unit file, the unit systemd has in memory, the boot link |
| `service`, `options`, `made` | how far the service's process is (preflight, the steps of a generation, starting, serving), its options, and the pair it generated in memory |
| `cert`, `key` | the two files: to which pair they belong, and whether they are whole |

`Install` and `Uninstall` begin a command line; `InstallFile`, `Reload`, `Enable`,
`Restart`, `Disable`, `Remove` and `Forget` are its privileged commands, any of
which may fail (`CommandFails`). `Preflight`, `CreateCert`, `WriteCert`,
`CreateKey`, `WriteKey` and `Start` are the foreground program. `Fails`,
`AutoRestart` and `Boot` are the process dying, `Restart=on-failure`, and the
machine going down at any moment; `ProvideCert`, `ProvideKey` and `Clear` are the
operator. Assumed: a failed `install` leaves the unit file as it was; the operator
keeps off the files while they are generated; a generated pair differs from what
is there; the process that runs the preflight is the service's; with
`RestartSec=5` systemd's start limit (five starts in ten seconds) is not reached.

## Runs

| run | question | bounds | states |
|---|---|---|---|
| `runtime_safety` | Is the cache whole, fresh and in order, do the counters agree with it, and does the runtime implement `MetricsCache`? | 2 handlers, 1 series, 1 client, 3 cycles, 2 requests, disk errors, writes end within an interval | 275 522 |
| `runtime_liveness` | Does every cycle end and the next one come? | the same with no requests, on a disk that may stall for ever | 36 398 |
| `runtime_aborted_cycle`, `runtime_loop_death`, `runtime_torn_cache` | Does the code keep three promises of the documents? (No.) | as above | violations |
| `process_runner` | Is `run_many` always left, has everything it could stop been stopped, and is output complete? | 2 commands, each with helpers, one of them in part another user's, cancellation at any step | 295 449 |
| `process_stragglers`, `process_spawn_cancelled` | Does nothing survive a timeout, or a cancellation? (A helper can.) | the same | violations |
| `handler_support` | Is the exported block valid, and what the command printed? | 2 metrics, names `foo` and `foo_sum`, two bounds (one no quantile), values -1, 1 and 2, outputs of 4 lines | 1 342 634 |
| `collectors` | Do failed probes read as nothing, do related metrics agree, do rows keep to their source? | every single builtin command, pairs of light ones, whole families; 2 users, numbers 0, 1 and 3, 3 lines; 2 cards; 2 sources, 2 status files and all their torn forms | 37 041 |
| `openvpn_malformed_status` | Is a malformed status file tolerated? (No.) | the same | violation |
| `deployment` | Is what was removed gone, does what was installed serve, are files kept and pairs matched? | 4 invocations, 3 failures, 2 edits | 244 484 |

Why the bounds are enough to reach the interesting cases:

- *3 cycles*: one that leaves a thread behind, the one that meets it, and one
  after a restart. A fourth meets nothing new, since a thread can only disturb
  the temporary file and the rename.
- *2 handlers, 1 series*: a clash needs two configs and one name; one fails
  while the other works.
- *1 client, 2 requests*: monotonicity compares two responses; clients share
  nothing but the file and the counter.
- *2 commands, one of them elevated*: they meet only in gather and the cancellation.
- *4 lines, 2 bounds, lists of up to 2*: a complete histogram of two buckets, or one of one
  bucket with one line repeated.
- *3 lines, 2 users*: an obsoleting block has a header, a line in it and a blank
  line; a user can be counted twice, and one account can be gone.
- *2 cards, 2 sources*: an id can meet a position, one source is skipped or down
  while the other is not. `Builtin`'s families meet nowhere but in the order of
  `collect()`, so pairs of commands of different families are enough.
- *4 invocations, 3 failures, 2 edits*: install, a failing uninstall, its retry and
  another install; a kill in the certificate, one in the key, one afterwards; the
  operator completes a pair or clears one.
- The proofs below remove these bounds for what they cover.

Deadlock is not checked: the bounds stop the models, the program may stay down
or its loop die, `run_many` ends, and a handler's cycle ends.

`PROJECT.json` names, for every property of a passing run, a mutated definition
in the modules (`Leave_StageKept`, `AfterTimeout_NoSleep`, ...), each a plausible
bug, under which the property fails.

### Fairness

`FairSpec` of `Runtime` asks for weak fairness of what the event loop does by
itself: steps of `serve` and `scrape_once` that are ready, the timer of
`wait_for`, and the end of a cancelled handler task. The last is justified by
`ProcessRunner`: a cancelled `run_many` is left because a killed leader dies and
is waited for, not its pipes. `RunManyEnds` excepts a leader of another user that
is waited for without having been killed (`Held`): it stays as long as it likes, so
`CycleEnds` and `NextCycleComes` are about configs whose commands run as the
service's user. Nothing says that a handler's phase or a write
ends, that somebody asks, or that the program is started again. `Fairness` of
`ProcessRunner` asks that the event loop runs, its timers fire, a process with a
pending SIGKILL dies and the watcher reaps it; no command or helper ends by
itself. `Fairness` of `Deployment` asks that the service's process goes on and that
systemd restarts it when it failed; nothing says that a command line is run or
completed, or that the operator does anything. `InstalledComesUp` therefore names
what only the operator can put right: a pair that is incomplete, torn or does not
match.

### The one assumption about time

With `SlowDisk = FALSE`, `serve` wakes from its sleep only after a thread that an
aborted cycle left behind has ended: a cache write does not outlast a scrape
interval. All safety properties of the cache rest on it, and
`runtime_torn_cache` shows that they must. Types and liveness need no such
assumption.

## Findings

1. *An aborted cycle is published* (`runtime.py:88`). The timeout cancels the
   await, not the thread. `docs/architecture.md:89-90` says the previous cache is
   kept. The cycle is then on display without being counted.
2. *The loop can die* (`runtime.py:136,148`). A duplicate series raises a plain
   `ValueError`, a failing write an `OSError`; `serve` catches neither. One config
   edit stops the refresh for good, while requests are still answered.
   `runtime.py:144` says "forever", `docs/architecture.md:126` that the app keeps
   serving after a failed cycle.
3. *A torn cache on a stalled disk* (`runtime.py:139-141`). Two writes share one
   temporary file. `README.md:5-7` says partial output is never served.
4. *A helper survives a timeout* (`process.py:77`). When the leader has exited and
   was reaped, its group can no longer be looked up. `process.py:18-19` and
   `docs/handlers.md:89-90` say no stragglers.
5. *A helper survives a cancellation* (`process.py:50`). `create_subprocess_exec`
   forks before its last await and is outside the `try`: a cancellation there kills
   the leader alone. The sentences of finding 4 include cancelled commands.
6. *A torn status file fails the cycle* (`openvpn.py:499`). A row without a header,
   or with another number of columns, raises in `map_row`, and `parsed()` does not
   catch it. `docs/handler-openvpn.md:33-35` says it counts as down and the cycle
   succeeds. `OnlyRowsFail` shows that nothing else in a status file can do this.

Met while modelling, without a run of their own:

- *`run_many` is left with a command running* (`process.py:78-79`). For a group of
  another user the `kill()` in the except clause is refused too; the
  `PermissionError` leaves `_reap` before its wait. `process.py:16` says `run_many`
  waits for all commands. `OwnCommandsEnd` shows that nothing but a leader of another
  user is left so, and that `run_many` then reports no success.
- *A repeated `sum` or `count` is accepted* (`exposition.py:84-86`), unlike a
  repeated bucket; `docs/handlers.md:141-142` says it fails the cycle.
- *A card's data shows under a label that is down* (`amdgpu.py:49-54`). A card
  without an id is labelled with its position, which another card's id may equal;
  the later one wins, in each metric by itself. After `[{"gpu": 1, "power_usage": 5},
  {}]` the label 1 has a power and an `up` of 0.0. `docs/handler-amdgpu.md:34` says
  `up` is 1.0 when data parsed. `GpuDownIsSilent` shows that this takes cards with
  and without an id in one output, or one id twice.
- *The service generates a certificate it was told not to* (`cli.py:156`).
  `build_exec_args` does not pass `--no-generate` on (`Mirrored`); `docs/cli.md:90-93`
  says the unit is a snapshot of the options. `InstalledServes` is about the rest:
  file, loaded unit and process agree, and have the scheme that was asked for.
- A torn *client* status file parses to nothing and is shown as up; the same
  sentence of `docs/handler-openvpn.md` says 0.0. That sentence also says "no other
  samples": a source that is down keeps its `status_path` row (0.0) and the samples
  of its config, which `VpnDownIsSilent` therefore leaves out.
- A key truncated by a kill exists, so the pair is reused and every start fails
  until the operator removes it.

## Proofs

Every safety property of a passing run is a theorem, for any handlers, series,
clients, commands, configs and bounds.

**Runtime.** `TypeCorrect` needs no assumption; it includes that the program
counters of the nested coroutines agree. The rest assume `~SlowDisk`.

- `Invariant` proves `IInv == TypeOK /\ OneWriter /\ FreshCache` inductive. That
  the cache is whole is not inductive: `Replace` publishes whatever is in the
  temporary file, so one must know that the thread about to rename wrote it last,
  that no other thread has it open, and that it belongs to the newest cycle.
  That is `OneWriter`. It survives the next `BeginCycle` because `Wake` has seen
  the leftover thread end, and `FreshCache` adds that the cycle on display is
  older than the one being scraped. `CacheAlwaysWhole`, `AtMostOneWriter` and
  `RepliesAreOwn` follow.
- `Refinement`: under `file <- cache`, `replies <- body`, `floor <- born - 1` the
  rename is `Publish`, `render` is `Reply`, crash and start are `Stop` and
  `Restart`, and every other step stutters.
- `Counters` proves `CInv`, which follows a sample along its way (the builtin
  task, the rendered text, the file) and says at each station how it relates to
  the live counters. `Lag` and `NeverBack` follow from it, `CountedOnDisplay` from
  `IInv` alone.
- `SeriesOnce` follows the checked metrics along the same way: what was checked
  for duplicates is what is displayed, though the config may have changed.

**MetricsCache.** `RepliesAreFresh` and `CacheNeverBack` are the consequences of
the abstract specification a reader relies on.

**ProcessRunner.** `RunnerInvariant` proves `PInv`: types plus `Progress(c)`, one
command's life. Its core: nobody is signalled before `run()` gives up, and after
that a leader of the service's own user cannot fork, so a helper still running then
belongs to a leader that had exited by itself; and a leader that runs on when its
call has ended was refused, or could not be killed in the spawn. The three ways out
of `_reap` are one lemma (`GiveUpStep`), used for the timeout and the cancellation.
`OwnCommandsEndAlways`, `GroupsKilled` and `CompleteResults` follow. A step of one
command leaves `Progress` of the others alone (`Untouched`).

**HandlerSupport.** `Invariance` proves `IInv`, for configs, lists of bounds and
outputs of any length (`MaxMetrics`, `MaxDeclared` and `MaxLines` are any numbers). Its parts: what the locals of `parse_distribution` are worth in the middle
of an output (`Totals`, `Keys`: `printed` counts the lines behind each local), what
is known of every output parsed before (`Collected`), and of what is exported
(`Exposed`). The one surprise is `SamplesAreOwn`: two metrics of one name pass the
checks only as a scalar and a histogram, both are parsed from the same output, and
no output has one line and two or more at once, so such a config never renders.
`BlockFacts` says what the rendered block of each type looks like, from which
`SeriesAgree`, `NoSampleTwice` and `HistogramsAre` follow, with two inductions over a
declared list: that it ascends throughout (`AscendingThroughout`), and that the loop
over the buckets ends early for a gap alone (`AllPassed`).

**Deployment.** The properties speak of the end of a command line or of a
generation; `IInv` adds their middle. `Progress`: what each command has behind it
(`Remove` finds the service stopped and disabled). `Backed`: what runs or comes
back has a unit. `Generation`: a file that is not created yet is not there, one
that is created belongs to the pair in memory; so a key is written only next to
its own certificate, or next to none that a later start would complete. The steps
of the command line leave the files alone, those of the process leave the units
alone, and the proof is split along that line. `NothingLeftBehind`,
`InstallReplaces`, `PairsMatch` and `FilesKept` follow.

**Collectors.** `IInv` has a part for each handler. Assumed of the constants:
numbers are integers and `None` is none (`NumbersAssumption`), a command of the
memory is about one of its three numbers (`ItemsAssumption`), paths come in
sequences (`PathsAssumption`), and OpenVPN writes whole lines, and a header before
the rows of its table (`StatusesAssumption`). TLC evaluates all four.

- Builtin, `BInv`: there is a place in the order of the sources (`Reached(p)`) such
  that every wanted source before it was read, once, and nothing else, and the
  metrics with a result are those whose source was read. That every visit fills
  exactly its metrics is `Given`, and needs that the config was verified; so does
  that the providers find a timing for every handler. `CycleSurvivesAlways` and
  `SourcesReadOnceAlways` follow.
- Builtin, `BData`: every result is what its parser makes of the one reading of its
  source (`Fits`), and a row per user is over the users of the `who` that was read,
  not of the `passwd` read later. Agreement is not inductive by itself, since the
  metrics of a family are named one by one and the rows per user come from another
  source than their count; `BData` is, because a source is read once and the users
  before their uids (`VisitData`). `FamiliesAgreeAlways`, `FailedReadsZeroAlways`
  and `UpgradesCountedAlways` follow with what the loops compute: `DiskAddsUp` (sums
  of rows that add up add up), `UsersBound` (a set is not larger than the sequence
  it is made of) and `CountsUpgrades` (the loop counts the packages outside the
  blocks of obsoleting ones, for any number of lines).
- AmdGpu, `AInv`: one output at most. `ColumnRows` shows that a row is the value of
  a card with its label, `UpRows` that labels are injective on cards that all have
  ids of their own or all have none, hence as many rows of `up` as cards, and that
  they say 1 wherever a card has data. `GpuDownIsSilentAlways` and `CardsKeepTheirRowsAlways`
  follow, for any number of cards.
- OpenVpn, `OInv`: `OProgress` says that the statuses read are those of the first
  positions, each with the path of its position, and in the end all of them; then
  a row of an extractor belongs to the one source with its labels (`UpRow`,
  `FlagRow`, `SilentRows`, `ClientRow`), hence `VpnDownIsSilentAlways` and
  `PairedByPositionAlways`. `OnlyRowsFailAlways` rests on `CutRow`: a cut status
  keeps the header of every row it keeps.

**InductionLemmas.** The induction theorems of the library take an operator as a
parameter, which the provers cannot instantiate. The well-foundedness of `<` on the
naturals is a first-order fact, and `Upwards` (induction over `0..n` for the
numbers in a set) and `Recursion` (a function defined by recursion over `0..n`
exists, its step given as a function) are derived from it. With them the defining
equations of `Sums` and `Counts` hold (`SumsFacts`, `CountsFacts`), and what they
compute is proved by induction over the lines.

Only model-checked: the liveness properties (`CycleEnds`, `NextCycleComes`,
`RunManyEnds`, `InstalledComesUp`), which are out of the prover's reach.

## Not modelled

- Durations and their formatting (`timing.py`): the stored timings are named by
  the cycle they were measured in.
- The name syntax, command fields and timeouts of a config: each only adds a
  reason to reject it. The formatting of floats and the escaping of labels.
- Status files that are overwritten in place, so that an old tail stands behind a new
  head, and last fields that are cut short without changing the number of columns:
  `Torn` has the prefixes of a file only, and `OnlyRowsFail` is true of those. (A row
  before its header is malformed in `RowsOf` and `Malformed`, but no prefix has one.)
- A scrape interval that is zero or negative, and a `TimeoutError` raised by a
  handler (it arrives inside an `ExceptionGroup`).
- The ASGI server's own startup timeout, and two instances of the program on one
  directory: `Runtime` has one process at a time.
- `loader.py` (a sequential import loop before anything runs concurrently; its
  result is the constants `Handlers` and `Active`).
- What the parsers of environment lists, config directives, certificates,
  timestamps and JSON make of a text: the models start from their results.
- Two command lines at once, and options other than the scheme and
  `--no-generate`; quoting in the unit file; two sources whose configs have the same
  file name in different directories (their rows overwrite each other, as the
  documents' definition of the label has it).
- The thread pool shared by `render`, config reads and the cache write: `Runtime`
  gives each a thread of its own. With reads that hang for ever the pool fills and
  requests are no longer answered; no document promises otherwise.

## What is left

1. A composition of `Runtime` with the abstract behaviour of `ProcessRunner`, in
   place of the fairness assumed of `Cancelled`.
2. The shared thread pool: a pool whose workers hang, under which the properties
   of `runtime_liveness` are to be stated again.
