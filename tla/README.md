# Panic Monitor in TLA+

A verification project for the Panic Monitor daemon (`src/src/`, `src/main.py`).
Each node runs one daemon that probes its peers over iroh connections, keeps a
signed, append-only trust log, and tells people when a peer goes down.

## The system

| part | state it keeps | operations | what must hold |
|---|---|---|---|
| trust log (`log.py`) | `log.jsonl`; `_entries`, `_monitor_tail`, `_last_mtime` in memory | `load`, `append`, `reload_if_changed`, `materialize_peers` | the file verifies on the next load; memory is a chain; the tail is the end of the monitor events |
| trust manager (`trust.py`) | the peer table, rebuilt from the log | `add_peer`, `revoke_peer`, `update_permissions`, alias, tags, maintenance, `verify_and_authorize` | a peer is authorized for what was last granted to it; an acknowledged change survives |
| control socket, command line (`controlsock.py`, `control_client.py`, `main.py`) | the socket file; one thread per request | mutations and `/v1/reload` on the daemon, or directly on the file when there is no socket | one writer at a time |
| heartbeat (`alpn/heartbeat.py`) | `PeerState` per device: status, counters, last seen | the cycle, one probe per peer | every result counted once, on the current state |
| push (`alpn/push.py`) | the same | `accept`, `_record_push_from` | the same |
| threshold machine (`engine.py`) | `_last_alert_fired`, `_state_locks` | `_maybe_transition` | reports are earned; log and status agree; outages are noticed; alerts are not too close |
| device table (`engine.py`, `history.py`) | `_devices`; the `probes` table | `_load_devices`, `_hydrate_state_from_history`, `_check_reload`, GC | a restart or a reload changes neither the verdicts nor the evidence |
| history queries, dashboard (`history.py`, `webapp.py`) | none; a page while it is built | `uptime_percent`, `hourly_uptime_buckets`, `recent_beats`, `incidents`, `rtt_stats`, `_build_peers` | the figures agree with the rows and with each other |
| node refresh (`engine.py`, `alpn/status.py`) | pull-failure counters, `_last_iroh_rebuild`, the node | dashboard pulls, `_maybe_rebuild_iroh` | one teardown per cooldown; a stuck path leads to one |
| log store (`logstore.py`, jobs in `engine.py`) | snapshots with sequence numbers, buckets, summaries, events | recording, three rollups, pruning | buckets have what they should; nothing is pruned before its window is rolled up; exits are recorded |
| pull and gap sync (`alpn/status.py`, `alpn/sync.py`) | chart and cursor per peer; mirrored rows | delta pull, `sync_peer`, payload, merge | no hole, no duplicate, in order |
| shell (`alpn/shell.py`, `webapp.py`) | sessions, per-peer counts, a semaphore | open, pumps, watchdog, teardown | caps respected, everything given back, the audit log true |
| identity, service (`identity.py`, `password.py`, `service_install.py`) | key, metadata and stored password on disk; the unit | seal, unlock, reset, migrate, install | the key is never lost or replaced; the newest password opens it |
| status page, TUI, notifier text, paths, framing | presentation and I/O | | |

How they interact.  One event loop runs the scheduler's jobs (heartbeat, pushes,
dashboard pulls, statistics, rollups, housekeeping) and the protocol handlers; only
awaits separate their steps, and jobs of the log store run in worker threads.
Handler threads of the control socket and of the dashboards call the engine's
mutations: these append to the trust log under its lock, rebuild the peer table
under the trust manager's lock, and queue a device reload on the loop.  The loop
appends `monitor_up`, `monitor_down` and shell events to the same log.  A
command-line process without a socket works on the same file.

What is hard: two locks and a file shared by threads and processes; device
objects replaced while probes or pulls hold them; a webhook awaited under the state
lock; results that carry the time they started and are applied later; restarts in
the middle of a cycle; jobs that depend on each other's order and may be late or
missing; sessions with four parties and several timeouts; pairs of files that are
written one after the other; pages read at several instants.

## Modules

| module | models | composed with |
|---|---|---|
| `TrustLog` | trust log, trust manager, control threads, command line | |
| `FailureDetector` | what a node promises about each peer it monitors (abstract) | |
| `PeerMonitor` | heartbeat, push, threshold machine, alerts, device table, history rows | implements `FailureDetector` |
| `Dashboard` | history queries and the page of a peer | extends `PeerMonitor`: the page is built while the monitor runs |
| `IrohRefresh` | dashboard pull failures and the node refresh | |
| `LogStore` | the log store and the jobs that fill, roll up and prune it | |
| `StatsSync` | the delta pull and the gap sync of a monitoring node | extends `LogStore`: the monitored node runs on |
| `ShellService` | what a node that serves shells promises (abstract) | |
| `Shell` | the remote shell, dashboard to bash | implements `ShellService` |
| `Identity` | identity files, stored password, unit, migration, unlocking | |
| `MC*` | instances for TLC | extend the above |
| `TrustLogProofs`, `PeerMonitorProofs`, `IrohRefreshProofs`, `LogStoreProofs`, `ShellProofs`, `IdentityProofs` | theorems | extend the above |
| `StatsSyncProofs` | theorems about the composition | extends `StatsSync` and `LogStoreProofs` |
| `DashboardProofs` | theorems about the composition | extends `Dashboard` and `PeerMonitorProofs` |

Names ending in `_Something` after a definition's name (`Dwelling_Short`) are
mutants: plausible mistakes in the code that the properties must notice.

### TrustLog

An append is two steps, `AppendLine` (entry into memory, line into the file) and
`Stamp` (the stat at the end), because `reload_if_changed` stats and reads the
file without the lock and can come between them.  A reload is `ReloadRead`
(stat, read, verify), `ReloadInstall` (under the lock) and `Rebuild` (peer
table).  A mutation holds the trust lock from `Mutate` to `Rebuild`; the latter
acknowledges it.  Threads are `Loop` and the members of `Control`.  `StopDaemon` is
an orderly stop or a crash at any step; only the former must remove the socket.
`CliLoad`, `CliMutate` and `CliExit` are a command-line process.

`Loaded` and `LoadDisk` include the genesis entry that loading an empty log writes.
`Materialize` replays the operations with `ApplyOp`.  Tags are modelled by
`set_tags`, to which the code reduces adding and removing one.

Abstractions: a signature is a number and the hash of an entry is that number
(SHA-256 injective, signatures unforgeable); tags and permissions are different
values (`TagAssumption`), since an entry has one field for the argument of either; the modification time is the number
of writes; a maintenance window in the log is a flag (its times matter in
`PeerMonitor`); `monitor` and `shell` stand for the pairs of event types; the
`peers.json` cache is never read back and is left out.

The constant `Races` says which of three environment events an instance admits:
`stat_window`, `cli_overlap` (a daemon that could not bind its socket, or whose
socket `--fetch-dashboard` has unlinked) and `write_fail`.  Only the properties
that do not survive a race are checked without it.

### PeerMonitor

An action is the code between two awaits.  `StartCycle` creates the probes,
`FinishProbe` is everything `_probe_peer` does after its connect, `Push` is
`_record_push_from`; both go through `Record`, which is `_maybe_transition`:
reconnect task, first observation, maintenance, log entry, dwell, webhook, in
that order.  When a webhook is sent the state lock stays taken until
`WebhookDone`.  `ApplyDevicesReload`, `CheckReload` and `Restart` replace the device table
by `load_devices`; for the first two, probes in flight keep the old object in
`probe[p].obj` (`orphan_probes`).  `ev` is a ghost: the run of equal results that ends the
evidence on a peer, however the engine forgets or mislays it.

Abstractions: latencies, reasons and the text of alerts are left out; each record
has a timestamp of its own; rows past the retention time, far older than what
hydration reads, are not removed; the number of probes at a time is not limited
(the semaphore only delays connects).  A state change in the trust log is the set
`mon` of trusted peers with the monitor permission.

The constant `Disruptions` says what may happen besides probes and pushes:
`reload`, `external` (another process changed the log), `restart`, `maintenance`,
`hist_fail`, `log_fail`.

`FailureDetector` says what all this amounts to for a peer: a verdict, how many
results in a row contradict it, the run that ends the evidence, and a log of turns.
`Confirm`, `Doubt`, `Meet` and `Turn` are the four ways to take a result, `Forget` is a
restart.  The verdict is `PeerState.status`; of the two counters only the one against
the status is in the abstract state (`Contradictions`), so a counter that is not reset
in time shows as a verdict that turns too early or too late.  A log entry is only
possible in the step that turns the verdict.  The refinement holds without `reload` and
`external`: an orphaned probe counts on an object nobody reads, which no abstract
step explains.

### Dashboard

The queries of `HistoryStore` are operators over the rows of `PeerMonitor`;
`incidents` is the single pass of the code (`IncidentLoop`, a recursive function that
applies `IncidentStep` to the sorted rows) and is compared with `Outages`, which says
what an outage is without a scan: from a failure with no failure just before it to the
next success.  `EdgeOutages` are those the docstring speaks of, which an edge from ALIVE
begins; the code can list one more, when the window begins inside an outage, and
`IncidentsAreOutages` allows exactly that one.  A page is built by `PageStart`, `PageBeats`, `PageIncidents` and `PageShown`, one
step for each query under the store's lock, with steps of the monitor between
them; `PageSent` ends it.  `PageMax` bounds how long a page takes.  A percentage is the
pair of numbers it divides; latency figures are reduced to the counts in them.
The 7-day and 30-day figures are further uses of `uptime_percent` and are not kept.

### IrohRefresh

`PullFails` is the failure path of a pull with `_record_pull_failure`: it may start
a task.  A task runs `CheckCooldown`, waits for the lock, and runs `TakeLock`
(second check, teardown) and `BuildSucceeds` or `BuildFails`, both of which stamp
`_last_iroh_rebuild` (`age`).  The ghost `since` is the time since the last teardown
began, so `TeardownsSpaced` is about teardowns and not about the stamp: it fails if a
failed build forgets to stamp.  The clocks stop at the
cooldown and the counters at the threshold, since nothing tells larger values
apart.  A device reload that resets the counters, and the feature switched off, are not modelled.

### LogStore and StatsSync

A bucket is the set of timestamps of the snapshots it aggregates, from which all
its numbers are computed.  The four jobs (`stats`, `roll5`, `hourly`, `daily`) come due by
the scheduler's rules (one instance each, missed runs merged into one, dropped when later
than `Grace`); each is a read step and a write step, because it takes the store's
lock twice.  `JobFails`, `Suspend` and `Restart` are the faults.  Time goes on while no
rollup is between its steps (milliseconds against ticks of ten seconds), with one
exception: `record_snapshot` takes its timestamp before the lock (`logstore.py:385`),
and its insert may be overtaken by the clock, and so by a rollup of its window; a stats
cycle that comes due meanwhile is skipped (`StatsSkipped`).  The ghost `taken` remembers
every snapshot ever stored, `late` those inserted after their window had ended, and
`hourly` rows the time they were made.  A container is up (`running`, or `sick` when
unhealthy), `exited`, or in another status (`paused`), from which the code reports no exit.

`StatsSync` adds a client.  `PullAsk`, `PullServe` and `PullApply` are a delta pull;
the answer is applied to the state object that was read before the wait (`Owner`),
which a `DevicesReload` may have replaced.  `SyncAsk`, `SyncServe` and `SyncApply` are a gap sync
with the choice between raw rows, 5-minute buckets and daily summaries; the payload
is built from the tables when it is served and merged as it was then.  `Lag(f)` is how
late the rollup can be after `f` faults; `PayloadCovers` asks for a payload without a
hole whenever the raw tail (`HALF`) is at least that long.
`Ascending` is the `ORDER BY seq` of a delta: the one list of its rows in the order
of their numbers.  `Lose` is a
lost answer.  Pruning of the client's own mirrored rows is not modelled, nor are
events in the cursor of a sync (see below).

### Shell and ShellService

An attempt is one WebSocket.  `WebOpen` to `WebLeaves` are the web thread;
`OpenRaises`, `Acquire`, `Connect`, `ClientStreams`, `OpenFails` and `AcloseEnd` the client's
engine with its semaphore; `Accept`, `Refuse`, `Spawn`, `Run`, `Stop`, `Reap`, `CloseSession` the
server's `_serve_shell` between its awaits; `ChildExits` is bash.  Connections drop at any
time, permissions change, appends to the trust log fail, both daemons shut down.
`Stop` has the reasons that surely end a session; the exit of bash does so only through
the end of the pty, which a background job can hold open, so that it is a possible
reason (`IdleStop`) and never one that fairness relies on.  A cancellation of
`open_peer_shell` is not modelled: only the end of its event loop cancels it, and the
semaphore ends with it.

`ShellService` says what the server owes to its host: an attempt is admitted below
both caps, gets one process, counts against the caps until the process is gone,
and is never admitted again.  `Phase` maps the state of `_serve_shell` and of bash to
it: a live process counts as running whatever the registry says.

Not modelled: terminal bytes, resize frames, backpressure in the output queue;
`_serve_local_shell` (a shell on the dashboard's own host, outside caps and audit).

### Identity

A file is missing, raw, sealed (by password and salt), or half copied.  The
commands `--init`, `--reset-password`, `--migrate`, `--install-service` and
`--uninstall-service` are sequences of one action per file written; `CommandDies` ends
one between any two writes.  The stored password is two files written in place, so each
is empty (`TruncateStored`) before it is whole; the unit is written, then enabled, then
started.  The daemon checks the files and reads the salt (`UnlockChecks`), decrypts
the stored password (`UnlockDecrypts`), reads the metadata (`UnlockLoads`) and then the
key (`UnlockOpens`); commands may come between any two.  systemd restarts it up to
`Burst` times in one interval, and an interval may end at any time.
Assumed: one administrative command at a time, and a derived key unique to
password and salt.  Ghosts: `last`, the password its owner last sealed in; `torn`,
a seal cut in the middle or a migration that took files from different places.

## Runs

Passing runs.

| run | shows | bounds |
|---|---|---|
| TrustLogChain | `TypeOK`, `MemChainOK`, `TailOK`, `ViewFresh` with every race | 1 peer, loop and 2 handler threads, 4 appends by anyone |
| TrustLogSingleWriter | `DiskLoads`, `AckedInForce`, `AuthorizedIffGranted` without races; also free of deadlock | 2 handler threads, 5 appends, 1 tag |
| MonitorQuiet | `StatusMatchesLog`, `OutageDetected` undisturbed; `IncidentsAreOutages`, `BucketsAddUp`, `DowntimeExplained` on pages built meanwhile | thresholds 2/2, dwell 3, time 8; day 3, hour 3, 2 hours, 2 incidents and beats |
| MonitorReports | `ReportsEarned`, `ImplementsDetector` over restarts, maintenance, failing writes and reads | thresholds 2/2, history window 4, time 7 |
| MonitorAlerts | `TypeOK`, `StampsDwell` with every disruption | thresholds 1/1, dwell 2, time 5 |
| IrohRefresh | `TypeOK`, `TeardownsSpaced`, `StuckPathEscaped` | 2 peers, threshold 2, cooldown 2, 3 tasks |
| LogStore | `TypeOK`, `FiveExact`, `NothingLost`, `HourExact`, `ExitsRecorded` | 2 snapshots in a bucket, 2 buckets in an hour, 2 hours in a day, time 12, 1 fault, 1 overtaken insert, time away 1 |
| StatsSync | `ChartOrdered`, `ChartComplete`, `PayloadCovers` | retention 2, raw tail 2, caps 2, 3 exchanges, 1 fault, time away 3, time 5 |
| Shell | `TypeOK`, `ChildrenCapped`, `PermitsConserved`, `ClosedMeansGone`, `ShellReaped`, `PermitReturns`, `ImplementsService` | 2 attempts for one place, 2 faults |
| Identity | `TypeOK`, `DaemonKeyOnDisk`, `LastPasswordOpens`, `SeedKept`; also free of deadlock | 2 passwords, 3 seeds, 2 legacy places, 3 salts, 2 faults |

Five appends hold genesis, an addition, a revocation, a second addition and a
change after it.  Four hold genesis, a write by another process, an append on top
of it and one more after the reload.  Peers of the monitor share only the cycle
and the reloads, so one peer is enough to meet every order of probe, push,
webhook, reload and restart; time 7 or 8 is enough for a peer to come up, go down
and start to come up again with thresholds of 2, and for more outages than a page
lists.  Two peers are needed for two rebuild tasks at the lock, three tasks for a
queue behind it.

Time 12 of `LogStore` holds a day and the hour after it, so that the hourly rollup finds
a whole hour or the first window of one, raw rows and buckets are both pruned, and the
daily rollup finds an hour; the ratios are the smallest in which a window, an hour and
a day differ.  One overtaken insert (`MaxSlow`) is enough for a straggler in any window.
`StatsSync` uses shorter spans, so that a prune empties the
table and numbers start again within the instance (a sleep of 3), and caps of 2, so
that a delta is cut; a sync starts at the cursor, or at a time the caller gives (`Sinces`); three exchanges hold a pull, a lost one and its repetition, or
a sync (which counts as two) and a pull.  Two attempts for one place meet every
conflict over a cap or a permit; that the two caps differ is left to the proof.
Three salts hold a seal, a reset and a reinstall, three seeds two legacy identities
and a new one.

`CHECK_DEADLOCK` is off where the instance stops at a bound (time, appends,
exchanges, attempts) or where the system really stops: a forked log cannot be
loaded, and after a failed rebuild nothing happens any more.

Runs that show the code and its documentation disagree, each a finding in
`PROJECT.json`.

| run | property | what the trace shows |
|---|---|---|
| TrustLogStatWindow | `DiskLoads` | a reload between another thread's write and its stat; entries are lost from memory and the file forks |
| MonitorRestart | `OutageDetected` | after a restart the peer is UNKNOWN and fails for ever unnoticed |

### Other differences met while modelling

These follow from the definitions and have no run of their own.

Trust log and monitor.
- The stat after an append (`log.py:274`) also covers a line that another process
  wrote before it, which the daemon then never loads, although `_check_reload`
  says "Re-read the trust log if modified on disk".
- `_request_devices_reload` says that "heartbeat iteration and reload can't
  interleave"; a reload can come at any await of a cycle, the probe in flight writes
  to the old object, and its result is lost.  `ReportsEarned` is therefore checked
  and proved without `reload` and `external`.
- The reconnect task (`sync.py:170`) compares the current time with `last_seen` after
  the observation has updated it, so no gap is ever long enough.
- After a failed rebuild "next pull cycle will retry after cooldown" (`engine.py:301`),
  but without a node the cycle returns at once and no rebuild is started again.
  `StuckPathEscaped` therefore only promises the teardown.
- With a second writer (`cli_overlap`: a command line that looked for the socket before
  the daemon made it, or after `--fetch-dashboard` removed it) the file forks like in
  `TrustLogStatWindow`; `DiskLoads` is checked and proved without it.
- The dwell of `--flap-min-dwell` is measured between the times at which probes
  started, so two webhooks can be sent closer together than that (`engine.py:631`).
  An alert dropped for the dwell is not sent later.
- The maintenance window is compared with the start of the probe too, so a probe
  begun before a window can alert inside it (`engine.py:602`).  And a peer in
  maintenance is not probed at all (`heartbeat.py:109`), where the README says
  "suppresses alerts, probes still run".
- A probe's result is counted when it ends and written to history when its cycle ends.
  With `up_after` 1, the default, a peer is ALIVE meanwhile although its rows still
  end in an outage; `OutageDetected` excepts exactly that time.
- A page can show a DEAD peer whose incidents are all closed: the rows show a
  success, and the status waits for `up_after` of them.
- `incidents` says that an ALIVE to DEAD edge opens an incident (`history.py:315`); a
  failing first row does too, so an outage that is older than the window is listed as
  one that begins at the window's first row.

Statistics.
- `record_snapshot` takes its timestamp at `logstore.py:385` and the lock at 388;
  `roll_up_5min` takes its cutoff at 460 and the lock at 464, in another worker thread.
  A snapshot can so be inserted after its window was rolled up, and no bucket ever counts
  it.  `FiveExact` and `HourExact` except these rows (`late`) and no others.
- The cutoff of `roll_hourly` falls inside an hour, since it is the clock minus 24
  hours and the job runs every hour from the start of the daemon: the bucket is made
  from the windows before it, and `INSERT OR IGNORE` keeps it so.  An hour is
  complete only if the job happens to run in the last five minutes of one; `HourExact`
  says exactly which windows it has.
- Only `running` to `exited` is an exit (`engine.py:736`): one by way of `paused`, or with a
  snapshot in between for which Docker did not answer, is not recorded.
  `ExitsRecorded` is about consecutive stored snapshots.
- After a sleep longer than the raw retention (2 hours) the hourly job's prune may
  run before the 5-minute rollup and remove rows that no bucket counts; it may even
  empty the table, and the numbers start at 1 again.  The rollup theorems exclude it (`Timing`, below); with
  a sleep longer than the retention TLC finds `NothingLost` violated.
- `last_seen_for_peer` takes the maximum of seconds and of event times in
  milliseconds, so it raises once an event is mirrored.
- The first sync of a peer starts at the epoch and is always "daily".  The live merge
  of a pull stamps the time of receipt, and a synced row of that second is ignored.
- Events at midnight count for both days in `roll_daily`.

Shell.
- A session that opens after the web thread's 35 seconds has no owner and keeps its
  permit until the engine stops.  `PermitReturns` is about the others.
- The permission is checked when a session is accepted; a revoked peer keeps it.
- README: "Every session is recorded as a signed, tamper-evident `shell_open` /
  `shell_close` op" (`shell.py:6` says so too).  An append that fails is logged and bash
  runs all the same (`shell.py:264`), and a shutdown does not wait for sessions, so
  either entry may be missing.  What holds of the entries that are there is
  `ClosedMeansGone`.

Identity.
- `_seal` says "Writes key + meta atomically"; each file is, the pair is not.  A reset cut
  in between leaves a key that no password opens.  A first seal of a raw key
  cut in between leaves ciphertext without metadata, for which `--init` makes a new
  identity.  `LastPasswordOpens` and `SeedKept` except exactly these, so they say that
  nothing else goes wrong; no property covers the cut itself.
- The stored password (`password.py:98`) is written in place: a cut leaves an empty or
  partial `password.enc`, which exists, so a reinstall does not ask for the password
  again and the daemon does not come back.
- A migration can take the key from one place and the metadata from another.
- After `--reset-password` the stored password of the machine-id backend is stale,
  and the default backend goes on using it: after a reboot the daemon does not come up.
- The unit says a wrong password exits with 78 and is not restarted; `main.py`
  exits with 1, and systemd tries until its limit.

### Fairness

`IrohRefresh!Fairness`: time passes, the scheduler starts pull cycles for ever, each
pull ends (connect and read have timeouts), the event loop runs every task, and a
build ends one way or the other.  Nothing is assumed about which way a pull or a
build ends, nor about the heartbeat's opinion of a peer.

`Shell!Fairness`: the loops of both daemons run their tasks, the timeouts of the kill
and of the close fire, and the relay ends the WebSocket once the connection is down.
Nobody has to leave a session, and no connection has to drop.

## Proofs

Checked by TLAPS for all values of the constants that satisfy the named
assumptions of the modules.

| theorem | statement | inductive invariant |
|---|---|---|
| `TrustLogProofs!TypeCorrect` | `Spec => []TypeOK` | `TypeOK` |
| `TrustLogProofs!MemChain` | `Spec => []MemChainOK` | `ChainInv`: also what a reload has read and not yet installed verifies |
| `TrustLogProofs!TailCorrect` | `Spec => []TailOK` | `TailOK`, with `TypeOK`; appending to the log appends to its events or leaves them alone |
| `TrustLogProofs!ViewIsReplay` | `Spec => []ViewFresh` | `ViewInv`: the view is the replay of memory, or a thread has still to rebuild it, or memory has an entry that is not in the file; such an entry never gets there, because every later one has a new signature |
| `TrustLogProofs!SingleWriterDiskLoads` | `DiskLoads`, if `Races = {}` | `SingleInv`: memory equals the file while a daemon runs, what the command line has loaded equals the file, they exclude each other, and a lock is held between write and stat |
| `TrustLogProofs!SingleWriterAcked` | `AckedInForce`, if `Races = {}` | the same, with: the entry of an unfinished mutation, and every acknowledged one, is in the file |
| `TrustLogProofs!SingleWriterAuthorizes` | `AuthorizedIffGranted`, if `Races = {}` | `SingleInv` and `AuthInv`: replay and newest deciding entry of the file agree on every peer, and the view is the replay unless a mutation holds the trust lock |
| `PeerMonitorProofs!TypeCorrect` | `Spec => []TypeOK` | `BaseInv`: also no record is from the future, so that a newest row exists, and a finished probe has a result |
| `PeerMonitorProofs!DwellRespected` | `Spec => []StampsDwell` | `DwellInv`: the last alert's stamp is `_last_alert_fired`, and there is none when that is unset |
| `PeerMonitorProofs!ReportsAreEarned` | `Spec => ReportsEarned`, without `reload` and `external` | `EarnedInv`: no orphans, and the counter that decides the next transition counts no more than the run ending the evidence |
| `PeerMonitorProofs!QuietStatusMatchesLog` | `StatusMatchesLog`, if nothing but `hist_fail` disturbs | `QuietInv`: also no windows, no orphans, no removed peers |
| `PeerMonitorProofs!QuietOutageDetected` | `OutageDetected`, if nothing but `maintenance` and `log_fail` disturbs | `EarnedInv` and `OutageInv`: the rows later than every success, the one that waits for the end of its cycle included, are no more than the failures counted since; a peer seen alive is not UNKNOWN, and not ALIVE after `down_after` failures; rows later than the running cycle are pushes |
| `PeerMonitorProofs!DetectorRefinement` | `Spec => Detector!Spec`, without `reload` and `external` | `BaseInv` and `EarnedInv`: every result is recorded on the object in the table; then each case of status, result and threshold is one abstract step, and a restart hydrates the deciding counter to 0 |
| `DashboardProofs!PagesOnlyRead` | `ViewSpec => Spec` | none: each page action leaves the monitor alone |
| `DashboardProofs!BucketsAlwaysAddUp` | `ViewSpec => []BucketsAddUp` | `RowsInv`: rows of a peer are finitely many, none is from the future, and (`DatesInv`) no two have the same time, those that wait for the end of a cycle included |
| `DashboardProofs!IncidentsAlwaysOutages` | `ViewSpec => []IncidentsAreOutages` | `RowsInv`; and `LoopInv`, the invariant of the code's loop after `i` rows: its list holds the closed spells of failures so far, in order, and `open_start` the one that is not closed; only the first row can begin a spell without an edge |
| `DashboardProofs!PageAlwaysExplained` | `ViewSpec => []DowntimeExplained` | `RowsInv` and `PageInv`: a failed row behind the uptime figure or among the beats is still in the rows that `incidents` reads later, since a page takes at most `PageMax` and rows are only added |
| `IrohRefreshProofs!TypeCorrect`, `Spaced` | `[]TypeOK`; `TeardownsSpaced` | `TypeOK`; `Stamped`: between rebuilds the last teardown is at least as long ago as the last stamp, which needs the stamp after a failed build too |
| `LogStoreProofs!TypeCorrect` | `Spec => []TypeOK` | `TypeInv`: also what a job holds between its two steps, and that numbers are bounded |
| `LogStoreProofs!ExitsCorrect` | `Spec => []ExitsRecorded` | `CycleInv`, the order of stats cycles: one waits at most, it is later than every stored snapshot, and no two have the same time; `ExitInv`: also an exit that the cache has noticed and no snapshot shows yet is explained |
| `LogStoreProofs!FiveCorrect`, `NothingIsLost`, `HoursCorrect` | `[]FiveExact`, `[]NothingLost`, `[]HourExact`, if `Timing(J)` | `StoreInv`: `OrderInv`, snapshots, buckets and the rollup in progress in the order of their windows; `TimeInv`, a snapshot without the bucket of its window, inserted or waiting, is younger than its deadline, which each fault moves by a period and the time away; `FiveInv`, a bucket, written or about to be, has its whole window but for `late`, and what has no bucket is raw and in the rollup that has begun; `HourInv`, an hour, written or about to be, has what was a day old of it, which is all rolled up by then |
| `StatsSyncProofs!PayloadCorrect` | `SyncSpec => []PayloadCovers`, if `RawRetain + B5 <= B5Retain` | `PayInv`: `DelayInv` of `LogStoreProofs` (`OrderInv` and `TimeInv`, which need no `Timing`) bounds the delay of the rollup by the faults so far; so what is older than the raw tail has its bucket |
| `StatsSyncProofs!ChartInOrder` | `SyncSpec => []ChartOrdered` | `RowInv`: numbers and times of the rows agree and what is pruned is oldest; `ChartInv`: the chart ends before every row beyond the cursor, and so does an answer in flight, which continues the chart it was asked for |
| `StatsSyncProofs!ChartIsComplete` | `SyncSpec => []ChartComplete` | the above and `GapInv`: an answer of the present numbering has every row between its two cursors that the cap allows; that times in the chart are distinct snapshots bounds what the trim drops |
| `ShellProofs!TypeCorrect`, `ShellsCapped`, `PermitsKept`, `CloseRecordsTrue` | `[]TypeOK`, `[]ChildrenCapped`, `[]PermitsConserved`, `[]ClosedMeansGone` | `Types`; `ServerInv`: a teardown is registered exactly while `_serve_shell` runs, bash lives only within it, the counts are the numbers of registered sessions, both caps hold of the registry, a session with a `shell_close` entry is over; `Fresh`: without a WebSocket there is no client; `PermitsConserved` |
| `ShellProofs!Refinement` | `Spec => Service!Spec` | the above, and `Unborn`: an attempt not yet spawned has no process; each action is one of the abstract ones or leaves `Phase` alone |
| `IdentityProofs!TypeCorrect` | `[]TypeOK` | `Base`: also a whole key file holds a seed, and the legacy places hold what they held |
| `IdentityProofs!DaemonKeyKept`, `SeedNeverLost` | `[]DaemonKeyOnDisk`; `SeedKept` | `DiskInv`: the salt of a seal in progress is newer than any on disk or read by the daemon, a seal of an identity that is there is of its own seed, and what the daemon has read is still on disk if its key is |
| `IdentityProofs!LastOpens` | `[]LastPasswordOpens` | `LastInv`: key and metadata were written together, under the password last sealed in, also while a seal has not begun to write |

The hypotheses of the conditional theorems are needed: `TrustLogStatWindow` breaks
the log's statements with a race, a reload under a probe breaks `ReportsEarned`,
and a restart breaks `OutageDetected` (`MonitorRestart`).  The theorems about `Dashboard`
need none: they hold with every disruption.

`Timing(J)` says that raw snapshots outlive the rollup's delay: `Late(J)` is a window and a
period, and for each of the `MaxFaults` failures, sleeps and restarts of a behaviour a
period and a time away of at most `J`.  The code keeps raw rows for 24 periods and
never compares the two; the theorems say how much it can stand.  The bound adds up
all faults of a behaviour and not only those in a row, so it is stricter than needed.
The instance of the `LogStore` run satisfies it (`InstanceTiming`, `J` = 1).

Statements about a whole log, history or chart are proved without induction over
data: a least counterexample exists (well-foundedness of the naturals), and the
recursive functions (`Materialize`, `MonitorEvents`, `IncidentLoop`, `Total`) unfold once
at their last entry.

Only model-checked: the liveness properties (`StuckPathEscaped`, `ShellReaped`,
`PermitReturns`), which need fairness.

## Not modelled

Presentation (markup of the web pages, status page, terminal UI, the text of
alerts), login sessions, collection of system statistics, container logs and message
framing (one request and one answer, no state), paths, cryptography, HTTP, QUIC, the
systemd-creds and keyring backends, the local shell of the dashboard.

Left for later: the composition of `Shell` with the trust log's own
steps, and of `IrohRefresh` with the probes that fail while the node is rebuilt.
