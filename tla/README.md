# Verification of opcbridge-suite

opcbridge reads and writes PLC tags and offers them over HTTP, WebSocket, MQTT and
OPC UA; around it run an alarm service, a logger, a historian, a flow service, a
SCADA workspace, an HMI and reports. This directory holds TLA+ models of the parts
whose correctness depends on the order in which threads and processes do things,
the TLC runs that check them on small instances, and TLAPS proofs that hold for
every value of the constants.

All line numbers refer to the repository under `src/`; `main.cpp` without a
directory is `src/opcbridge/main.cpp`.

Contents: [inventory](#1-inventory), [plan](#2-plan), [the modules and how they
correspond to the code](#3-modules), [runs](#4-runs), [fairness](#5-fairness),
[proofs](#6-proofs), [disagreements found](#7-disagreements-between-code-and-documentation),
[what is not covered](#8-what-is-not-covered), [running it](#9-running-it).

## 1. Inventory

### How the processes interact

    PLC <-- drivers (lanes) -- opcbridge --- OPC UA server ---> OPC UA clients
                                |  |  \---- WebSocket ----> alarms, historian, HMI, SCADA
                                |  \------- MQTT broker
     flow, logger --- HTTP -----+
     (demand, reads, writes)    |
                                +--- HTTP --- SCADA workspace (saves files, asks for
                                              reloads and waits for them)

opcbridge is one process with a main loop, one or more poller *lanes* per
connection, the HTTP thread pool, the WebSocket thread, the automation scheduler
and the asynchronous-write workers. Its locks are `driverMutex` (drivers, tag
table, poll gates), one writer-priority gate per connection, `g_plcMutex`,
`uaQueueMutex`, `g_reloadMutex` and the registries' own mutexes. The other services
are processes of their own and talk to it over HTTP and WebSocket only; each of
them can be restarted while the others keep running.

### Components

| Component | State | Operations | What is hard | What makes it correct |
|---|---|---|---|---|
| Polling, write readback, OPC UA publication (`main.cpp`, `poll_read_gate.h`, `read_freshness.h`) | tag table, poll gates and freshness epoch per driver, lane state and prefetched batches, `uaQueue`, `g_writeReadbackUpdates`, node values | poll, batch read, commit, suspend and resume, write with entry and exit readback, OPC UA client write, drain, reload | reads in flight while a write, a suspension or a reload happens; two queues to the OPC UA nodes, checked under a lock and applied without it | no value from before a write, a resume or a reload is GOOD; the OPC UA nodes follow the cache |
| Runtime reload (`main.cpp`, `runtime_config_state.h`, `modbus_read_recovery.h`, SCADA `app.js`) | `g_reloadState`, two generation counters, lane generations, captured and applied files | `POST /reload`, `POST /reload/connection`, `GET /reload/status`, Modbus recovery, the main loop's reload, file saves, restart of the service | one slot for many callers, who wait in two different ways; files saved during a reload | an accepted request is carried out and answered with its own result; no save is reported as applied that was not loaded; the lanes run again after every sequence of requests |
| Demand-based polling (`consumer_demand_client.h`, `consumer_demand_leases.h`, `tag_demand.h`, `demand_scheduler_preview.h`) | leases, observations, plan entries, per client what it has sent and when it renews | register, renew, release, observe, collect, refresh, `should_poll` | posts that arrive after they were given up, crashes, restarts, a main loop that stalls | what somebody needs is polled; what nobody needs is suspended in the end |
| Automation scripts (`main.cpp:8521-8671`, `10533-10830`, `31064-31273`, `automation_*.h`, `execution_demand.h`) | `logic.json`, `g_logicState` with its revision, the scheduler's cycle, demand of a run, one entry per tag of asynchronous writes and the deque of waiting keys | save, load by the HTTP thread and by the scheduler, acquire fresh inputs, evaluate, store variables, enqueue and perform a write | the two loaders overlap each other and a run; a value changes while its older one is being written | items keep their own variables, a run's inputs stay demanded, the newest value of a tag is written, the outputs settle on what the file says |
| Connection health (`idle_connection_probe.h`, `active_sweep.h`, `poll_sweep_estimate.h`) | probe state and sweep tokens shared by the lanes of a connection | begin, complete, workload change, probe claim and result | reads that began before the workload changed | a sweep is completed by reads of its own workload; one lane probes at a time |
| Asynchronous OPC UA batches (`async_poll_batch.h`) | requests in flight | submit, callback, time out | a callback after the timeout | each request is accounted for once |
| WebSocket server (`ws.cpp`) | clients, subscriptions, namespaces, demand per client | subscribe, unsubscribe, fan-out | a client leaves while it is being served | demand follows the subscriptions of live clients |
| MQTT bridge (`main.cpp`) | publication jobs, subscription state | publish, inbound write | reconnects | inbound writes obey the write protocol |
| Drivers: EtherNet/IP, Modbus, OPC UA client (`main.cpp`) | handles and sessions | read, write, reconnect | protocol I/O | (library behaviour) |
| HTTP API, authentication, configuration files (`main.cpp`) | tokens, files | handlers | - | mostly sequential |
| Alarm engine and its client (`src/opcbridge-alarms/src/main.cpp:7685-8517`, `9005-9895`) | rules, `AlarmState` per alarm, the event database, baseline flags, pending activations, the WebSocket connection and one HTTP request | tag update, delayed activation, acknowledge, shelve, seed and refresh over HTTP, rule reload by two threads, restore from the database, restart | the HTTP answers race with WebSocket updates, disconnects, runtime reloads and rule reloads | a return is announced only for an activation that was, a delay is honoured, and when things calm down the alarms agree with the values, under the rules opcbridge has |
| Alarm OPC UA server (same file, 7619-7683, 8579-9003) | bounded, coalescing update queue | enqueue, drain, rebuild | the queue at its limit | the last state of an alarm is what its node shows |
| Notifications (same file, 3746-7615) | escalation, call and e-mail state | notify, answer, escalate, retry | time-outs racing with late answers | nobody is called after the acknowledgement, everybody in turn before it |
| Logger (`opcbridge_logger.cpp:1472-3769`) | job state, buffers, synchronisation cursors | sample, flush, synchronise | a database that is away and returns | buffered rows are neither lost nor written twice |
| Historian (`opcbridge-historian/src/main.cpp:590-1276`, `snapshot_lifecycle.h`) | queue and spool, snapshot state | enqueue, flush, spool, replay | a crash between the commit and the deletion of the spool | the spool is replayed completely and in order |
| Flow service (`opcbridge_flow.cpp:386-1747`) | flow instances | deploy, tick, write | redeployment | - |
| SCADA workspace (`app.js`, `viewer-demand.js`, `server.js`) | what it has saved, the reload it waits for, viewer leases | save, reload, wait, publish viewer demand | waiting for a reload by its number | it reports the reload it asked for |
| HMI, reports, packaging | screens, batch output | - | - | - |

`PROJECT.json` lists the same components with their status, and under `hazards` the
points of the code at which something can go wrong that a test would hardly reach,
each with the properties that would notice.

## 2. Plan

Done, in this order, because everything else builds on the tag table being right:

1. `PollReadGate`, `PollPublish`: the runtime data path; it refines `TagCache`.
2. `RuntimeReload`: how a saved configuration becomes the running one; it refines
   `ReloadService`.
3. `DemandPlanning`: which tags are polled.
4. `LogicWriteQueue` and, composed with it, `Automation`: what scripts write; both
   refine `LatestWrite`.
5. `AlarmEngine` and, built on it, `AlarmClient`: what the alarm service makes of the
   values, across two processes.
6. Proofs of type correctness and of every safety property that a passing run checks.

What would come next, in this order:

| Module | Models | Properties |
|---|---|---|
| `AlarmUa` | the coalescing bounded queue to the alarm nodes (opcbridge-alarms `main.cpp:8579-9003`) | the node shows the last state; a "last value wins" register, refined |
| `LoggerSync`, `HistorianWriter` | synchronisation with its cut by time, spool, restart | no loss and no duplicates across a crash; section 8 names what was noticed while reading |
| Notifications | escalation, calls, retries (same file, 3746-7615) | nobody is called after the acknowledgement |
| `ConnectionHealth` | `IdleConnectionProbe`, `ActiveSweep` | a sweep belongs to the current workload; at most one probe |
| `DemandClosure` | the closure over derived tags (`main.cpp:14674-14687`), a pure algorithm | equals reachability over bounded graphs |
| `ViewerDemand` | `viewer-demand.js` and its leases | like `DemandPlanning` for browsers that sleep |

## 3. Modules

| Module | Content |
|---|---|
| `TagCache` | abstract specification: what the tag table promises its readers |
| `PollReadGate` | operators: stamps, gates, `apply_poll_cache_gate`, `transition_poll_cache` |
| `PollPublish` | one Allen-Bradley connection: lanes, writers, main loop (EXTENDS `PollReadGate`); refines `TagCache` |
| `ReloadService` | abstract specification: what those who ask for a reload may rely on |
| `RuntimeReload` | saves, reload requests, the main loop's reload, the SCADA workspace's wait; refines `ReloadService` |
| `DemandPlanning` | consumer leases, observations, plan, for one tag |
| `LatestWrite` | abstract specification: the newest value of every tag is written, one write at a time |
| `LogicWriteQueue` | the queue of asynchronous writes and its thread; refines `LatestWrite` |
| `Automation` | `logic.json`, its two loaders, the scheduler's cycle (EXTENDS `LogicWriteQueue`) |
| `AlarmEngine` | the alarm states, their events, delays, commands, rule swap and restore |
| `AlarmClient` | opcbridge's side of the connection, the WebSocket callback, the client loop, the reloaders, restarts (EXTENDS `AlarmEngine`) |
| `MC*` | definitions for TLC: functions and files over model values, a constraint |
| `*_proof` | theorems and proofs; see section 6 |

Two compositions are checked as one state space: the scheduler with its write queue
(`Automation`) and the alarm engine with the process it follows (`AlarmClient`). For the
rest each module takes what the others do as choices of its environment. `PollPublish`
may reload at any time and with any outcome (`StopPollers`, `LoadDriver`, `LoadFails`)
and its lanes take any decision of the demand plan (`TransitionDemand` with either
value), which includes everything that `RuntimeReload` and `DemandPlanning` allow.
`RuntimeReload` in turn says that lanes stop and start in the right generation, and
`DemandPlanning` what `should_poll` may answer. A write of `Automation` is a writer of
`PollPublish`, and its `executing` set is one of the sources of demand of
`DemandPlanning`. A runtime reload is for `AlarmClient` the pair of messages that opcbridge
sends at its beginning and its end.

Mutated definitions, marked "Mutant", stand directly before the definition they
change; no specification uses them. `PROJECT.json` names for each property the
mutant that violates it.

### PollReadGate and PollPublish

A tag's value is its *version*: how often the PLC word has been written. A read
returns the version at some moment between its start and its end, a write adds one,
so "older than a write" can be compared by number. Time is a natural number and
0 is the unset `time_point`.

| Model | Code |
|---|---|
| `gates`, `table`, `epoch` | `poll_gates`, `tagTable`, `freshness_epoch` of the connection's `DriverContext` |
| `Restart`, `Suspend`, `Resume`, `GateQuality`, `SatisfiesAge` | the methods of `PollReadGate` and `PollReadStamp` |
| `ApplyPollCacheGate`, `Transition` | `apply_poll_cache_gate` (12490-12515), `transition_poll_cache` |
| `lane`, `TransitionDemand`, `SkipInactive`, `BeginRead`, `FinishRead`, `UsePrefetched`, `Commit`, `DropSample`, `LanePush`, `LaneExit` | the loop of a lane thread (29881-31001): pop a due tag, ask the plan, read alone or in a batch, commit under `driverMutex`, push to `uaQueue` |
| `writer`, `BeginWrite` ... `WriteExit` | `write_tag_by_name` (6518-7549) with its `ReadbackOnExit` (6730-6737), `request_write_readback` (12535-12580) |
| `BeginUaWrite`, `FetchCached`, `ApplyUpdate` with `main = "uaRefresh"` | the write callback of the OPC UA server (5680-5766), which runs on the main thread after open62541 has already stored the client's value |
| `SwapUaQueue`, `TakeReadback`, `CheckUpdate`, `ApplyUpdate`, `DrainDone` | the drain in the main loop (31585-31626): both queues are swapped out, each update is checked under `driverMutex` and written without it |
| `BumpGeneration`, `StopPollers`, `JoinPollers`, `LoadDriver`, `LoadFails`, `StartPollers` | the reload as the data path sees it |

Every section under `driverMutex` is one action. A read of the PLC has a beginning
and an end, with the connection's gate held in between, and everything else may
happen between them as far as the gate allows.

`TagCache` is what a reader of the table may rely on, without lanes, gates, queues or
drivers: each row shows one version or none; a row may always be withdrawn; a version
that is shown lies between the newest one that a returned write guarantees and the one
the PLC has, and it takes the place of an older one only. The mapping (`Cache` in
`PollPublish`) shows a gated row's version while the row is GOOD. A commit that makes a
row GOOD is then a `Confirm`, a write that takes effect in the PLC a `Write`, the exit of
`write_tag_by_name` a `Return`; every transition of gates is a `Withdraw`, and all the
rest is a stutter.

Abstractions:

- One connection with an Allen-Bradley driver; other drivers differ in the protocol
  I/O and use the same commit.
- A read takes at least one tick, so that a stamp distinguishes a read that began
  before a boundary from one that began after it. `steady_clock` has nanoseconds.
- The queues are kept per row: the order of updates of one row matters and is kept,
  that of different rows does not.
- A row that is not GOOD keeps no stamp and no value. Nothing reads them: payloads
  of such rows are null.
- A write to an alias runs nested calls of the same readback; they are one action
  over the rows of the physical tag.
- Disabled tags are not in `Tags`: no lane polls them and no gate is made for them.
- `MaxQueue` limits only how many updates a demand transition may add, since
  toggling demand for ever is the one way to fill the queue without bound.
- Rows of array roots (`ArrayRoots`) have no gate, as in the code; the invariants
  speak of `GatedRows`. See the first disagreement in section 7.

### RuntimeReload

| Model | Code |
|---|---|
| `slot` | `g_reloadState` under `g_reloadMutex`; `by` is history |
| `configGen`, `requestGen`, `activeGen` | `g_configGeneration`, `g_reloadRequestGeneration`, `activeGeneration` of the main loop |
| `applied`, `initialized`, `CaptureError`, `AppliedFiles`, `ConfigPending` | `RuntimeConfigState` |
| `rebuild` | `g_full_rebuild_required` |
| `PostReload`, `PostReloadConnection`, `Submit`, `AnswerDone`, `AnswerPending` | the handlers (24551-24717). The number is taken before the slot is looked at, so these are two actions |
| `FollowExisting`, `PollStatus`, `GiveUp` | `opcbridgeReload`, `opcbridgeReloadConnection` and `waitForOpcbridgeReloadDone` of `app.js` (11852-12060) |
| `TakeReload` ... `FinishReload`, `FollowGeneration` | the main loop (31321-31581) in its order: take, capture, stop, load, start, mark as applied, report |
| `RequestRecovery` | the Modbus recovery (31284-31320) |
| `Save` | `POST /config/file`, `POST /config/delete` |
| `RestartService` | the process is started anew |

`ReloadService` has four variables: what is saved, what is running, the job, and how each
caller's job ended. A job belongs to one asker and names all connections or one; while
it is there, and at no other time, its connections may be rebuilt from the files as they
are then; it may end in success only when all of them were; and a restart rebuilds
everything and ends it. The mapping (`Service` in `RuntimeReload`) takes the request in
the slot for the job (`Job`), whether the main loop has picked it up or not, and the
connections of a load that succeeded for those already rebuilt (`Rebuilt`). An accepted
`Submit` and a `RequestRecovery` are then an `Accept`, a load is a `Rebuild`, the end an
`End`; a refused request, a load that finds its files unusable, the capture, stopping and starting lanes, marking as applied,
generations and answers are stutters.

Abstractions: the connection file and the tag file of a connection are one document
whose content is a number, equal for equal JSON. `capture` and the load each read
all files in one step: the files are independent of each other, and a save between
two of them is the same as one before or after the step. The 30 seconds without a
good read that make a Modbus connection ask for recovery are a choice of the
environment. Each caller asks for one reload; several callers give several reloads. What a
content may be is what the load does with it: it builds a driver; it is not JSON; it is JSON
that no driver can be built from (a targeted reload fails); it is a connection that is disabled
or has no tag file (`Off`: a targeted reload succeeds and leaves none, 8033-8037, 8061-8065);
or it stands for deleted files.

### DemandPlanning

One tag of a connection with active-only polling, one opcbridge and any number of
clients. A scope names the tag, or only other tags, or there is none. Timers are
kept as the time that is left or has passed, up to the value beyond which it makes
no difference, and a `Tick` moves them all.

| Model | Code |
|---|---|
| `worker`, `Pass`, `ProviderFails`, `PostArrives`, `PostEnds`, `Stop` | the worker of `ConsumerDemandClient` (`consumer_demand_client.h:29-99`) |
| `lease`, `Apply` | `ConsumerDemandLeases` |
| `read`, `monitored` | `TagDemandObservations` |
| `planner`, `CollectObservations`, `CollectLeases` | `collect_polling_demand` (`main.cpp:14584-14711`): the observations are copied (14587), then the leases (14589), each under a lock of its own; then `driverMutex` is awaited (14629), up to the refresh |
| `plan`, `RefreshPlan`, `Entry`, `ShouldPoll` | `DemandSchedulerPreview::refresh` and `should_poll` |
| `late`, `LateArrives`, `LateLost` | a post that the client gave up after its time-out and that opcbridge handles later, or never |

Anything may happen between the two reads and before the refresh, and time may pass, up to
`Collect` in all.

Abstractions: WebSocket demand (14588) and that of automation and alarms (14592) are
read in turn like the two sources of the model, and each is for the plan one more source
like them; they are left out. The closure over
derived tags is not part of the module (`DemandClosure` in the plan). A failed
release is not repeated, as in the code: its registration expires. `observedFor`,
`leasedFor` and `quiet` are history: how long each source has demanded the tag without
interruption, and how long there has been no reason to poll it, each up to the number
beyond which the properties no longer distinguish.

### LogicWriteQueue, LatestWrite

`LatestWrite` has two variables: `wanted`, the newest value of each tag that is not
written yet, and `writing`, the write under way. A script requests, a write begins with
the newest value, and its end forgets the value unless another one was asked for
meanwhile. Under `FairWrites` no tag is passed over for ever.

| Model | Code (`main.cpp`) |
|---|---|
| `logicAsyncWrites`, `logicAsyncWriteReady` | the map of entries and the deque of keys, under `logicAsyncWriteMutex` |
| `Enqueue` | `g_logicAsyncWriteEnqueue` (31104-31131) |
| `TakeJob`, `WriteTag`, `FinishJob` | the thread: pop and copy (31137-31152), write without the lock (31154-31191), erase or queue again (31193-31208) |
| `DirectWrite` | a write that does not use the queue (10270-10276, `POST /write`, OPC UA clients) |

The refinement mapping takes the entry's value for `wanted` and the thread's job for
`writing`. Each section under the lock is one action, the write is one between two of
them. A write that fails is erased like one that succeeded, as in the code.

### Automation

| Model | Code (`main.cpp`) |
|---|---|
| `file`, `SaveFile`, `EditFile` | `logic.json`; the editor's save, which then loads (26266-26292); an edit by another program |
| `load`, `StartReload`, `LoadStat`, `LoadParse`, `LoadInstall`, `Merge` | `load_logic_config` (8521-8671) as run by the HTTP thread and by the scheduler, which looks for a changed time (31258-31267) |
| `logic` | `g_logicState`: revision, time, items with the variables they keep |
| `sched`, `CycleStart`, `Capture`, `Verify`, `Evaluate`, `Finish` | `logic_run_validation_cycle` (10592-10830) |
| `Acquire` | `logic_acquire_fresh_inputs` (10533-10579) |
| `executing` | `g_logicExecutionDemand` (`execution_demand.h:14-20`) |

A script or a block is an *item*; its *body* stands for its source, and by the functions
`OutTag` and `OutValue` for the tag it sets and the value it sets it to. Its variables
are recorded as the id and the body that computed them, which is all that can be wrong
about them here. Intervals have no length: any enabled items may be due. The file's
modification time is a number that grows with each change; two changes within the same
tick of the file system are not told apart by the code and do not occur in the model. A
revision counts only while a run may compare it, so that the state space is finite.

### AlarmEngine and AlarmClient

| Model | Code (`src/opcbridge-alarms/src/main.cpp`) |
|---|---|
| `rules`, `states` | `AlarmRule` (2953-2985), `AlarmState` (2988-3010) |
| `WithValue`, `EventOf`, `Apply`, `ApplyRows` | `apply_tag_update` (8119-8350), for one update or for the rows of an answer |
| `ProcessPending` | `process_pending_activations` (8354-8405) |
| `Ack`, `Shelve`, `Unshelve`, `ShelfElapses` | the operator's commands (8407-8482) and the end of the shelving time |
| `db`, `Logged`, `Restored`, `RestoreFrom` | `log_event` (7851-7886), `restore_state_from_db` (7776-7849) |
| `SwapRules`, `LoadLocalRules` | the swap in `fetch_rules_from_opcbridge` (9538-9569), `load_rules_from_file` (7888-8070) |
| `Open`, `Close`, `Receive*` | the WebSocket callback (9136-9220) |
| `Wake`, `Ask`, `Serve`, `Answer`, `Fail` | the loop of `ws_client_loop` (9222-9283) with `seed_subscriptions_from_http`: a seed or a refresh, from the request to its rows |
| `FetchRules`, `CompareRules`, `InstallRules`, `FallBack` | `fetch_rules_from_opcbridge` (9289-9575), by the configuration thread and by `POST /alarm/api/reload` (9866-9885): a body with the time (9336) or the contents (9363-9372) of the one installed last is neither installed nor its time remembered (`SameBody`) |
| `hash`, `mtime` | `last_config_hash` and `last_config_mtime_ms`: the contents and the time of the body installed last, if any |
| `ReadEvents`, `RestoreStates` | the two parts of a restore after a reload: the events are read before the lock is taken |
| `PendingDue`, `Restart` | the timer thread (9788-9793), the start of the service (9652-9762) |
| `Change`, `BeginReload`, `EndReload`, `LoseLink`, `SaveRules` | opcbridge: `ws.cpp:101-125`, `227-305`; `main.cpp:6045-6092`, `31335`, `31540`, `1024-1060` |

Abstractions:

- A condition is two sets of levels: those at which an inactive alarm becomes active and
  those at which an active one stays so. With hysteresis the second is the larger one.
- Delays have no length: `ProcessPending` may find any pending activation ripe.
- Outside a baseline events are recorded or not, as `suppress_events_until_ms` has come
  or not; each action that records chooses.
- The database is what the events of an alarm amount to when they are replayed: the last
  activation or return, the last acknowledgement, the last shelving.
- The configuration thread reads the time before its request and after it (9770-9779) and
  restores when they differ. The second reading is made when the body has been installed,
  as in the code, or, for one that need not be, together with the comparison: another reload
  that installs a body between these two would cause one restore more.
- The comparison and the swap are two steps, between which another reload may install its
  body; a save may bring the contents that there are, with a new time.
- `fellBack` is history: the rules in force were loaded from the local file by
  `POST /alarm/api/reload` after opcbridge did not answer.
- `met`, `unpaired` and `overwritten` are history: whether the last good value met the
  condition, which alarms had a return without an activation, and which were restored
  from events that were no longer the latest.
- The tags of `_system`, which opcbridge computes and which are always recorded, are
  left out, and so are the WebSocket clients of the alarm service itself, notifications
  and nodes.

## 4. Runs

State counts are distinct states. Runs that end in a violation state something that
a document, comment or test of the repository says, and TLC finds the behaviour of
the code that contradicts it (section 7).

| Run | Configuration | Instance | Shows |
|---|---|---|---|
| `reload` | `PollPublishReload` | one tag, two writers of which one is an OPC UA client, two drivers, a restart of the pollers, clock to 2 | `TypeOK`, `GoodRowHasEvidence`, `NoPreWriteGood`, `StaleNodeIsCorrected`, `GoodRowReachesNode`, `ClientValueReplaced` |
| `batch` | `PollPublishBatch` | two tags read in batches, one OPC UA writer, no demand changes, no restart, clock to 3; 1.6 million | `NoPreWriteGood` for prefetched samples, `ImplementsTagCache` |
| `array_root` | `PollPublishArray` | an array and one element | violates `NoPreWriteGoodAnyRow` |
| `reload_slot` | `RuntimeReload` | two connections, one caller, a recovery, a restart; the first one saved as broken, invalid, deleted or disabled, the second as broken or deleted; 596 thousand | `TypeOK`, `NothingPendingIsLoaded`, `ReloadNotOverwritten`, `AnswerFollowsReload`, `DriversArePolled`, `ReplacedWhenStopped`, `ImplementsReloadService`, `RequestCompletes`, `PollersResume` |
| `reload_revert` | `RuntimeReloadRevert` | one connection, saves that bring a content back | violates `NothingPendingIsLoaded` |
| `reload_swallowed` | `RuntimeReloadSwallowed` | two callers | violates `FailureIsReported` |
| `reload_numbers` | `RuntimeReloadNumbers` | two callers, a recovery; `OneNumberAtATime` restricts the callers to one number taken at a time, so that the shortest behaviour is not a race between two handlers | violates `SmallerNumberIsOlder` |
| `demand` | `Demand` | one client, lease 8, reads count for 2, a collection takes up to 2, all other times 1, one failure in a row, two changes from outside (the removal of a monitored item not counted); 1.31 million | `TypeOK`, `RegistrationIsKept`, `DemandIsPolled`, `NewDriverIsPolled`, `UnwantedIsSuspended`, `AbandonedTagIdles`, `RegistrationReturns` |
| `write_queue` | `LogicWriteQueue` | three tags, two values, one refused write; 20 thousand | `EntryIsServed`, `LatestWriteWins`, `EveryTagIsWritten` |
| `automation` | `Automation` | two items, three bodies, a PLC tag and a memory tag, three files of which one does not load, one save, one refused write; 150 thousand | `TypeOK`, `KeptBelongsToItem`, `RunIsDemanded`, `StaleLoadIsNoticed`, `LoadsConverge`, `OutputsConverge` |
| `alarms` | `AlarmClient` | an alarm with hysteresis and a delayed one on one tag, three rule files, also saved again unchanged, two messages under way, two events from outside; 819 thousand | `TypeOK`, `EventsPair`, `PendingHolds`, `StaleRulesAreNoticed`, `AlarmsConverge`, `BaselineEnds`, `RulesConverge` |
| `alarms_lost_end` | `AlarmClientLostEnd` | the same | violates `EventsResume` |

### What the properties say

- `GoodRowHasEvidence`: a GOOD row was read by the current driver, at or after the
  last restart, resume or write boundary of its gate, and is not suspended.
- `NoPreWriteGood`: once a write has returned, no row of the written tag is GOOD with
  an older version, whatever reads, batches, retries and reloads were under way.
- `ImplementsTagCache`: the table is `TagCache`. Beyond `NoPreWriteGood` this says that a
  sample never replaces a newer value: a batch is read for several tags and committed tag
  by tag, and what was read in it must have been used before its tag is read again.
- `StaleNodeIsCorrected`, `GoodRowReachesNode`: an OPC UA node shows GOOD although the
  cache has given the value up only while a correction is on its way, and a GOOD row
  is either what its node shows or on its way there. The two together are why the
  drain drops some updates and not others, and why a reload may clear the queue.
- `ClientValueReplaced`: what an OPC UA client has written does not stay in the node
  as if it had been measured, also when the write to the PLC failed.
- `NothingPendingIsLoaded`: no difference between saved and applied files means that
  the runtime was built from the saved ones.
- `ReloadNotOverwritten`, `AnswerFollowsReload`, `RequestCompletes`: the slot and its
  callers. `PollersResume`: after any accepted and refused requests all lanes run in
  the current generation again; a refused `POST /reload` moves the generation too.
- `DriversArePolled`: what `PollersResume` promises in the end holds whenever the main
  loop has taken up the current generation: exactly the drivers that exist and are not
  being replaced have lanes, and of that generation. Lanes leave on their own when the
  generation moves, and a targeted reload starts some and leaves others.
- `ReplacedWhenStopped`: no driver is built, rebuilt or removed under a running lane of
  its connection, also when lanes leave and are started between the phases of a reload.
- `ImplementsReloadService`: the slot with its flags, the two counters and the phases of
  the main loop are the service above. Beyond the invariants this says that a connection
  changes only in a reload that names it, that what is loaded is what was saved at that
  moment and not before, and that success means that every connection of the request was
  rebuilt after it was accepted, by this request's load and not by one before.
- `DemandIsPolled`: a tag that one source, the observations or the leases, has demanded
  for longer than a plan is trusted plus the time a collection takes is polled, although
  each client or reader of that source may have come and gone, and whatever the other
  source has lost during a collection. Of demand that passes from a lease to an
  observation between the two reads nothing is said, and nothing can be: the collection
  finds it in neither (section 8). `NewDriverIsPolled`: no entry of an old driver suspends a new one.
- `UnwantedIsSuspended`: after the same time and the idle grace without a reason, a tag
  whose plan is fresh is not polled: neither a demand that a collection saw before the
  end, nor the entry's memory of its last demand, keeps it longer.
- `RegistrationIsKept`: a registration does not run out between renewals through
  `MaxFailures` failures in a row. `RegistrationReturns`: if a late release or a
  restart has removed it, it comes back. `AbandonedTagIdles`: nothing keeps a tag
  polled for ever.

- `EntryIsServed`: every accepted request waits exactly once in the deque or is being
  served; the flags and the deque are updated in three places. `LatestWriteWins`,
  `EveryTagIsWritten`: the queue implements `LatestWrite`, its safety and its fairness: a
  value is dropped only when it was written, and the deque gives every tag its turn.
- `KeptBelongsToItem`: variables are stored by position after a run, and carried over by
  id and body at a load; no save makes one item run with another's state. A load that
  installs a copy taken before a run stored its variables loses those: no document
  promises otherwise (see `hazards`).
- `RunIsDemanded`: the inputs of a run are demanded until its end, also when its item has
  been disabled or removed meanwhile; otherwise it would wait for suspended tags.
- `StaleLoadIsNoticed`: a loaded state that is not the file's never carries the file's
  modification time, however the two loaders overlap each other and a save: the time is
  taken before the text is read. It is what makes the scheduler's comparison sufficient.
- `LoadsConverge`, `OutputsConverge`: once `logic.json` is left alone and can be loaded,
  its items are the ones loaded, whichever loader installed last, and a tag with exactly
  one setter ends up with that item's value in the controller.
- `EventsPair`: a return is recorded only for an activation that was, through silent
  baselines, delays, rule reloads and restarts. Exempt are alarms whose state was restored
  from events that were no longer the latest: `restore_state_from_db` reads them before it
  takes the lock, so that with three events an alarm that has returned meanwhile is set
  active again and returns a second time, against the intent of the comment at
  opcbridge-alarms `main.cpp:9538-9541`.
- `PendingHolds`: an alarm waits for its delay only as long as every value since has met
  the condition of the rule that was in force when the value came, whatever was shelved,
  disabled or reloaded.
- `StaleRulesAreNoticed`: rules that opcbridge has replaced are never remembered with the
  time or the contents of those it has, so that the next fetch installs those, although two
  reloaders may install bodies that were fetched in the other order. The local rules that a
  failed `POST /alarm/api/reload` falls back to are the exception, see `RulesConverge`.
- `AlarmsConverge`, `BaselineEnds`: afterwards the alarms agree with the values, and no
  baseline lasts, unless the client believes in a reload that never ends, which is the
  subject of `EventsResume`. `RulesConverge`: the rules are those of opcbridge whichever
  reloader installed last, and also when the service was started with its local ones. The
  exception is a fallback of `POST /alarm/api/reload` to the local file, which leaves the
  time and the contents of the last body remembered (9876): as long as opcbridge has these
  contents, under the same time or another one, no body of it is installed (9336, 9368)
  and the local rules stay. Once they change, the new ones are installed.

### Bounds and why they are enough

- `PollPublish`: in `reload`, `MaxTime` 2 has room for a read that begins before, during and after a
  write and is committed a tick later; with `MaxEpoch` 2 a driver is replaced once, and a
  sample or an update of the old one meets the new one; `MaxRestarts` 1 restarts the lanes
  with or without a new driver; `MaxWrites` 2 in `reload` lets two writes overlap, each
  with a complete protocol, of which the one by an OPC UA client runs on the main thread.
  `batch` has one write, since what it adds is the prefetched batch; with `MaxTime` 3 a
  tag can be read again after a batch, while another sample of that batch still waits. Its
  `MaxQueue` 0 leaves out demand transitions, which `reload` has. Aliases and elements
  occur in `array_root` only; all of it at once is beyond TLC, and the proofs do not have
  this limit.
- `RuntimeReload`: in `reload_slot` the caller, a Modbus recovery and a restart compete for
  a slot for one; with two callers one can find the other's request in each of its states
  (`reload_swallowed`, `reload_numbers`). Two connections distinguish a targeted reload
  from a full one. Each content is of another kind (good, not JSON, JSON that builds no
  driver, deleted, disabled). Of these the second connection is saved only with the two
  that bear upon a reload of the first one (`Saves`): a file that is not JSON makes the
  capture fail and hides a deletion, and a deletion is what `rebuild` remembers. Saves only
  go upwards, except where reverting is the point.
- `DemandPlanning`: the timers keep their order and the relation
  `Lease > (MaxFailures + 1) * (Renew + 1 + PostTime) + PostTime`, which the real values
  60, 10 and 2 satisfy for three failures in a row. `MaxEvents` 2 allows a change and its
  reversal, or two disturbances of different kinds. With `Collect` 2 a tick may pass between
  the two reads of a collection and another one before the refresh; `ReadLease` 2 lets a
  read outlast the first of them and not the second. One client suffices, since leases of different clients do
  not touch each other and to the plan they are one bit; for more there are the proofs.
- `LogicWriteQueue`: a tag waits behind another one while a third is written; two values
  make a value change and change back while it is being written.
- `Automation`: two items can change places; three bodies give an item an edit of its body
  and two items the same tag; `MaxSaves` 1 on top of the initial states, which include a
  file that has been changed since it was loaded, makes two loads overlap.
- `AlarmClient`: `MaxEvents` 2 puts any two of the disturbances named in the run's
  description into one behaviour. Two messages under way are enough for a value behind the
  message of a reload. One tag, because rows and updates of different tags do not touch the
  same alarm; three levels, so that the value can lie between those of the hysteresis.

Deadlock is checked everywhere but in `RuntimeReload`, where the number of requests is
bounded and every caller ends up answered: a state without a successor is one in which
nothing is left to do, and `CHECK_DEADLOCK FALSE` says so. That nothing stops too early
there is what `RequestCompletes` and `PollersResume` say.

## 5. Fairness

`PollPublish` is checked for safety only.

`RuntimeReload!FairSpec`: weak fairness of `MainStep`, because the main loop runs until
the process ends and no phase of a reload waits for a caller; of each caller's
`CallerStep`, because the HTTP thread and the browser's poll loop go on by themselves;
of each `LaneExit`, because a lane looks at the generation in every iteration. There is
no fairness for saves, requests, recoveries, restarts or giving up.

`DemandPlanning!FairSpec`: weak fairness of each worker's thread (`WorkerSteps`: its pass,
and the end of its post one way or the other, for it has a time-out), of a late post being
handled or lost, of the main loop (`MainLoop`: the two reads and the refresh), and of `Tick`. Whether a pass or a
post succeeds is not a matter of fairness: the number of failures in a row is bounded by
`MaxFailures`. `Tick` is disabled while a worker has its pass of this second still to
do, while a post has reached its time-out, and while a collection has lasted `Collect`;
this is how the model says that these take a bounded time. With `Collect` of at least 1
a collection does not stop the clock from being enabled.

`LogicWriteQueue!FairQueueSpec`: weak fairness of each step of the queue's thread, which
waits only for the condition variable and for `write_tag_by_name` to return. Nothing is
said of the scripts.

`Automation!Fairness`: weak fairness of the queue's thread, of the loads once begun
(threads that parse a file) and of the scheduler's run. Strong fairness of `StartReload`
and of a cycle in which a given item is due: the scheduler looks at the file and at the
periods between its cycles, so that both are enabled again and again and not all the time.
Strong fairness of `Acquire(TRUE)`: the inputs of an item become fresh in some of its runs;
a plant that never answers keeps its outputs where they are. `MaxWriteFailures` says that
the PLC refuses finitely many writes.

`AlarmClient!Fairness`: weak fairness of the WebSocket library (`Callback`: reconnect,
report a close, deliver), of opcbridge ending a reload, of the client's loop (except `Fail`),
of the configuration thread (`Reload`), of the handler of `POST /alarm/api/reload` once it
has an answer (`Loading`), and of the timer thread for all pending activations. None for changes, faults, operators,
requests, and for messages that get lost.

## 6. Proofs

All theorems are about the module's specification and hold for every value of the
constants that satisfies the assumption named in the module (`PollPublishAssumption`,
`RuntimeReloadAssumption`, `DemandPlanningAssumption`, `QueueConstants`,
`AutomationConstants`, `EngineConstants`, `ClientConstants`). Each is proved as
`Init => IInv`, `IInv /\ [Next]_vars => IInv'`, `IInv => Inv`, with one lemma or step
per action.

| Theorem | Says | Inductive invariant |
|---|---|---|
| `PollPublish_proof!TypeInvariant` | `Spec => [](TypeOK /\ Structure)` | `TypeOK /\ Structure`: a lane that reads or holds a sample does so for a tag, a writer in the middle of a call has a row, so has the refresh in the OPC UA callback, and no lane is alive while a reload replaces the driver |
| `PollPublish_proof!EvidenceInvariant` | `Spec => []GoodRowHasEvidence` | `EvidenceInv`: these, `GatesCurrent` (while a lane is alive it polls for the current driver and every gated row has a gate of that driver) and `GoodRowHasEvidence` itself |
| `PollPublishWrite_proof!WritesAreReadBack` | `Spec => []NoPreWriteGood` | `ReadbackInv`: `EvidenceInv` and, for samples, rows, epochs and writers, that a value reflects every write that has returned |
| `PollPublishWrite_proof!TableImplementsTagCache` | `Spec => ImplementsTagCache` | `FreshInv`: `ReadbackInv`; no row and no sample is newer than the PLC; a sample that waits to be committed is not older than any row of its tag; and a lane has one sample of a tag at a time |
| `PollPublishNode_proof!ClientValuesAreReplaced` | `Spec => []ClientValueReplaced` | `ClientInv`: one callback at a time, only its node holds a client's value, and its tag has a row to be refreshed from |
| `PollPublishDrain_proof!StaleNodesAreCorrected`, `GoodRowsReachNodes` | `Spec => []StaleNodeIsCorrected`, `Spec => []GoodRowReachesNode` | `DrainInv`: the two before, the bookkeeping of outboxes and queues, reads that end in the past, and for every row `RowOK` |
| `RuntimeReload_proof!TypeCorrect` | `Spec => []TypeOK` | `TypeOK /\ FullReloadHasCaller`: a full reload in the slot was asked for by a caller, whom another one may follow |
| `RuntimeReload_proof!AnswerInvariant`, `AnswersFollowReloads` | `Spec => []ReloadNotOverwritten`, `Spec => []AnswerFollowsReload` | `AnswerInv`, with `SlotInv`: the main loop is in a reload only for a request in the slot, a request in the slot is not done, a caller follows only its own reload until it is refused, and has no answer before the end |
| `RuntimeReload_proof!PendingInvariant` | `~Reverts => (Spec => []NothingPendingIsLoaded)` | `PendingInv`, with `OrderInv`, the order of contents: `applied <= loaded <= files`, and for the reload under way `saved <= loaded`: without reverting saves content only grows, so equality of the ends is equality of the middle |
| `RuntimeReload_proof!LaneInvariant`, `DriversReplacedWhenStopped` | `Spec => []DriversArePolled`, `Spec => ReplacedWhenStopped` | `PollInv`, with `LaneInv`: every lane is of the active generation, which is not ahead of the configured one, and none runs for a connection that is being replaced |
| `RuntimeReload_proof!ReloadImplementsService` | `Spec => ImplementsReloadService` | `ServiceInv`: `AnswerInv` and `OwnInv`: the reload under way has the target of the request in the slot, and a caller's outcome is recorded exactly when its request leaves the slot |
| `DemandPlanning_proof!TypeCorrect` | `Spec => []TypeOK` | `TypeOK` |
| `DemandPlanning_proof!PlanInvariant`, `NewDriversArePolled` | `Spec => []DemandIsPolled`, `Spec => []NewDriverIsPolled` | `PlanInv`, with `MissedDemandIsRecent`: demand of a source that a collection has read, or a plan was made from, without finding any is not older than the beginning of that collection; and `EntryIsYounger`: an entry of the current driver is not older than the driver |
| `DemandPlanning_proof!UnwantedTagsAreSuspended` | `Spec => []UnwantedIsSuspended` | `QuietIsKnown`: demand that a collection under way has seen ended no longer ago than that collection has taken, what the entry knows of its last demand is at most `Collect` too young, and a plan that polls was made within the idle grace of that |
| `DemandPlanning_proof!RegistrationInvariant` | `Spec => []RegistrationIsKept` | `LeaseInv`, with `Covered`: the time left of a lease covers the time until its renewal arrives even if all failures that are left happen: the assumption on `Lease` is what this argument needs |
| `Automation_proof!EveryEntryIsServed`, `QueueImplementsLatestWrite` | `QueueSpec => []EntryIsServed`, `QueueSpec => LatestWriteWins` | `QueueInv`: `EntryIsServed`, a tag is waiting or being written and not both counted twice, and an entry without a value is nobody's |
| `Automation_proof!TypeCorrect`, `StateStaysWithItem`, `RunsAreDemanded` | `Spec => []TypeOK`, `[]KeptBelongsToItem`, `[]RunIsDemanded` | `AutomationInv`, with `RunCurrent`: while the revision is the run's, the item at its position is the one captured; and what a load has copied belongs to the items it was copied from |
| `Automation_proof!StaleLoadsAreNoticed` | `Spec => []StaleLoadIsNoticed` | `FreshInv`, with `LoadFresh`: no time that is loaded or about to be is ahead of the file's, and a load that is to install the file's time holds the file's content |
| `Automation_proof!AutomationImplementsLatestWrite` | `Spec => LatestWriteWins` | every step of the composition is a step of the queue or leaves it alone (`SchedulerUsesQueue`: `Spec => QueueSpec`) |
| `AlarmClient_proof!TypeCorrect`, `ReturnsAnswerActivations`, `PendingActivationsHold` | `Spec => []TypeOK`, `[]EventsPair`, `[]PendingHolds` | `IInv == EngineInv /\ ClientOK`, with `AlarmOK` for every alarm: an armed alarm is active, and the last event of an armed alarm is its activation unless it was overwritten by a stale restore |
| `AlarmClient_proof!StaleRulesNoticed` | `Spec => []StaleRulesAreNoticed` | `RulesInv`, with `RememberedOK`: unless the service has fallen back, the contents remembered are those of the rules in force and a time that is opcbridge's goes with its rules; and `BodiesOK`: the latter for the bodies that reloaders have fetched and not installed yet |

Why strengthenings are needed: `GoodRowHasEvidence` says nothing of rows that are not
GOOD, so a step that makes one GOOD needs to know of which epoch its gate is.
`DemandIsPolled` compares histories, how long each source has demanded the tag, with the
age of the plan; induction needs what connects them, and it needs it from the moment on at
which that source is read, which is not the same for both: while a collection has read the
observations only, nothing is known yet of leases it will not find.

The argument for `NoPreWriteGood`: what a lane has read, and holds or has prefetched,
either reflects every write that has returned, or its read started before what the gates
of the tag's rows ask for, so that its commit cannot make a row GOOD. A writer whose driver
was replaced before it returned does not restart the new driver's gates; but its write
came before that driver, whose reads therefore reflect it: such writers are counted as
returned already.

The argument for `TagCache`: while a sample waits, in the lane's hands or in
`logixPrefetch`, no other sample of its tag can be committed, for a tag has one lane and
the lane does not read it before it has used what it has. So every row of the tag is still
as old as it was when the sample was read, or withdrawn.

The argument for the two drain properties: the last word on the way of a row's lane (its
outbox, then `uaQueue`, then the drain's copy) is the row itself while the row is GOOD; an
update that says GOOD and that the drain would still let through, although its row is no
longer GOOD, is followed by a correction on the same way; and what writers announce in
front of it are Waiting updates only, which the drain drops for a row that is GOOD. While a
reload replaces the driver both are suspended (`Reloading`): its end starts the nodes
afresh.

The argument for `ReloadService`: the slot is free only between two reloads and the main
loop is in a reload only for the request in the slot (`SlotInv`), so the job of the abstract
service is well defined and at most one. A load reads its target from the main loop's copy,
which `OwnInv` says is the slot's; a load that fails rebuilds nothing that counts, and a
reload that ends with success has kept the flag its load set. That a caller's outcome is
recorded exactly once, when its request leaves the slot, is what `Accept` and `Restart` need:
the one may not accept a caller whose reload has ended, the other ends exactly the job there is.

The argument for the two lane properties: stopping lanes and replacing drivers are separate
phases, between which lanes of other connections go on leaving. None comes into being in
between, because lanes are started by the main loop only, after the load; so what has been
stopped stays stopped until then, and what is started has the generation of the loop.

The arguments for `StaleLoadIsNoticed` and `StaleRulesAreNoticed` are one: a time is never
ahead of the file's, and whatever is on its way with the file's current time was read since
the last change. A change makes the file's time larger than all of them at once. The two
differ in what is on the way: in `logic.json` the time is taken before the text, so that a
pair may be older in time than in content, never the other way round; a body of rules
carries both as of one moment. The contents that the alarm service compares besides the
time need no order: they are swapped together with the rules.

Every safety property of a passing run is proved. Only model-checked is what happens in
the end (`RequestCompletes`, `PollersResume`, `AbandonedTagIdles`, `RegistrationReturns`,
`EveryTagIsWritten`, `LoadsConverge`, `OutputsConverge`, `AlarmsConverge`, `BaselineEnds`,
`RulesConverge`): liveness under fairness is out of reach of the prover. Of four of
these the part that is safety is stated on its own and proved: `DriversArePolled` for
`PollersResume`, `UnwantedIsSuspended` for `AbandonedTagIdles`, `StaleLoadIsNoticed` for
`LoadsConverge`, `StaleRulesAreNoticed` for `RulesConverge`. What TLC alone shows there is
that the awaited moment comes. The refinements are proved for `Spec`; that `LogicWriteQueue`
also implements the fairness of `LatestWrite` is `EveryTagIsWritten`.

## 7. Disagreements between code and documentation

1. **Array roots have no gate** (run `array_root`, `main.cpp:30593`). The commit of an
   array stores and publishes a row for its root, but no poll gate is ever made for it,
   and a readback after a write to an element does not touch it. It stays GOOD with the
   elements read before the write, and stays so as long as the tag is suspended. The
   design document (`docs/design/active-tag-polling.md:721`, `:742`, `:1162-1165`) says
   that every commit applies the gate, that a write invalidates its root, and that array
   roots have no row of their own.
2. **A save that is taken back** (run `reload_revert`, `runtime_config_state.h:59`). The
   capture is made before the load. A content saved between the two and taken back before
   the end was loaded, but the captured content equals the saved one, and no change is
   reported as pending. The comment at lines 8-9 promises otherwise.
3. **Another reload's result** (run `reload_swallowed`, `main.cpp:24592`). A handler waits
   for the flag of the slot, not for the end of its own request. If another request takes
   the slot before it wakes up, it reports that one's result as its own: a failed reload
   is answered with success.
4. **Two counters** (run `reload_numbers`, `app.js:12046`). Full and targeted reloads are
   numbered by different counters, the workspace compares their numbers and takes a
   smaller one for an older reload. It goes on waiting for a reload that has ended.
5. **A reload that never ends** (run `alarms_lost_end`, opcbridge-alarms `main.cpp:9136`).
   When the connection is lost, or opcbridge restarts, between the two messages of a
   runtime reload, the reconnected alarm client still believes in the reload: only the
   second message resets `runtimeMaintenance` (9198), and the loop that would seed the
   alarms is skipped (9229). Until the next reload no alarm event is recorded.
   `src/opcbridge-scada/docs/alarm-server-api.md:322-324`, to which the alarm service's own
   document refers, says that it tolerates restarts and reloads of opcbridge.

## 8. What is not covered

The modules that section 2 lists as next, and for good: the vendored libraries
(`open62541.c`, `open62541.h` and two copies of `httplib.h` are four fifths of the lines of
the implementation), drivers, formatting and parsing of values and messages,
authentication, user interfaces, reports and packaging.

Within the modelled parts:

- value types that the OPC UA write callback does not know: it returns early for 64-bit
  integers and strings (`main.cpp:5738`), so that the refresh announced at 5757-5758 does
  not happen; the model has one value type per tag;
- demand that passes from one source to another while they are read, from a later-read one
  to an earlier-read one (`main.cpp:14587-14592`): the collection finds it in neither, and
  when the tag has had no demand that was found for longer than the idle grace, for example
  because the main loop has stalled, it is suspended until the next collection;
- a delayed activation that is pending when its alarm is given a new rule: it is carried
  over (opcbridge-alarms `main.cpp:9560`) and may fire before a value has been compared with
  that rule (8354); the model does the same, and `PendingHolds` speaks of the rule in force
  when the value came;
- the content of the response's `opcua_sync`, which the handler reads without the lock;
- a connection of a full reload that cannot be built is only logged; the model has it as
  a connection that is not in `up`, and no property says that anybody is told;
- a demand client with several opcbridge servers, whose time-outs add up;
- numeric widths: generations and epochs are 64 bits wide and are incremented once per
  reload;
- an alarm whose threshold is met by its value exactly and whose hysteresis is 0: the
  comparison that activates it (opcbridge-alarms `main.cpp:8225`) and the one that returns
  it (8226) both hold, and it toggles with every value. `AlarmsConverge` is checked for
  rules in which a level that activates an alarm also keeps it active;
- restoring alarms from more than 50000 events: the oldest of them are read (2724);
- the database of the alarm service failing, and the end of a baseline by an answer that
  was asked for before the baseline began (9245), which the model has and no property
  forbids.

Read and not modelled, for whoever continues with the logger (`opcbridge_logger.cpp`):

- `run_sync_job_v2` (2930-3202) loads both sides before its transactions and cuts them by
  time, not by period; a period that the edge of the lookback or of a backfill chunk
  splits looks absent on one side, while `docs/manual/OPCBridge-Suite-Manual.md:698` says
  that any row in the period counts;
- `start_backfill` (3264-3290) does not refuse while a synchronisation or a dry run is
  under way;
- `save_runtime_state` (2554-2610) truncates and writes its file outside the mutex;
- `reload` (1720-1742) copies the statuses of running synchronisations before it swaps
  them in, so that one that ends in between stays "running".

## 9. Running it

In this directory:

    tlc -workers 2 -config PollPublishReload.cfg MCPollPublish.tla
    tlapm PollPublish_proof.tla

| Configurations | Module |
|---|---|
| `PollPublish*.cfg` | `MCPollPublish` |
| `RuntimeReload*.cfg` | `MCRuntimeReload` |
| `Demand.cfg` | `MCDemandPlanning` |
| `LogicWriteQueue.cfg` | `LogicWriteQueue` |
| `Automation.cfg` | `MCAutomation` |
| `AlarmClient*.cfg` | `MCAlarmClient` |

The passing runs take between some seconds and four minutes each on two cores. The proof
modules are `PollPublish_proof`, `PollPublishWrite_proof`, `PollPublishNode_proof`,
`PollPublishDrain_proof` (which extends the three before it), `RuntimeReload_proof`,
`DemandPlanning_proof`, `Automation_proof` and `AlarmClient_proof`.
