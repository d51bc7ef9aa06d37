# TLA+ models of the ncollectd plugin host

This directory holds TLA+ models of the runtime core in `src/src/daemon/plugin.c`:
- the read scheduler;
- the write queue and the dispatch path that feeds it;
- load shedding;
- the callback registries, shown to implement an abstract name→callback map;
- the cache-event fan-out;
- the thread-local execution context and every place that captures or installs it;
- the `ping` plugin's thread and its read callback (`src/src/plugins/ping/ping.c`);
- the `cpu` plugin's per-CPU rate state and its aggregation, and its topology labels (`src/src/plugins/cpu/cpu.c`);
- the `modbus` plugin's connection to one host: reconnects, error paths and the free at shutdown (`src/src/plugins/modbus/modbus.c`).

Each model comes with TLC configurations that check it. `PROJECT.json` lists the components, the runs, the mutants, the map from definitions to source lines, the findings and the hazards.

## The system

`plugin.c` is a plugin host. Plugins register callbacks by name in per-kind registries. Those registries are linked lists: `list_init`, `list_write`, `list_flush`, `list_log`, `list_notification`, `list_shutdown` and `list_missing`. There is also a fixed table of 32 cache-event subscribers.

Read callbacks are kept in two structures:
- `read_list`, for lookup by name;
- the min-heap `read_heap`, ordered by `rf_next_read`.

They are serviced by a pool of read threads (`plugin_read_thread`). Each read thread does the following:
1. pops the earliest function;
2. sleeps on `read_cond` until it is due;
3. runs it with the function's saved context;
4. doubles `rf_effective_interval` on failure (capped at `max_read_interval`) or restores `rf_interval` on success;
5. reschedules it and pushes it back.

Unregistration does not touch the heap. It unlinks the function from `read_list` and marks it `RF_REMOVE`. The thread that pops it next frees it.

A read callback reports samples with `plugin_dispatch_metric_family`:
1. `check_drop_value` samples `write_queue_length` and may shed the sample, with a drop probability that ramps between `write_limit_low` and `write_limit_high`.
2. Otherwise `enqueue_metric_family` copies the family and appends it to the write queue.
3. The write threads (`plugin_write_thread`) dequeue items and run `plugin_dispatch_metric_internal`. That function runs the pre-cache chain (whose `FC_TARGET_STOP` verdict drops the item), then `uc_update`, then the post-cache chain or `fc_default_action`. The default action writes to every write callback.

Every callback runs under a thread-local context (`plugin_ctx_t`): the plugin's name and interval. `plugin_get_interval` reads it. It travels in four ways:
- the init loop installs each plugin's configured context around its init callback;
- a registered read function captures the context in `rf_ctx`, and the read thread installs it around each call;
- a queue item captures the dispatching thread's context, and the write thread installs it;
- `plugin_thread_create` passes the creator's context to the new thread.

Three plugins are modelled:
- `ping` runs its own thread next to its read callback.
- `modbus` registers one complex read callback per configured host. The host's `modbus_t` connection lives across reads and is freed by `host_free` at shutdown.
- `cpu` is a plain read callback. It keeps per-CPU rate state between calls, and a per-CPU topology array that its init and its commits fill from sysfs.

`plugin_shutdown_all` proceeds in this order:
1. stops and joins the read threads;
2. frees `read_list` and the heap;
3. stops and joins the write threads, then frees and counts what is left in the queue;
4. flushes;
5. runs the shutdown callbacks;
6. destroys the registries.

The plugins under `src/src/plugins/` are read, write or log callbacks. Only `ping` has a thread of its own.

## Modules

| module | models | source |
|---|---|---|
| `ReadScheduler` | heap, list, read threads, registration, lazy removal, start/stop, teardown | `plugin_read_thread`, `plugin_read_all_once`, `plugin_insert_read`, `plugin_register_*read`, `plugin_unregister_read*`, `start/stop_read_threads`, `destroy_read_heap`, `plugin_init_all`, `plugin_shutdown_all` |
| `WritePipeline` | dispatch with shedding, enqueue, write threads, per-item dispatch, stop and drain | `plugin_dispatch_metric_family`, `enqueue_metric_family`, `write_queue_enqueue`, `plugin_write_dequeue`, `plugin_write_thread`, `plugin_dispatch_metric_internal`, `stop_write_threads` |
| `RegistrySpec` | the abstract registry of spec 4.1: a map from names to callbacks with the order of first registration | — |
| `CallbackRegistry` | `list_flush` with its flush read functions: registration with every allocation failure, hot replace, unregistration, shutdown | `create_register_callback`, `register_callback`, `plugin_register_flush`, `plugin_unregister`, `plugin_unregister_flush`, `destroy_all_callbacks` |
| `CacheEvent` | the 32-slot subscriber table, masks stored per cache entry, fan-out of new, update and expiry events | `plugin_register_cache_event`, `plugin_unregister_cache_event`, `destroy_cache_event_callbacks`, `plugin_dispatch_cache_event` |
| `Shedding` | limit normalisation, drop probability, drop decision, as operators | `plugin_init_all`, `get_drop_probability`, `check_drop_value` |
| `ContextStore` | per-thread context storage with failing creation; the init call, read registration, the read call, enqueue, dequeue, `plugin_write`'s loop, thread creation and start, flush, missing, shutdown, log and notification callbacks | `plugin_ctx_create`, `create_register_callback`, `plugin_register_flush` and the other `plugin_register_*`, `plugin_flush`, `plugin_dispatch_missing`, `plugin_log`, `plugin_dispatch_notification`, `plugin_shutdown_all`, `plugin_get_ctx`, `plugin_set_ctx`, `plugin_get_interval`, `plugin_init_all`, `plugin_register_read`, `plugin_register_complex_read`, `plugin_read_thread`, `enqueue_metric_family`, `plugin_write_dequeue`, `plugin_write`, `plugin_thread_create`, `plugin_thread_start` |
| `CpuStage` | the Linux `cpu_read`: staging with realloc growth, aggregation, every dispatch variant, the reset | `cpu_stage`, `cpu_states_alloc`, `get_cpu_state`, `aggregate`, `cpu_commit*`, `cpu_reset`, `cpu_read` |
| `CpuTopology` | the topology array: the sysfs scan, the hex cpumap parser, the rescan test and the node label of each per-CPU metric | `cpu_topology_alloc`, `get_cpu_topology`, `cpu_topology_set_node`, `hex_to_int`, `cpu_topology_node_callback`, `cpu_topology_id_callback`, `cpu_topology_scan`, `cpu_topology_set_labels`, `init` |
| `ModbusHost` | one host's connection: the connection checks, the reconnect and the error paths of each data item, and the free at shutdown | `mb_init_connection`, `mb_read_data`, `mb_read_slave`, `mb_read`, `host_free` |
| `PingThread` | the ping thread, the read callback with its restart, start, stop, init and shutdown | `ping_thread`, `ping_dispatch_all`, `ping_read`, `start_thread`, `stop_thread`, `ping_init`, `ping_shutdown` |

`MC_ReadScheduler`, `MC_WritePipeline`, `MC_CallbackRegistry`, `MC_CacheEvent`, `MC_PingThread`, `MC_ContextStore`, `MC_CpuStage`, `MC_CpuTopology` and `MC_ModbusHost` fix the model values and sets that TLC needs.

### ReadScheduler

- **Read functions.** A `read_func_t` is an element of a pool `Objs`.
  - `mem[o]` records whether the object was never allocated, is live, was freed, or was freed twice ("corrupt").
  - `rf[o]` holds its fields: name, group, type (simple, complex or remove), `rf_interval`, `rf_effective_interval`, and the due time.
- **Time is relative.** `rf[o].next` is `rf_next_read - now`.
  - `Tick` moves every due time one unit into the past.
  - While the threads run, `Tick` stops once a task is `MaxLag` overdue. So the model covers schedules in which the threads keep up within `MaxLag`.
  - The reschedule `rf_next_read += eff; if (< now) = now` becomes `next := max(next + eff, 0)`.
- **Read threads.** Each read thread has a program counter, split at the points where another thread can interfere:
  - `ReadLoopTest`: the unlocked `while (read_loop)`.
  - `GetRoot`: `c_heap_get_root`, or the `pthread_cond_wait` on an empty heap.
  - `TimedWaitDone`: the end of the timed wait, and the copy of `rf_type` under the lock.
  - `CheckTask`: stop and re-insert, reap `RF_REMOVE`, or go on to call.
  - `ReadDone`: the callback succeeds or fails, followed by back-off, reschedule and re-insert.
- **Thread start.** `start_read_threads` starts any subset of `Workers`, with `allocated` false when its `calloc` fails. Only the threads in `started` run. When `read_threads` is NULL, `stop_read_threads` returns at once, and `destroy_read_heap` follows directly.
- **One-shot mode.** With `ReadThreads` = −1, `plugin_init_all` starts no read threads. Then `plugin_read_all_once` drains the heap, one action per pass of its loop: pop the root, call it, free it. The phase "once" marks this mode. `read_list` keeps the freed objects until shutdown destroys it, so the `read_list` part of `TaskOwnership` is stated only before the drain.
- **Heap ties.** The heap is a set, and `GetRoot` takes any element with minimal due time. The comparator breaks no ties.
- **Wake-ups.**
  - A broadcast on `read_cond` (registration, stop) moves threads out of `pthread_cond_wait`.
  - Threads in the timed wait re-check their predicate, so the broadcast changes nothing for them.

### WritePipeline

- **Items.** An item is a metric-family copy from the pool `Items`.
  - `fate[i]` follows it: `copied`, `queued`, `taken`, `written`, `stopped` (pre-cache chain `FC_TARGET_STOP`), `discarded` (freed by the drain), `dropped` (shed), or `failed` (clone or calloc failed).
- **Producers.** `DispatchCheck` is the shedding test plus the copy. `write_queue_enqueue` is the locked append and the signal. Its length update keeps both branches of the code: on an empty queue (`write_queue_tail` NULL) `write_queue_length` is set to the node count, one, and otherwise it is incremented. `dropped` counts a shed item only when `RecordStatistics` (`CollectInternalStats`) is on, as the `record_statistics` test at line 2225 does.
  - Producers are read threads: they dispatch only while the pipeline runs, and `stop_write_threads` comes after they are joined, as in `plugin_shutdown_all`. A plugin-owned thread that dispatches after the drain is not modelled (see the hazard at line 919).
- **Thread start.** `start_write_threads` starts any subset of `Writers`, with `allocated` false when its `calloc` fails. `plugin_init_all` ignores both failures. When `write_threads` is NULL, `stop_write_threads` returns before it clears `write_loop` or frees the queue.
- **Write threads.** They loop through `WriteLoopTest`, `plugin_write_dequeue` (one pass of its critical section), and `plugin_dispatch_metric_internal`.
- **Shutdown.** `StopWriteThreads` clears `write_loop` and broadcasts. `DrainQueue` is the part after the joins.

### CallbackRegistry and RegistrySpec

- **Which registry.** Every registry goes through the same generic code (`create_register_callback`, `register_callback`, `plugin_unregister`, `destroy_all_callbacks`). The model instantiates it at `list_flush`, because `plugin_register_flush` is the one registration that also does more: from a context with a flush interval it registers the complex read function `flush/<name>`.
- **State.** `list` is the llist as a sequence of `[key, cf]` entries. `timers` holds the flush read functions. `freed[x]` counts how often `free_func` ran on each user data `x` (from `Datas`) and on each `flush_callback_t` (from `Cbs`).
- **Failures.** A registration picks where its allocation fails, if it does:
  - `cf`: the callback allocation, the llist or the key copy, which release the user data;
  - `name`: the flush name or the `flush_callback_t`;
  - `read`: inside `plugin_register_complex_read`, which releases the `flush_callback_t`.
- **Refinement.** `RegistrySpec` is what spec 4.1 promises. `CallbackRegistry` maps onto it with `INSTANCE RegistrySpec WITH`:
  - `reg` becomes the callback of the first entry of each key;
  - `order` becomes the sequence of keys.

  `RefinesRegistry` checks `Abs!Spec` as a property.

### CacheEvent

- **State.** `slots` is `list_cache_event[0 .. list_cache_event_num-1]`. Each slot has a name and is active or nulled.
- **The value cache** is reduced to two things: the set `present` of entries, and `mask[e]`, the mask stored by `uc_set_callbacks_mask`. A mask bit is kept together with the name of the subscriber that set it.
- **Events.** `DispatchNew` lets any subset of the active subscribers ask for the entry. `DispatchUpdate` computes the set `invoked` of subscribers called, using the code's test `callbacks_mask && (1 << (i)) == 0` as written.
- **Leaks.** The full-table and duplicate-name paths return without freeing the `strdup`'d name (lines 1380–1404). That leak needs no model to see, so it is listed as a hazard rather than checked.

### Shedding

Shedding is a pure algorithm, a module of operators with no state. `WritePipeline` extends it:
- `WriteLimits` is `NormLimits` of the configured `WriteQueueLimitHigh` and `WriteQueueLimitLow`;
- `DropOutcomes(wql)` is the set of what `check_drop_value` returns over every draw.

So the write pipeline's producers shed by the code's own decision. `WritePipeline` also checks the operators. `ProbabilityWellDefined` takes, in every state, the queue length `wql` the pipeline has reached, and quantify over every configuration in `RawHighs` × (`RawLows` ∪ {unset}).

Probabilities are exact fractions. The draw `cdrand_d()` in [0, 1) is the grid k/12.

### ContextStore

- **State.** `tls[t]` is the `plugin_ctx_t` that thread `t` stores under `plugin_ctx_key`, or `Null` before the first use. A context is a name and an interval; `CtxInit` is `ctx_init`. The threads are `main` (`plugin_init_all`), one read thread, one write thread and `plugin`, a thread the plugin `Owner` starts with `plugin_thread_create`.
- **Helpers.** `plugin_get_ctx` and `plugin_set_ctx` return `[tls, ret]`: the storage afterwards and the value returned. On empty storage both call `plugin_ctx_create`, whose `malloc` may fail; then `ctx_init` is returned and, for `plugin_set_ctx`, the new context is dropped. A vector `f` says which calls of a step fail; `Failed` spends them from `MaxFails` and records the thread in `failed`.
- **Steps.** The context is thread-local, so a thread's calls between two interactions with another thread are one action:
  - `plugin_init_all`: `plugin_set_ctx(cf_ctx)`, Owner's init callback, which registers a read function (`RegisterRead`, simple or complex, each in its code's order) and may start the thread, then the restore; the read and write threads start.
  - `plugin_read_thread`: `plugin_set_ctx(rf_ctx)`, a read callback that dispatches one metric family (`Enqueue`: the interval stamp, then the captured context), may call `plugin_log` or `plugin_dispatch_notification` (`KeepCtxCallback`: no context switch) and may start the thread, then the restore.
  - `plugin_dispatch_missing`: the main loop's `uc_check_timeout` calls `plugin_dispatch_missing`, which runs the missing callback through `RunCallback`.
  - `plugin_write_dequeue`: take an item and install its context, never restored (line 840).
  - `plugin_write`: one writer of `list_write`: get, replace the name, set, the callback's view, restore.
  - `plugin_thread_start`, then `ThreadDispatch`: install the captured context, dispatch.
  - `plugin_shutdown_all`: once the read threads are done, the queue is empty and the started thread has ended, `plugin_flush(NULL)` and the loop over `list_shutdown` each run Owner's callback through `RunCallback`: set `cf_ctx`, the callback's view, restore.
- **Registration.** The init callback also registers a flush, a missing, a shutdown, a log and a notification callback. `create_register_callback` captures `plugin_get_ctx` in `cf_ctx`, unless its `calloc` fails (`okF`, `okS`), and then nothing is registered (`reg[k] = Null`). The configuration gives no `FlushInterval`, so `plugin_register_flush` adds no flush read function.
- **Observations.** `readObs`, `writeObs` and `shutObs` hold what each callback saw, with the item or the captured context it should match.

### PingThread

- **Threads.** Two threads share `ping_lock`: the ping thread (`tpc`) and the read thread that calls `ping_read` (`rpc`). The daemon's `phase` covers `ping_init` and `ping_shutdown`. `plugin_shutdown_all` calls `ping_shutdown` after the read threads are joined, so shutdown starts only while `ping_read` is idle. It also calls it when `ping_init` failed.
- **Shared state.** `loop` and `err` are `ping_thread_loop` and `ping_thread_error`. `sent`, `recv` and `missed` are the per-host counters. `inObj` is the set of hosts in the thread's ping object. `HostList` is `hostlist_head` in list order.
- **Thread steps.** Each action is one stretch between lock operations:
  - `ThreadStart`: `ping_construct`, the host adds, and the first locked loop test with `gettimeofday`.
  - `ThreadSend`: `ping_send`, then under the lock the loop test, `ping_dispatch_all` if the send succeeded, `gettimeofday`, and the start of the timed wait.
  - `ThreadWake`: the return of `pthread_cond_timedwait`, by timeout or broadcast.
  Every `break` leads to `ThreadExit`.
- **Reader steps.**
  - `ping_read_begin`: the unlocked test of `ping_thread_error`. On an error it also does the first half of `stop_thread`.
  - `ReadRestart`: after the join, the counter reset and `start_thread`.
  - `ping_read_host`: one host of the loop. It snapshots and resets both counters under the lock and computes `pkg_sent - pkg_recv` in `uint32_t` (`Wrap32`).
- **Failures.** `ping_construct`, `ping_host_add` at start or at a resolve, and `gettimeofday` may fail. Each failure spends one of `MaxFaults`. A failed or unanswered echo is free. `plugin_thread_create` may fail at `ping_init`, and in the restart only when `RestartCreateMayFail`.
- **Data left out.** Latencies, the latency distributions and the metric families are data. `ping_config` is option parsing and is reduced to `HostList`. `MaxMissed` is modelled enabled (`>= 0`); when disabled, `pkg_missed` is never read.
- **Word width.** `uint32_t` wraps at `UIntMod`: 2^32 in the code, 2^16 in `MC_PingThread` because TLC's integers stop at 2^31. The counters stay far below either, so a wrap happens at the same points.

### CpuStage

- **State.** `cs` is `cpu_states`, one slot `[rate, has_value]` per CPU and state at `cpu * StateMax + state`, as in `get_cpu_state`. The last state of a CPU is `ACTIVE`, which only `aggregate` writes. `cpu_states_num` and `global_cpu_num` are the code's. `cfg` holds the four reporting options; `Init` takes every combination.
- **One read is one action.** `cpu_read` is the read callback, run on one read thread, so its whole body is one step. Its inputs are: the CPUs `/proc/stat` lists, what `value_to_rate` returns for each staged value (a rate or `Fail`), and which reallocs fail. `StageAll` stages the lines in order, each in the code's order (`idle` before `user`). Then come `cpu_commit` and `cpu_reset`. `ReadOpenFailed` is the early return when `fopen` fails.
- **Commit.** `cpu_commit` follows the code's branches: `cpu_commit_num_cpu`, then either the counters (`cpu_commit_all_without_aggregation`, and `cpu_commit_without_aggregation` when `ReportByCpu`) or `aggregate`, `cpu_commit_all` and the per-CPU `cpu_commit_one`. `out` keeps what was dispatched: a percentage `100 * r / sum` as the fraction `[n |-> r, d |-> sum]`, and a counter as the set of CPUs whose last derive value it sums.
- **NaN.** `RATE_ADD` is `RateAdd`, with `NaN` as its identity, and `RateSum` folds it with `FoldFunctionOnSet`.
- **Crash.** A walk that meets a NULL `get_cpu_state` without testing it sets `crashed`; this is the segfault.
- **Data left out.** `value_to_rate` is not in this repository. Its result is an input, and its conversion state is not kept. The derive values and the guest subtraction are data. The topology labels are `CpuTopology`'s.

### ModbusHost

- **State.** `conn` is `host->connection`, the id of the `modbus_t` it points to, or 0 for NULL. `life[c]` says whether object `c` was not created yet, is live, or was freed. `link[c]` says whether its socket is connected. `peerUp` is the TCP server or serial device. `conntype` is TCP or RTU.
- **Actions.** `mb_read` starts a read; the read thread holds the host's read function, so no two reads of one host overlap. `ReadItem` is one `mb_read_data` call, of `mb_read_slave`'s loop over the data items of every slave. After the last item it records what `mb_read` returns. `host_free` is the read function's `free_func`, called at shutdown between reads.
- **One item.** `PeerStatus` is the status before the reconnect: `EBADF` for NULL; for TCP, what `getpeername` returns. That is 0 on a connected socket, and 0 (after a FIN) or `ENOTCONN` (after a reset) on a broken one. With `OtherErrno` it may also be another errno, such as `ENOBUFS`. `EBADF`, `ENOTSOCK` and `ENOTCONN` call `mb_init_connection`, which returns at once when an object exists. Otherwise it creates one, or fails (`modbus_new_*` returns NULL), and connects, freeing the object and clearing the pointer when `modbus_connect` fails. Any other error closes and frees the object (`CloseFree`). `ReadRegisters` then calls `modbus_set_slave` and the register read, which succeeds only on a live, connected object while the peer is up. A failed read closes, frees and clears the pointer.
- **Environment.** `PeerDown`, `PeerUp` and `LinkReset` happen between items, within `MaxFaults` together with the failures of `modbus_new_*` and `getpeername`.
- **History.** `failedAt` is the fault count when the last item failed, and −1 after a success. It lets `RecoversWithinOneItem` tell a second failure from the same fault apart from a failure after a new one.
- **Use after free.** `Use` and `CloseFree` set `uaf` when they reach an object that is already freed. What a call on freed memory returns is undefined; the model lets `getpeername` return either outcome, and `modbus_set_slave` succeed.
- **Left out.** Configuration parsing, the register decoding and scaling, `mb_submit`, and the legacy libmodbus 2.0 branch are left out.

### CpuTopology

- **State.** `topo` is `cpu_topology` and `cpu_topology_num`, with only the node label of each entry. The core, socket, book and drawer labels are each copied from one file of the CPU's own directory, and no other step clears them. `cpu_states_num` is the size `CpuStage` grows. `cfg` holds `ReportPercent`, `ReportByCpu` and `ReportTopology`.
- **The scan.** `cpu_topology_scan` clears every entry, grows the array for every `cpuN` directory (`SysCpus`), then runs `cpu_topology_node_callback` for each node directory in `NodeOrder`. `walk_directory` is not in this repository, and its order is a constant of the run. A cpumap buffer is a sequence of hex digit values and `Comma`. `ParseCpumap` is the code's loop: it walks from the end, steps back once more over a comma, skips a non-hex character, and for a digit calls `cpu_topology_set_node` on the next four CPUs with the digit's bits, growing the array as `get_cpu_topology` does.
- **Actions.** `init` is the init callback, which scans whatever `ReportTopology` says. `cpu_read` is the topology part of a read: the staging has grown `cpu_states` to `k` CPUs and raised `global_cpu_num` to `gcn`, and `cpu_commit` then follows the code's two paths. With `ReportPercent`, `cpu_commit_one` runs the rescan test and `cpu_topology_set_labels` for every CPU below `global_cpu_num`. Without it, `cpu_commit_without_aggregation` tests once and labels the CPUs that have a value.
- **The reference.** `CpuNode(c)` reads the cpumaps as hex numbers (`CpumapValue`, the commas left out) and names the node whose number has bit `c`.
- **Left out.** Failed reallocs of the topology array and failed sysfs reads are left out. The rates are `CpuStage`'s.

## Runs

| run | checks | shows |
|---|---|---|
| `rs` (pass) | `TypeOK`, `TaskOwnership`, `ReadProgress` | See below. |
| `rs_shutdown` (violation) | `ShutdownTerminates` | **Lost wake-up.** A thread passes `while (read_loop)`. Then `stop_read_threads` clears the flag and broadcasts. The thread locks, finds the heap empty, and waits on `read_cond` forever, so `pthread_join` hangs. With the default 5 read threads and fewer due tasks, an empty heap is common. |
| `wp` (pass) | `TypeOK`, `QueueOvershoot`, `ItemsHandled`, `WritersTerminate`, `ProbabilityWellDefined` | See below. |
| `reg` (pass) | `TypeOK`, `UserDataOwnership`, `RefinesRegistry` | Through hot replace, every allocation failure, unregistration and shutdown, each user data and `flush_callback_t` is released exactly once, when its owner goes. The llist implements the abstract registry. |
| `ce` (pass) | `TypeOK`, `MaskBitsStable` | Subscribers register, fail, unregister and re-register, while entries are created, updated and expired. A stored mask bit never comes to name another subscriber. |
| `ping` (pass) | `TypeOK`, `DropRateValid`, `PingerRecovers`, `ShutdownStopsThread` | See below. |
| `ping_restart` (violation) | `PingerRecovers` | **Thread never restarted.** The thread gives up and sets `ping_thread_error`. `ping_read` stops it and calls `start_thread`, which clears the error flag before `plugin_thread_create`. When the create fails, it clears `ping_thread_loop` and returns −1, and `ping_read` ignores that. With both flags clear, no later read restarts the thread. The plugin stays loaded and never pings again. |
| `cpu` (pass) | `NoNullState`, `PercentagesConsistent`, `NoStaleRate` | See below. |
| `cpu_topology` (violation) | `NodeLabelMatchesCpumap` | **Node labels wiped.** A cpumap has a bit for every CPU position, and `cpu_topology_set_node` empties the label of every CPU whose bit is 0. On a machine with two NUMA nodes (`node0` lists cpu0, `node1` lists cpu1), the parse of `node1` empties cpu0's label. So every per-CPU metric of cpu0 goes out without a `node` label. Only the CPUs of the last node `walk_directory` visits keep theirs. |
| `modbus` (pass) | `TypeOK`, `ConnectionOwned`, `RecoversWithinOneItem` | See below. |
| `modbus_uaf` (violation) | `NoUseAfterFree` | **Use after free and double free.** A TCP read connects for its first item. On the second item, `getpeername` fails with an errno other than the three that reconnect. `mb_read_data` closes and frees the connection, but does not clear `host->connection` (lines 484–489). It goes on to `modbus_set_slave` on the freed object. The register read fails, and lines 524–525 close and free it a second time. |
| `ctx` (pass) | `TypeOK`, `ReadCallbackContext`, `WriteCallbackContext`, `RegisteredCallbackContext`, `CallerContextKept` | See below. |

What the `rs` run shows:
- **`TaskOwnership`.** Lazy removal, the stop path and the reap path together keep this true:
  - no read function is freed twice;
  - a live function is either in the heap or held by exactly one thread, never both;
  - `read_list` holds exactly the live functions that are not marked for removal.
- **`ReadProgress`.** While the scheduler runs, every listed function is read again and again. This is stated for the runs in which every requested thread started. With fewer threads, one thread sleeping on a task leaves another overdue by more than `MaxLag`, and the model stops the clock there.

What the `ping` run shows:
- **`DropRateValid`.** The reported drop rate is in [0, 1]: `pkg_recv` never exceeds `pkg_sent` in the `uint32_t` subtraction. This holds through every interleaving of dispatch, per-host reads and the restart's reset.
- **`PingerRecovers`.** While the plugin is loaded, a thread out of its loop gets back into it. The thread has given up after a failure, or the restart has just created it.
- **`ShutdownStopsThread`.** After `ping_shutdown` clears the loop flag, the thread leaves from whatever stage it is in, and `pthread_join` returns.

What the `cpu` run shows, over three reads of two CPUs that appear and vanish, with failing conversions and reallocs, under every reporting option:
- **`NoNullState`.** No walk below `global_cpu_num` meets a CPU without slots. `cpu_stage` raises `global_cpu_num` only after `cpu_states_alloc` succeeded, and that order is all that keeps the unchecked walks safe when memory runs out.
- **`PercentagesConsistent`.** In each dispatched family, the `all` family or one CPU's, the percentages that have a value add up to 100. With `ReportByState` false, the one `active` percentage is at most 100.
- **`NoStaleRate`.** Everything a read dispatches was staged in that read. A slot whose conversion failed keeps an old rate, and `has_value` keeps it out.

What the `ctx` run shows, in every thread where `plugin_ctx_create` did not fail:
- **`ReadCallbackContext`.** A read callback sees its plugin's name and the read function's interval: the argument of `plugin_register_complex_read` when it is not 0, else the configuration block's, else the default. The context crosses from the init call to `rf_ctx` to the read thread.
- **`WriteCallbackContext`.** A write callback sees its own name and the interval its item was stamped with in the dispatching thread.
- **`RegisteredCallbackContext`.** The flush, missing and shutdown callbacks see the context captured at their registration, during the init call, in another step. After `plugin_init_all`, `plugin_read_all` and `plugin_shutdown_all`, the main thread holds its own context again.
- **`CallerContextKept`.** A log or notification callback called from a read callback sees the reading plugin's name and the read function's interval, not the registering block's.

What the `wp` run shows:
- **`QueueOvershoot`.** Because the check and the enqueue are separate critical sections, the queue passes the high mark, but by less than one item per producer.
- **`ItemsHandled`.** When at least one write thread started, every queued item ends up written, stopped by the chain, or counted by the drain. With none, the queue is never served until shutdown, which is how the code behaves (hazard at line 867).
- **`WritersTerminate`.** Every started write thread terminates after the stop.
- **`ProbabilityWellDefined`.** For every configuration, including negative and inverted limits, the drop probability is a monotone ramp. It is 0 below the low mark and 1 at the high mark.

What the `modbus` run shows, for one host, TCP or RTU, through resets, the peer going down and up, and failed `modbus_new_*` calls, with `getpeername` failing only with the errnos that reconnect:
- **`ConnectionOwned`.** While the daemon runs, `host->connection` is NULL or the one live `modbus_t`. Every object that a path gives up is freed and its pointer cleared, and none is live after `host_free`. A mutant that skips `modbus_free` after a failed `modbus_connect` leaks. One that keeps the pointer there is harmless, because `mb_read_data` clears it on that failure (line 476).
- **`RecoversWithinOneItem`.** After a failed item, the next item read while the peer is up succeeds, unless a new fault came in between. The `ENOTCONN` reconnect is a no-op (line 371), so a reset always costs the item that meets it. The register read then frees the object and clears the pointer, and the next item reconnects on `EBADF`. So the cost is one item, never more.

Every property of a passing run has a mutant in `PROJECT.json`: a plausible bug in the mapped definition under which TLC finds the property violated. The mutants are:
- for the read scheduler: the missing broadcast on registration, the stop path not re-inserting, and the uncapped doubling;
- for the write pipeline: the missing signal, a drop test without the `p == 1` return, a loop that ignores `write_loop`, and a decrement before the NULL check;
- for the registry: a replace that does not destroy the old callback, an append without searching, and an unregistration that leaves the flush read function in `read_list`;
- for the cache events: a full test off by one, and a registration that reuses a nulled slot;
- for shedding, in the `wp` run: a dropped clamp;
- for modbus: a read that does not reset its count of successes, a failed connect that does not free the object, and a failed register read that frees the object but keeps the pointer;
- for the cpu plugin: `global_cpu_num` raised before the allocation, the ACTIVE rate not reset to NAN, and a `cpu_reset` that keeps `has_value`;
- for the context: a registration that does not overwrite `rf_ctx.interval`, a `plugin_write` that keeps the reader's name, and an off-by-one in the walk of `list_write`;
- for ping: a resolve that does not reset `pkg_missed`, a restart that resets `pkg_sent` but not `pkg_recv`, a thread that gives up on an empty ping object without setting the error flag, and a `stop_thread` test copied from `start_thread`.

## Bounds

- **Read scheduler.** 2 read threads, 2 names, 1 group, 2 `read_func_t` objects, intervals {1, 2}, `MaxReadInterval` 2 and `MaxLag` 1. About 1,000,000 states, 50 s.
  - Two objects suffice for every ownership conflict: one held while the other is in the heap, and a re-registration under the same name while the old object waits to be reaped.
  - Two threads suffice for the lost wake-up and for two holders.
  - The interval set contains 2 = `MaxReadInterval`, so back-off both doubles and hits the cap.
- **Write pipeline.** 2 write threads, 2 producers, 4 items, high 2 and low 1. About 185,000 states, 45 s, most of it the shedding checks over 30 configurations in every state.
  - Four items let the queue reach high + producers − 1 = 3 while one more item is being shed.
- **Callback registry.** 2 names, 3 user data objects and 3 `flush_callback_t`. That is enough for a registration, a hot replace of it and a third registration after unregistering, each with every failure point. About 8,000 states.
- **Cache events.** 2 subscribers, 2 entries, a table of 3 slots (32 in the code) and 4 registrations. So a subscriber can unregister and register again at a new index, and the table can fill up. About 42,000 states.
- **Shedding,** in the `wp` run. High ∈ {−1, 0, 1, 2, 3}, low ∈ {unset, −1, 0, 1, 3, 5}, and the queue lengths 0..3 that the run reaches. Together these cover:
  - the defaults and every clamp;
  - an empty ramp and a ramp of length 2;
  - every high mark both reached and not reached.

- **CPU.** 2 CPUs, the states `user` and `idle`, rates {1}, 3 reads, and 2 failed reallocs. About 15,000 states, 100 s.
  - Two CPUs let the second one grow the array, and let a CPU be listed in one read and missing in the next.
  - Two failed reallocs let both stage calls of a CPU fail, which is what a NULL state needs.
  - Three reads let a value staged in the first read meet a failed conversion in a later one.
  - One non-idle state and the idle one are the two roles `aggregate` tells apart.
- **CPU topology.** Two nodes of one CPU each, cpumaps of two comma-separated groups of one digit, 2 reads. TLC finds the violation after the first read.
- **Modbus.** One host with two data items, TCP or RTU.
  - The `modbus` run allows at most 6 connection objects, 3 faults and 3 reads, about 2,700 states. That is enough for a reset, the peer going down, and a failed allocation in one behaviour, each followed by a reconnect. It also covers two faults within one read.
  - The `modbus_uaf` run allows 4 objects, 2 faults and 3 reads. TLC finds the violation on the second item of the first read.
- **Context.** One plugin with an init and a read callback, 2 write callbacks, intervals {1, 2}, a complex-registration interval of 2 and a default of 1, 2 reads and 1 failed creation. About 3,000 states, 3 s.
  - The configuration block's interval is 0, 1 or 2, so every branch of `plugin_get_interval` and of the complex registration is met.
  - Two writers make the restore between writers matter.
  - One failure, in any call of any thread, shows the fallback staying in that thread.

- **Ping.** 2 hosts, `MaxMissed` 2, at most 2 echoes between reads, and 2 failures. About 20,000 states, 4 s.
  - Two hosts let one be lost to a failed add while the other is pinged.
  - Two failures allow a thread error, a restart, and a second failure after it.
  - `MaxMissed` 2 makes a resolve follow two misses in a row.

## Fairness

- **Threads.** Read and write threads get weak fairness. The OS keeps scheduling runnable threads, and every blocking point is modelled as a disabled action: a wait on a condition variable is a program counter that only another thread's action changes.
- **Clock.** The clock (`Tick`) gets weak fairness.
- **Enqueue.** A producer that has made its copy gets weak fairness to finish the enqueue.
- **Drain.** The drain after the joins gets weak fairness.
- **Ping.** The ping thread's steps, the read thread's steps, and the return of `pthread_join` in `ping_shutdown` get weak fairness. Each failure choice is part of a fair step, but there are at most `MaxFaults` of them, so they cannot block progress for ever.
- **Environment.** Registration, unregistration, dispatch and shutdown are environment actions and get no fairness: nothing forces a plugin to register or the daemon to stop.
- **CPU, modbus and context.** The `cpu`, `cpu_topology`, `modbus`, `modbus_uaf` and `ctx` runs check safety only, so they assume no fairness.
- **Symmetry.** No symmetry is used, because the runs check liveness.

## Not modelled (yet)

- **The other registries** (init, write, missing, log, notification, shutdown). They use the same generic code as `list_flush`. The unlocked iteration by `plugin_write` and `plugin_log` is not modelled, because no plugin of this repository changes the lists after init.
- **The one-shot drain.** In the one-shot mode, `plugin_init_all` unregisters the read function of a plugin whose init failed (line 1770). `plugin_read_all_once` then pops it and calls it anyway. Its only test is `rf_type == RF_SIMPLE`, so an `RF_REMOVE` function is called as a complex one (lines 1818–1830). `ReadScheduler` models the drain, and the `rs` run fires it. This is listed as a hazard, not a run of its own.
- **Parts of the cpu plugin.** Four parts are left out:
  - the other platforms' read paths;
  - the core, socket, book and drawer labels, which are copied from one file each;
  - the guest subtraction, which is data;
  - `value_to_rate`, which is not in this repository.

  Two edges are plain readings, not checked:
  - a read whose staged rates are all 0 dispatches 0 / 0 = NaN percentages;
  - `cpu_commit_without_aggregation` returns without `metric_reset(&m)` when no CPU has a value, which leaks the state label (lines 789–820).
- **Failures around the context.** `plugin_thread_create` failing (its `malloc` or `pthread_create`) is left out: the caller only sees an error and no thread, which the choice not to start one already covers. The `flush_interval` and `flush_timeout` fields of the context are not read by any modelled step.
- **The drop test between the marks.** `check_drop_value` drops when `q = cdrand_d() > p`, so with probability 1 − p, while spec 4.4 and the log message say p. At low 0, high 2 and length 0 the code sheds 7 of the 12 grid draws where p gives 4. TLC does not weigh probabilities, so this is a hazard with a note (line 2214).
- **Plugin loader, flush, log and notification dispatch.**
- **Plugins.** The other plugins are I/O and text conversion. In `ping`, `ping_config` is option parsing. It has a use after free at line 476: it frees `hl` and then calls `distribution_destroy(hl->dist_latency)` when `strdup` fails.
- **Late dispatch and hot replace.** Two scenarios are listed as hazards with notes rather than as runs:
  - a dispatch from a plugin-owned thread after `stop_write_threads` stays in the queue uncounted (line 919);
  - `plugin_register_flush` returns `EINVAL` on a hot replace from a context with a flush interval, though the replace took effect (line 1351).
- **Lost ping hosts.** A host whose `ping_host_add` fails, at start or at a resolve, is never pinged again and raises no error (lines 219 and 276). The model contains this path, and it is listed as a hazard.
- **The cache-event mask.** The test `callbacks_mask && (1 << (i)) == 0` at line 2090 parses as `callbacks_mask && ((1 << i) == 0)`, which is never true. So every active subscriber gets every update and expiry, not only those in the entry's mask as spec 4.6 says. `CacheEvent` models the test as written, and no property checks which subscribers are called. The overcall is a plain reading of the precedence, listed as a hazard.
- **Topology rescans.** The cpumap parse grows `cpu_topology` to four entries per hex digit, more than there are CPUs. So the rescan test at lines 705 and 791 stays true, and every per-CPU commit rescans sysfs. `CpuTopology` shows the growth in `topo.num`, but no property bounds the scans.
- **Cache order.** Items are enqueued before the cache update, and two write threads run `uc_update` in any order. So the value cache sees the samples of one producer out of dispatch order, where spec 4.5 has dispatch update the cache first (line 2236). `WritePipeline` contains these interleavings. The reordering is a plain reading of a FIFO served by two threads, and is listed as a hazard.
- **Apache: an empty body.** `apache_read_host` resets `apache_buffer_fill` to 0 but leaves the buffer's contents alone (line 523). Only `apache_curl_callback` writes and terminates the buffer, and curl calls it only for body bytes. When `curl_easy_perform` succeeds with an empty body (a 204, or an empty 200; `CURLOPT_FAILONERROR` is not set), the `strtok_r` loop at line 584 parses what the buffer held before:
  - on the first read, `apache_buffer` is still NULL from `calloc`, and `strtok_r(NULL, …)` with a NULL save pointer dereferences NULL;
  - later, it re-reads the previous response, and its counters and gauges are dispatched again as this read's.

  The read is sequential, one read thread at a time, so this is a plain reading of lines 523, 575 and 584, and the plugin is not modelled.
- **Ping shutdown leak.** `ping_shutdown` returns −1 before freeing the host list when no thread is flagged running (line 672). `PingThread` records the outcome; a leak at exit has no property.
- **Back-off above the maximum.** An `Interval` above `MaxReadInterval` is never clamped (line 1244). This is listed as a hazard: the `rs` run keeps intervals within the maximum, where the cap at line 558 bounds the back-off by its own `min`, so no property states it.

## Plan for the next steps

1. `ReadScheduler`: registration after init without read threads (line 1783).
2. `ContextStore`: a second missing callback, so the early return of `plugin_dispatch_missing` on a non-zero status is exercised, and `plugin_flush` with a plugin name.
