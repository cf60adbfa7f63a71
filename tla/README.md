# A TLA+ model of OpenStack Mitaka's orchestration core

The repository is a snapshot of OpenStack Mitaka: some thirty projects under
`src/OpenStack-Mitaka-src` and their installed dependencies under
`src/dist-packages`. This development models the parts of it in which processes
that share little but a database and a message queue have to agree on who does
what:

* **Heat's engine**: several engine processes drive the same stacks and
  coordinate by compare-and-swap on single rows; inside one engine a
  co-operative scheduler runs the tasks of a stack in dependency order;
* **Neutron's L3 agent**: the threads of one agent process keep the routers of
  a host in step with a server that notifies them, and with full syncs;
* **Ironic's conductor**: conductors reserve bare metal nodes, take them
  through deployment and cleaning together with an agent on the node, and take
  over from each other when one dies.

Paths in the parts on Heat are relative to
`src/OpenStack-Mitaka-src/heat/heat`, others to `src/OpenStack-Mitaka-src`.

## 1. The system

| part | state it keeps | operations | interacts with |
|---|---|---|---|
| sync points (`engine/sync_point.py`) | one row per node of a traversal: `input_data`, `atomic_key` | `create`, `get`, `sync`, `delete_all` | workers report to it; the report that completes the input casts the next check |
| stack traversals (`engine/stack.py`) | the stack row: current traversal, action, status, template, previous template, graph | `converge_stack`, `rollback`, `mark_complete`, `purge_db`, `state_set`, `store` | user requests, workers that fail or finish |
| dependency graphs (`engine/dependencies.py`) | edges between update and cleanup nodes | `leaves`, `roots`, `requires`, `required_by` | computed by the stack, read by every worker |
| worker (`engine/worker.py`) | none of its own: objects loaded from the database | `check_resource` and what it calls | message queue, resource rows, sync points, stack row |
| resource life cycle (`engine/resource.py`) | the resource row: action, status, template, requirements, replacement links | create, update, delete, replace, destroy | the clouds' APIs through the handlers of resource types |
| resource lock (`engine/resource.py`, `worker.py`) | `engine_id` and `atomic_key` of the row | `_acquire`, `_release`, `_try_steal_engine_lock` | engines of other workers, asked whether they live |
| stack lock (`engine/stack_lock.py`, `service.py`) | a row per stack with an engine id; the thread groups of each engine | `acquire`, `try_acquire`, `release`, stealing, `stop`, `reset_stack_status` | all requests of the legacy (non-convergence) engine |
| scheduler (`engine/scheduler.py`) | the runners and the graph of a task group | `TaskRunner.start`, `step`, `cancel`; `DependencyTaskGroup` | the handlers of resources, the thread that runs it |
| L3 agent (`neutron/neutron/agent/l3/agent.py`, `router_processing_queue.py`, `namespace_manager.py`) | `router_info`, the priority queue, the masters and timestamps of routers, the full sync flag, the namespaces of the host | notifications, `_process_router_update`, `_resync_router`, `periodic_sync_routers_task`, `_report_state` | the Neutron server by RPC in both directions, commands on the host |
| conductor (`ironic/ironic/conductor`) | the node row: provision state, reservation, clean step; the rows of conductors; worker threads | `TaskManager`, `do_node_deploy`, `do_node_tear_down`, `do_node_clean`, `continue_node_clean`, periodic checks, `init_host`, `del_host` | the API, the other conductors, the ramdisk agent on the node |
| templates, API, clients, software configuration, watch rules | documents and samples | parsing, validation, formatting | requests |

The other projects (Nova, Cinder, Keystone, Glance, Swift, Aodh, Ceilometer,
Designate, the rest of Neutron and Ironic, the clients and libraries) are listed
in `PROJECT.json` with the reason they are not modelled, or the place they have
in the plan.

What is hard here is never one function by itself:

* reports of two predecessors that meet on one sync point;
* a new operation, a rollback and a deletion that supersede each other while
  checks of the traversals before are still running;
* objects that are loaded before a lock is taken and used after;
* locks of engines that die, and engines that are only slow;
* checks that are turned away by a lock, and have to be triggered again;
* threads that are killed at any point and must still give the lock back;
* a task that fails while others run, are about to start, or wait for it;
* an update of a router that is dropped as stale, or data that are fetched
  before a change and applied after it;
* a reservation that is broken, cleared or released while its worker lives; a
  cleaning whose progress is told by the row, the agent's last command and a
  call on its way, which must be about the same step.

`PROJECT.json` lists these hazards one by one, with the line and the properties
that would catch them going wrong.

## 2. The modules

| module | models | extended or instantiated by |
|---|---|---|
| `SyncBarrier` | what a sync point promises: an indivisible hand-over of input, one completion | `SyncPoint` (refinement) |
| `SyncPoint` | `sync()` one database access at a time | `MCSyncPoint`, `SyncPointProofs` |
| `Convergence` | stacks, traversals, graphs, workers, resource rows, messages | `MCConvergence`, `ConvergenceProofs`, `ConvergenceOrderProofs` |
| `ResourceLock` | the lock of one resource row, one database access at a time | `MCResourceLock`, `ResourceLockProofs` |
| `StackLock` | the lock of one stack, the requests that use it and the threads they start | `MCStackLock`, `StackLockProofs` |
| `Scheduler` | one `DependencyTaskGroup`, its runners and its graph | `MCScheduler`, `SchedulerProofs` |
| `L3Agent` | the L3 agent, and the server as far as the agent sees it | `MCL3Agent`, `L3AgentProofs` |
| `Conductor` | the conductors, one node, and the ramdisk agent on it | `MCConductor`, `ConductorProofs` |

`MC*` modules give values to constants (`MCConvergence` also states
`TurnedAwayIsRetriggered`, whose quantifiers need the bounds of the instance).
`*Proofs` modules hold theorems.
Definitions whose comment begins with "Mutant" are deliberate mistakes: each is
a plausible bug in the definition that follows it, and putting it in place of
that definition makes TLC report the property `PROJECT.json` names. They are
not used by any specification.

### SyncPoint and SyncBarrier

`row` is the database row, `local[c]` what call `c` of `sync()` has read, `pc`
where it stands in the loop. `Get` reads and merges, `Update` is the conditional
`UPDATE` statement, `UpdateLost` the one that matches no row, `GetNotFound` the
exception, `Propagate` the callback. `DeleteAll` is the supersession of the
traversal, at any moment; `Crash` the death of the engine, also between the
completing write and the callback. In `SyncBarrier` a call is one step
(`Contribute`), and the refinement mapping makes the write that wins the moment
of the call. This is what lets `Convergence` treat a report as one step.

### Convergence

`stack` is the stack row, `rsrc` the resource table, `sp` the sync points,
`casts` the queue, `phys` the physical resources, `th[w]` a thread with the
objects it has loaded (`rs`, `st`), which go stale as others write. Every
database transaction that others can tell apart is a step:

* user requests: `Request`, `StoreTraversal`, `DeletePrevSyncPoints`,
  `UpdateOrStoreResources`, `StoreDeps`, `TriggerLeaves`;
* `check_resource`: `Receive` or `ReceiveLate`, `AcquireRead`, `Acquire`,
  `BeginCreate`, `BeginUpdate` or `BeginCleanup`, `HandlerDone` or
  `HandlerFails`, `Destroy` or `Release`, then `Propagate`, `Replace`,
  `HandleFailure`, `ReloadAfterTimeout` or `Retrigger`;
* a refused lock: `TrySteal`, `Steal`, `MarkFailed`;
* the end of a traversal: `MarkComplete`, `PurgeTemplate`, `PurgeSyncPoints`,
  `Rollback`.

Steps that are merged, and why nothing is lost by it:

* `_release()` reads the row and writes it under a condition that cannot fail
  (`UnlockNeverFails`, proved in `ResourceLockProofs`, unless a live engine is
  robbed of its lock, which `Convergence` does not let happen through slowness);
* the read and the conditional write of `set_needed_by()` and
  `_update_replacement_data()` are one step; what matters is that they advance
  `atomic_key` of an unlocked row;
* the reports of one check to its dependents are one step. A crash between two
  of them is not distinguished from one before or after all;
* creating the sync points and casting the leaves are one step: no check of the
  traversal exists before the first cast, and each check needs the points of
  its own dependents only;
* the reads of `check_resource()` (resource, then stack) are one step.

Data that is left out: property values (two values per name), the `needed_by`
column except for its write, events and notifications, template rows, the
credentials of a deleted stack, hooks, restricted actions, adoption, the retry
loop of `create()`.

### ResourceLock

Four columns matter: whether the row exists, `engine_id`, `atomic_key`, and the
key each worker has read. Acquire, release and theft are split at each database
access and at the remote call `is_alive()`, which a dead engine never answers
and an engine in `Slow` may answer too late. `Touch` stands for the other users
of the compare-and-swap. `robbed` is a history variable: a thief has cleared
the lock of a live engine.

### StackLock

`pc[r]` follows a request from the handler to the end of the thread it starts.
The kinds are `update`, `delete`, `reset` (an engine that starts), `cancel`,
`export`, and `check`, which stands for all actions whose final state is stored
together with the release of the lock (CREATE, CHECK, SUSPEND, RESUME,
SNAPSHOT). What an operation does to resources is reduced to its outcome; a
rollback inside an update is part of that outcome; the message of a
cancellation makes the update end, which it may do at any time anyway. `killed`
threads run the exception handlers and links the code gives them (`Die`, `End`).
`lost` is a history variable: a live engine has lost the lock, to a thief or to
`Unwind`.

### Scheduler

`requires` is the dependency tree in the direction of the group, `graph` what is
left of `_graph` with edges both ways, `started`, `done` and `timed` the flags of
the runners, `outcome` what has become of each task. One pass of the while loop
is `Skip`, `Start`, `StartCompletes` or `StartRaises` for each key in order, then
`Yield`, then `Step`, `StepEnds`, `StepRaises` or `Killed` for the tasks that
run, in any order as the code iterates over a dict, then `EndPass`. An exception
goes to `HandleError`, which cancels the tasks and starts another pass; a
timeout or the end of the thread to `Interrupt`. `graph` is a defaultdict in the
code and looking at a deleted node brings it back empty: `Del` and `HandleError`
say which nodes are there afterwards. A task that catches its `Timeout` and goes
on is one that ends or raises later.

### L3Agent

The green threads of the agent yield only in RPC calls and commands, so an
action is what happens between two of these. `db` is the server's database as a
version number per router, and whether the agent hosts it; a notification
(`Notified`) carries no data, it makes the agent fetch (`Fetched`). `work[w]` is
what a thread of the pool is doing; `Take` is the generator `updates()` of the
master, which every step of a worker ends in. The periodic task is `SyncEnter`,
`SyncBegin`, `SyncReadIds`, then `SyncReadChunk` and `SyncAnswer` for each chunk,
split where the server reads its database and where the answer arrives, and
`SyncClean` for the namespaces that `__exit__()` removes; `SyncFails` is a call
that times out or fails. `cfg` is the version the agent last finished processing
and `requested` whether a full sync was asked for that has not begun. Initial
states are those of an agent that restarts: it remembers nothing and finds any
namespaces. A report of the agent's state is two steps: `ReportState`, in which
the server finds the agent revived, and `ReportReturns`, in which the agent is
told so or the call fails (`agent.py:702`); `revived` says which it was.
Notifications arrive in order, and timestamps are strictly increasing.
`EvictFails` is the one failure nobody retries in the code
(`neutron/neutron/agent/l3/agent.py:508`). Several routers interact only through
the order of the queue, and in the namespaces a sync takes for stale. The run has
one router, so its full sync is one chunk, which is repeated with a smaller size
when it times out; the order among several chunks is left to the theorems.

### Conductor

`node` is the row of one node, `task[t]` a `TaskManager` with the copy of the
provision state it acts on, and what its worker does next (`work`). A request
reserves the node, changes it with `process_event()` and hands the task to a
worker in one step (`Deploy`, `TearDown`, `ManualClean`, `Provide`, `Manage`,
`Abort`): between the reservation and the spawning of the worker nobody else can
change the node but by breaking its reservation, which needs a conductor that has
listed the host as offline. `SetMaintenance` is the operator's, at any time.
The worker then goes step by step: `DeployWork`, `TearDownWork`, `VerifyWork`;
`CleanWork`, `SaveStep`, `ExecuteStep`, `AbortWork`; at the end of a cleaning
`StepsDone` (the save that clears the steps), `TearDownCleaning` and
`CleaningDone` (the event), between which the conductor may die; and for a
heartbeat `HeartbeatDeploy`, `ImageWork`, `BootWork`, `HeartbeatClean`,
`HeartbeatIgnored`; and `Release`. `calls` counts the casts of
`continue_node_clean()` that are under way. Drivers do one of the things their
interface allows: finish, wait for the agent, or fail. `agent` (external) is the
ramdisk: on or off, its last command, and how that went. `old` says that a
callback timeout has passed. `cleaned` is a history variable.

A conductor's row is `online` and `fresh` (it has a recent heartbeat). It grows old
when its process is down or stopping (`HeartbeatLapses`), and by a fault when the
process runs (`HeartbeatLate`), until the next heartbeat (`Keepalive`).
`_check_deploying_status()` is a loop with state of its own, and four steps, between
which conductors may die, restart and take requests: `ListOffline` reads the
conductors that are offline into `offline`, `ReadDeploying` the nodes they are
deploying, `BreakReservation` releases the reservation if it is still in the name
that was read, wherever that conductor is by then, and `FailDeploying` fails the
node. `robbed` is a history variable: a reservation was released whose conductor had
a task at work. That is the race of the comment at `manager.py:1318`, and what happens
to the node afterwards is not modelled: no task is begun or goes on (`Goes`), since
copies of the row's other columns in the objects of two tasks are not kept. The hash
ring is the one at the start of a periodic task or request, except in `FailDeploying`,
where it may have been read anew.

## 3. The runs

| run | instance | states | shows |
|---|---|---|---|
| `syncpoint` | 5 calls: 3 predecessors, one of them twice, and one foreign key; crashes, supersession | 253,421 | no input is lost, the node is started with all of them; the loop implements the barrier |
| `conv_life` | create, update, delete of 3 resources, 1 fault (failure, timeout, late message) | 806,995 | resources are created once, and created and deleted in order; rows and sync points are cleaned up |
| `conv_faults` | a chain of 2 resources, 2 faults of the same kinds | 11,129 | COMPLETE means in service; every operation ends |
| `conv_overlap` | 1 resource updated in place, a delete at any moment, 2 engines, one handler fails or one engine dies | 27,172 | exclusion; a deletion is final; COMPLETE is earned; locks of the dead, are broken; a rollback follows an operation that has ended; a traversal that was turned away is triggered again |
| `resource_lock` | 4 workers, 3 engines, 4 checks, 1 touch | 2.1 million | exclusion, unlocking, no orphan locks |
| `stack_lock_stop` | check, update, delete, 3 engines | 128,258 | one operation at a time; the lock comes back |
| `stack_lock_reset` | update, its cancellation, two engines that start | 8,676 | stacks of dead engines are reset |
| `scheduler` | 4 tasks, 3 trees, both directions, aggregated or not, with and without grace | 34,220 | tasks start in order, errors are told, groups end |
| `l3_agent` | 1 router, 2 workers, 3 versions, one incompatible, 1 fault | 257,278 | one worker per router; stale updates are covered; the host agrees with the database in the end |
| `conductor` | 2 conductors, 2 tasks, 2 automated steps and 1 manual, 1 fault (crash, stop, late heartbeat, full pool, busy lock) | 382,805 | one task per node until a live one is robbed; no clean step is skipped; orphaned deployments fail |

Bounds. Three predecessors are the fewest for which one write can lose to two
others in a row. A tree of two levels has a root, a leaf and a dependency in
both directions of the graph; the third resource of `conv_life` adds a sibling,
which may still be at work when a rollback begins, and leaves room for one fault.
`conv_faults` keeps to a chain of two, in which a second fault can strike the
rollback of the first. No two traversals overlap there, and so the stack always
settles, which it does not otherwise (section 4). Two workers per
run give every pair of concurrent checks of a resource; with two operations
there are at most three traversals (two and a rollback). Four tasks make a
diamond, two chains and a task that is required in two ways. Two workers are
enough for one to hand an update of a router to another; three versions let a
router be moved away and back, or become incompatible, while older data are
processed. With two conductors one can die while the other goes on; two slots
are one more than the code allows, so that a second task on the node would be
seen; the second of two steps can be skipped, and the manual list is shorter
than the automated one. `MaxFaults` bounds the faults of a behaviour,
`MaxChanges`, `MaxChecks` and `MaxTouches` the uses of a row; the theorems of
section 5 do not depend on them.

All runs set `CHECK_DEADLOCK FALSE`. In most of them requests, changes and
faults are finite and the system comes to rest. In `conductor` it may also stop
where nobody comes: a node whose conductor died in VERIFYING, DELETING or
CLEANING stays there, reserved, unless the conductor is started again, and only
DEPLOYING nodes are looked after by others.

Fairness. Threads of a live engine keep running (eventlet's scheduler and the
timeouts of `TaskRunner`), a handler ends, and the queue delivers. A task group
keeps being stepped and the grace period passes; that a task ends is not
assumed. In the agent the heartbeat and the periodic task run on timers, RPC
calls and commands end or fail (a report of the state is answered or fails), and
notifications arrive. A conductor's workers go on, its periodic tasks run, the
heartbeat of one that runs is sent again, and the row of a dead one grows old; that
it is started again is not assumed. Strong fairness is used once, for `FailDeploying`:
the attempts of `reserve_node()` to get a node are a second apart
(`node_locked_retry_interval`), heartbeats that lock it for a moment are
minutes apart. Requests, faults, crashes, slow answers and the deletion of a
sync point are never fair.

## 4. Where code and documentation disagree

Each of these runs checks one statement that the repository makes of the
program and ends in a counterexample. The quotations are in `PROJECT.json`.

| run | what happens |
|---|---|
| `l3_revived` | the agent is revived, or updated, while a full sync is running; the end of that sync clears the flag, and the full sync asked for never begins |
| `conductor_cleaned` | a manual cleaning times out and leaves its step and its list; manage and provide follow, the conductor crashes before it reboots the node, and the old agent's answer ends the new cleaning: the node is AVAILABLE without the automated steps |

The passing runs state what holds beside these, and are drawn so as not to claim
what the code does not provide. The model shows the following as well; each is
seen by adding the property named to the cfg named.

* What COMPLETE means. `mark_complete()` is documented with "there may still be
  resources being cleaned up" (`engine/stack.py:1916`) and `check_stack_complete()`
  with "not that superfluous ones have been cleaned up" (`engine/worker.py:358`).
  The roots that it waits for are those of the whole graph, cleanup nodes
  included (`engine/worker.py:360`), so the code does wait for them.
  `CompleteMeansInService` states only what the docstrings promise, that what the
  template asks for is in service; that a stack which nothing has troubled leaves
  nothing over is the theorem about `NothingLeftOver`.
* A rollback does not wait for the checks of the traversal that failed. One of them
  may have loaded its row before and lock and change it after the rollback has
  passed. So, in a rollback, with three resources and one fault (`ConvLife.cfg`
  without the exceptions that the properties make for ROLLBACK):
  - `DeletedAfterDependents` fails: the cleanup is ordered by the `requires`
    stored in the rows, which a sibling B whose create is still running does not
    have yet; A is deleted while B, which requires it, is created;
  - `CreatedAfterRequirements` holds in the weaker form that what is required
    exists; that it is COMPLETE under the template of the rollback does not;
  - `CompleteMeansInService` fails: the rollback is COMPLETE while the old check
    updates A;
  - `RowsOutliveResources` fails: the cleanup of a row whose create was running
    when it was loaded drops it.
  With two resources, after an update that timed out (`ConvFaults.cfg`), a COMPLETE
  rollback may also leave two rows of one name, both with a physical resource.
* `RowsOutliveResources` excepts a row whose deletion failed and which has been
  replaced since: `make_replacement()` (`engine/resource.py:335`) writes COMPLETE
  over whatever status the row has, (DELETE, FAILED) then counts as deleted, and the
  row is dropped while the physical resource exists.
* `RowsOutliveResources` in `ConvOverlap.cfg`: a cleanup that loaded the row
  before a create of an older traversal finished still sees INIT
  (`engine/resource.py:1462`) and drops the row of a resource that exists.
* `CreatedOnce` in `ConvOverlap.cfg` with `Patient = {remove}`: two checks of
  consecutive traversals both load the row before either locks it, and both run
  `handle_create()`.
* `TurnedAwayIsRetriggered` in `ConvOverlap.cfg` with `Replacing = {A}`: a check
  that ends in a replacement returns (`engine/worker.py:166`) without triggering
  the newer traversal it has kept waiting.
* `CompleteIsEarned` speaks of a stack that is in progress. Of two checks of one
  node in one traversal (the second a retrigger) one may fail the stack and
  purge its sync points while the other is between its report and
  `mark_complete()`; the stack then goes from FAILED to COMPLETE.
* `export_stack()` (`engine/service.py:1390`) acquires the stack lock and starts
  no thread; a cancellation that comes as the update ends
  (`engine/service.py:1114`) acquires it too. Nothing releases these locks; in
  the model such a request is in `"kept"`, and `LockHasThread` and
  `AbandonedIsReset` except it.
* `NoSyncPointsLeft` excepts the sync points of a rollback: `state_set()`
  (`engine/stack.py:843`) returns nothing for a ROLLBACK, so `purge_db()` is skipped
  and they stay, although "They are no longer needed after stack has
  completed/failed" (`engine/stack.py:1936`).
* `Settles` in `ConvOverlap.cfg` with `MaxFaults = 0`: a check refused because of
  an unrelated write to the unlocked row (`engine/resource.py:1635`) is dropped;
  the stack stays IN_PROGRESS.
* `Settles` in `ConvFaults.cfg` with three resources: a check of the traversal that
  failed keeps the one of the rollback away from its row, ends in a replacement and
  returns without triggering it (`engine/worker.py:166`); the rollback never ends.
* "A rollback follows a failure" would be too much: `RollbackFollows` says that the
  operation that is rolled back has ended. The two checks of one node told of above
  can have completed the stack between the failure and the rollback.
* `LiveEngineKeepsLock` in `ResourceLock.cfg`: a thief reads the row, asks the
  engine it found there, and clears `engine_id` without a condition
  (`engine/worker.py:103`); by then it may be the lock of a live engine.
* `ReleasedByOwner` in `StackLock` with two deletions in one engine: the one that
  failed to insert the lock row deletes the row of the other
  (`engine/stack_lock.py:165`).
* `HandledHasNamespace` in `L3Agent.cfg` with `Foreign = {}`: a router that is
  moved away and back during the first sync loses the namespace that was in the
  picture taken before ("This is important to correctly identify stale ones",
  `neutron/neutron/agent/l3/agent.py:540`).
* `EventuallyInSync` excepts two cases. One is `requested`, that is what
  `l3_revived` shows. The other is `revived = "lost"`: the server has applied the
  report that revives the agent and the reply is lost. The next report finds the
  agent alive, so the agent is never told, does no full sync
  (`neutron/neutron/agent/l3/agent.py:694`), and what it was not notified of
  while it was taken for dead it does not learn. One false death is enough.
* `_router_added()` registers a router before `initialize()` can fail, so a retry
  finds it in `router_info` and does not initialise it again; `EventuallyInSync`
  asks for `router_info`, not for the namespace.
* `NoStepSkipped` in `Conductor.cfg` with `DelayedCalls = TRUE`:
  `continue_node_clean()` is a cast made after the node is released. A second
  heartbeat before it arrives makes a second call, which starts the step after
  the one that is running.
* An abort of a step that cannot be aborted adds a flag to `clean_step` in the
  row (`ironic/ironic/conductor/manager.py:1175`), so that the step the agent
  reports never equals it (`agent_base_vendor.py:574`): the step does not end,
  and heartbeats keep it from timing out.
* `DeadDeploymentFails` with `MaxFaults = 2`: between the breaking of a
  reservation and the failing of the node the pool is full or the node locked,
  and the node stays DEPLOYING unreserved, which no periodic task looks for.
* `OneTaskAtATime` holds until a conductor at work has been robbed. Without
  `~robbed` it fails in `Conductor.cfg` with its one fault, which may be a crash: h2
  lists h1 as offline, h1 restarts and takes a request for the node, and h2 releases
  the reservation of the task that is at work; nothing then keeps a second one from
  beginning. It may also be a late heartbeat of h1, or
  a graceful stop of h1 whose workers outlast the heartbeat timeout. The code says
  so: "Although very rare, this may lead to a race condition. By the time we release
  the lock the conductor that was previously managing the node could be back
  online" (`ironic/ironic/conductor/manager.py:1318`).

## 5. The proofs

The theorems hold for every value of the constants that satisfies the
assumption of the module (`ConstantsAssumption`, `ConvergenceAssumption`,
`LockAssumption`, `StackLockAssumption`, `SchedulerAssumption`, `L3Assumption`,
`ConductorAssumption`), which only say what sets the functions are between, that
`None`, `Absent` and the like are not values, and that dependencies have no
cycle. Two theorems on cleaning and those about operations that
follow one another have a hypothesis besides, stated below. An invariant that is
not inductive was strengthened until it was, and TLC checked the stronger one on
the instances of section 3 before it was proved.

*Sync points* (`SyncPointProofs`). `NoLostInput` and the properties about
propagation are not inductive: whether a caller concludes rightly depends on
what its private copy has to do with the row. `SyncInv` adds that a copy read
under the current `atomic_key` equals the row with the caller's input merged
(`CopyAgreesWithKey`), that an input in the row has a sender
(`InputHasSender`), that who has fired holds a complete copy
(`FiredIsComplete`) and that a complete row has been noticed
(`CompleteIsNoticed`). The proof has a lemma for steps that leave the row alone
(`QuietStep`) and one for the write (`UpdateStep`). `SyncTypes`, `NoInputIsLost`,
`PropagationIsComplete`, `PropagationIsUnique` (of the reporters that are the
only one of their key, one at most starts the node), `PropagationIsNotForgotten` and
`InputOnlyGrows` follow, and `SyncImplementsBarrier`: with `CopyAgreesWithKey` the
write that wins is the hand-over of `SyncBarrier` (`UpdateContributes`), and every
other step changes one outcome or is invisible (`OtherStepsMap`).

*Resource lock* (`ResourceLockProofs`). `LockInv` adds to exclusion that the
row names the engine of the holder with the key the holder knows
(`HolderIsRecorded`, `LockHasOwner`) and that the workers of dead engines have
stopped. Exclusion and `UnlockNeverFails` hold until a live engine is robbed;
`LockHasHolder` holds always. There is one lemma per kind of step.

*Stack lock* (`StackLockProofs`). `StackLockInv` adds that the owner's engine is
in the row and that requests of dead engines have stopped. The steps fall into
three lemmas: the lock untouched, taken, or released. `WritesAreOwned` shows
from it that the stack row is written only by the owner. `NoStackLockIsLeftBehind`
needs no more than itself: the request that owns the lock is the witness, and
each step either leaves it in place or releases the lock with it.

*Convergence* (`ConvergenceProofs`). The types come first, one lemma per action:
ids and traversals are only ever handed out (`TypesGrow`), and the graph that
`convg_deps` computes is a graph on ids that exist (`GraphTyped`). `TravInv` then
says, for each thread, what the objects it has loaded have to do with the stack
row and the sync points: a traversal belongs to one operation (`OneAction`) and
one graph (`GraphAgrees`), its sync points are those of its graph (`PointsMatch`),
whoever is about to complete it has seen its roots report (`HasEarned`), whoever
is about to replace a deletion is a deletion and only a creation or an update is
rolled back (`DeletionStays`), and an operation whose end is stored is over
(`EndIsStored`). It would not be inductive without `LaunchIsPrivate`: from the
first store to the first cast nobody but the thread that stored a traversal can
serve it, so that the second `store()` of `converge_stack()`, which writes the
whole object, overwrites nothing that a check has stored. `StepKeeps` reduces a
step to what the one thread becomes and to what its write means to the others;
`QuietKeeps` covers the steps of a check under its lock, which are most of them.
`DeletionIsFinal`, `CompletionIsEarned` and `RollbackWaits` follow from what a
step may write to the stack (`StackWrites`). The last is `RollbackFollows`, for any
requests at any time: a rollback never takes the place of an operation in progress,
which may be one accepted since the failure, nor of a deletion. In `conv_overlap`
what is accepted meanwhile is a deletion; that an update is treated alike is shown
by the theorem alone. That the operation has FAILED is not true in general, because
of the two checks of one node that section 4 tells of.

`LockInv` of the same module is about the resource table. A locked row of a live
engine has a holder (`LocksAreHeld`), which is inductive and survives thefts and
crashes; and as long as no engine has died nobody steals and a holder's engine is
in its row, so that two workers never act on one resource
(`OneWorkerPerResource`). That theorem has `dead = {}` in its conclusion: after a
crash two workers that both saw the dead engine's name may steal one after the
other, the second from whoever has locked the row since; how far exclusion
then still holds is what `ResourceLockProofs` shows with finer steps.

*Convergence, one operation at a time* (`ConvergenceProofs` from the definition of
`OneByOne` on, and `ConvergenceOrderProofs`). What the user is promised of
resources, that they are created once, after what they require, and deleted after
what requires them, is not true of all behaviours: the code loads a row before it
locks it, and section 4 tells of two checks of one node that break it. It is true
when operations follow one another. `OneByOne` says that no engine crashes, that
every request but the first waits until the stack has settled, and that failures
are not rolled back (`disable_rollback`, or no failures); `InOrder` adds that each
request stores a template of its own, as the code always does. Workers, engines,
templates, graphs, failures, late messages and timeouts are arbitrary. `conv_life`
and `conv_faults` do not satisfy it, since they roll back, and what they show of the
same properties in a rollback is beyond these theorems; their behaviours in which
nothing fails are within them.

`SeqInv` is the part about traversals: whatever thread or message there is serves
the current traversal (`Serves`), a traversal is prepared by one thread while
nobody else works (`LaunchAlone`), no failure waits for a rollback
(`NothingToRollBack`), and sync points that outlive their operation have a thread
that is about to purge them (`PointsArePurged`). `SyncPointsArePurged` is
`NoSyncPointsLeft`, which needs no more.

`OrderInv` is the part about resources, and is about tokens: a token is a check on
its way, a message or a worker, and it stands for a node of the graph (`Stands`; a
replacement stands for the node of what it replaces). No two tokens are about one
resource (`IdsApart`) or about nodes one of which waits for the other
(`KeysApart`). A token's node is ready, all its predecessors are among the senders
of its sync point, and it has not reported itself (`TokenOK`). Whatever has
reported was ready and its work stays done: an update's row serves the current
template, a cleanup's row is gone or serves (`PointsOK`, `Serving`, `Cleaned`).
`RowInv` ties each row to its check, `ClaimOK` says of a row that serves that what
it requires is not to be cleaned up, or is cleaned up after it, and `Laid` is what
`UpdateOrStoreResources` and `convg_deps` have to establish for all this to start.
None of this could be left out: that a check's predecessors are done is only
inductive with the bookkeeping of who has reported to whom, and that only if a
node has one token. When the stack is gone rows and messages may be left, and
`GoneInv` says that they are harmless. A step is reduced to what it does to
tokens: a check goes on (`TokenStays`), ends (`FewerTokens`), is taken up from the
queue (`TokenIsTakenUp`), hands its node to a replacement (`TokenIsHandedOver`),
or reports and makes other nodes ready (`WokenTokens`); a traversal begins with
one for each leaf (`LeavesAreTokens`). `CreatedOnceHolds`,
`CreatedAfterRequirementsHolds` and `DeletedAfterDependentsHolds` follow. What a
check does to its own row is the last part of `ConvergenceProofs` (`WorkKeeps`);
messages, replacements, reports and the preparation of a traversal are the first
of `ConvergenceOrderProofs`.

*Convergence, operations that succeed* (`ConvergenceOrderProofs`). That a COMPLETE
stack is what its template says, and that no row goes before its physical
resource, needs hypotheses again, which are `Smooth`: besides `InOrder`, nothing
fails, no template has a cycle (`validate()` goes through the dependencies in
topological order before a template is stored, `engine/stack.py:746`, and
`engine/dependencies.py:168` refuses a cycle), and a deletion has an empty
template (`engine/service.py:1319`). `Acyclic` states the absence of a
cycle from both ends of the edges, which for finite sets is the same; the step
from one to the other would be an induction.

`SmoothInv` starts from `OrderInv` and adds where a traversal leads. Between two
operations the rows are `Even`: one for a name, COMPLETE, in service, requiring
what the template says. Once COMPLETE the stack is `Converged`: even under its
own template, with no name missing and no check left. From the graph on it is
`Planned`: every name of the template is served or has an update node that has
not reported, every row of another template has a cleanup node, what is replaced
says so, and in every set of nodes there is one that waits for no other
(`Grounded`). This is where acyclicity goes in: if a traversal completes, the
stack's own sync point has heard from all roots; were there a node that has not
reported, then a `Grounded` choice among those would be one without a dependent
left, a root (`RootsAreLast`), and so all have reported, every name is served and
every row of another template is gone (`AllDoneIsConverged`). The rest is what
makes that inductive: what a sync point or a message carries are resources that
the template requires (`DataNames`), without which a row would store dependencies
that give the next graph a cycle (`RequiresOK`, `GraphIsGrounded`); a row about
to be replaced has not been replaced before (`Replaces`, `ReplacesOK`); and a row
whose deletion has begun has a check that will end it (`RowsStay`).
`SmoothInvariant`, `CompleteMeansInServiceHolds` (which adds `NothingLeftOver`: no
row without its resource, and as many as names) and `RowsOutliveResourcesHolds` are
the theorems. With faults both properties are only checked, in `conv_faults` and
`conv_life`, with the exceptions of section 4.

*Scheduler* (`SchedulerProofs`). `SchedulerInv` ties the edges left in the graph to
the outcomes: a task that waits still has an edge to everything it requires that
is not complete (`WaitersHaveNodes`), and nothing waits for a task that raised or
was cancelled (`NobodyWaitsInVain`), which is what makes an empty set of
requirements mean completion although nodes leave the graph for other reasons.
`TasksStartAfterRequirements` and `TheEndIsTruthful` follow; the latter needs
that cancellation reaches only what is downstream of an error in the original
tree (`DownstreamGrows`). `Downstream` is a recursive function on the number of
edges; since the induction theorems of the library cannot be used, what holds of
it is shown at the least number at which it would fail (`WellFoundedInduction`'s
`WFMin`).

*L3 agent* (`L3AgentProofs`). `OneWorkerPerRouter` rests on `MastersWork`: a worker
is the master of the router it works on, and a router without a master has
nothing queued. `NoNotificationIsForgotten` is about time. `L3Inv` says that an
update which carries data is behind every update it does not take in, in the
agent's queue, in the master's queue and in the worker's hands (`QueueOrdered`,
`MasterQueueOrdered`, `WorkOrdered`); that the server's notifications come in the
order of its changes (`NotesOrdered`); and that what a full sync has read takes in
the updates from before it began (`SyncCovers`).

*Conductor* (`ConductorProofs`). `OneTaskPerNode` needs that a task knows the state
of its node and runs in a live conductor (`ConductorInv`). Its property is about
behaviours in which no conductor at work has been robbed, whatever else is broken,
cleared, late or restarted: `robbed` turns true in the one step of
`_check_deploying_status()` that releases the reservation of a task at work, and
what comes after it no theorem speaks of. `CleaningIsComplete`, with the same
restriction, adds `Progress`: the steps before the one in the row are done, what the
agent reports is done, no trace of a cleaning is left where there may be an
instance, and a `continue_node_clean()` on its way finds the node as its sender left
it. It has the hypothesis `~DelayedCalls` besides, which leaves out a call that is
overtaken by the one of another heartbeat; there the code does skip a step
(section 4).

*Model-checked only.* Liveness (fairness and `ENABLED` are out of the prover's
reach): `EventuallyPropagates`, `Settles`, `DeadLockIsBroken`,
`TurnedAwayIsRetriggered`, `LockIsGivenBack`, `AbandonedIsReset`, `GroupEnds`,
`EventuallyInSync`, `DeadDeploymentFails`. Where `CreatedOnce`,
`CreatedAfterRequirements`, `DeletedAfterDependents`, `NoSyncPointsLeft`,
`CompleteMeansInService` and `RowsOutliveResources` are proved it is under the
hypotheses above; with rollbacks (`conv_life`, `conv_faults`) they are only checked.

## 6. Not modelled

*Heat.* Resource types and their handlers beyond success, failure and timeout;
the parsing and evaluation of templates; the API in front of the engine; nested
stacks as such (each level is a stack of its own); the backup stack of a legacy
update; software configuration and signals; watch rules; the wall clock (a
timeout may come at any moment). A message is delivered at most once, as
oslo.messaging does for casts; a message taken by an engine that dies is lost.

*Neutron.* HA and distributed routers, prefix delegation, a deletion of a
namespace that fails, a missing external bridge; how a router is configured; the
server beyond the database and the notifications of one agent.

*Ironic.* Inspection, power state, ports, consoles, take over, `destroy_node`,
deployments with cleaning disabled, drivers that return a state their interface
does not allow, API servers with a stale ring.

*The rest of the repository* is 2.6 million lines, of which the mapped lines are a
small fraction. More than half is installed third-party packages
(`src/dist-packages`), and most of the rest is drivers, database access, API
layers, command line clients and tests of some thirty projects: input and output
around little control, in which a model would only restate the code. The model
keeps to the components in which several actors change the same state.

## 7. Plan

1. Proofs: `OrderInv` extended to rollbacks, and `SmoothInv` to failures that are
   followed by an update.
2. `LegacyUpdate`: `engine/update.py` and the backup stack, on top of
   `Scheduler` and under `StackLock`.
3. Further components: resource claims of Nova's compute manager, the partition
   coordination of Aodh and Ceilometer, the pool consensus of Designate.
