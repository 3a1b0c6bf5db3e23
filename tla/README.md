# TLA+ models of the JAM task board (tboard)

This directory holds TLA+ models of the task board described in `spec.md`. The
repository's sources are `src/src/tboard.h` and two legacy test drivers. The
header declares every type and function and documents each one. The `.c` files
that implement them are not in the repository. So the models are translated from
the header's types, macros and contracts (the comment block under each prototype)
and from the test drivers' code. Where only `spec.md` says how something works,
`PROJECT.json` marks the definition `spec_modelled`.

## 1. Inventory

### Components and their state

| Component | State (tboard.h) | Operations |
|---|---|---|
| Ready queues | `pqueue`, `squeue[sqs]`, each with its mutex `pmutex`/`smutex[]` and condition variable `pcond`/`scond[]` | `task_place`, `task_add` (push and signal), pop in `executor` |
| Executors | threads `primary`, `secondary[]`, argument `exec_t {type, num}` | `executor()` loop: sequencer, pop or steal, `mco_resume`, dispose of the task |
| Tasks | `task_t {status, type, yields, fn, ctx, data_size, hist, parent}` | `task_create`, `task_yield`, `blocking_task_create`, `task_get_args`, `task_destroy` |
| Concurrent counter | `task_count`, guarded by `cmutex` | `tboard_add_concurrent`, `tboard_inc_concurrent`, `tboard_deinc_concurrent`, `tboard_get_concurrent` |
| Remote tasks | `remote_task_t {status, message, data, calling_task, blocking}`, queues `msg_sent`, `msg_recv`, `msg_mutex`, `msg_cond` | `remote_task_create`, `remote_task_place`, `remote_task_destroy` |
| Sequencer | none of its own | `task_sequencer`: drain `msg_recv`, re-admit blocking issuers |
| External MQTT adapter | outside the board | take from `msg_sent`, answer into `msg_recv`, signal `msg_cond` |
| History | `exec_hist` hash of `history_t {fn_name, mean_t, mean_yield, yields, executions, completions}`, `hmutex` | `history_record_exec`, `history_fetch_exec`, `history_print_records`, `history_destroy` |
| Board lifecycle | `status`, `shutdown`, `tmutex`, `tcond`, `emutex` | `tboard_create`, `tboard_start`, `tboard_kill`, `tboard_destroy`, `tboard_exit` |
| Test drivers | `test3_smalltasks.c`, `test6_blocking_tasks.c`: creator, killer and completion-checker threads | create tasks from threads and from tasks, then kill and destroy the board |

### How the components interact

- User threads and running tasks call `task_create`. It reserves a slot in
  `task_count`, then places the task and signals the executor of that queue.
  With `SIGNAL_PRIMARY_ON_NEW_SECONDARY_TASK` it also signals the primary.
- Each executor loops: it runs the sequencer, then pops the head of its own
  queue. When its own queue is empty, the primary steals from a secondary
  queue. It then resumes the coroutine. When the coroutine gives control back,
  the executor disposes of the task:
  - a finished task is destroyed;
  - a task that called `task_yield` is requeued;
  - a task that called `blocking_task_create` is parked, and its child is
    queued in its place;
  - a task that called `remote_task_create` is requeued if the remote task is
    non-blocking, and parked in the envelope if it is blocking.
- The adapter takes envelopes from `msg_sent` and puts answers into
  `msg_recv`. The sequencer, run by the next executor that loops, places the
  calling task of every response it drains in that task's ready queue
  (tboard.h:316-317); the header makes no exception for non-blocking ones.
- `tboard_kill` sets shutdown and cancels the executors. `tboard_destroy`
  joins them, signals `tcond` so that kill returns, and takes `tmutex`. Then it
  frees every queued task, and every envelope with its calling task
  (tboard.h:711-717), and the history.

### What is hard

- Concurrency. There are N+1 executor threads and outside creator threads,
  and the external adapter runs alongside them. The sequencer of one executor
  places tasks into other executors' queues. The primary steals from the
  secondaries.
- Ordering. A remote envelope can be answered before its issuer has yielded.
  Responses are re-admitted in arrival order. Priority tasks go to the head of
  the queue.
- Ownership. Each task must be held by exactly one of: a queue, an executor,
  an envelope, or its blocking child. The `parent` and `calling_task` pointers
  are not owning.
- Wake-ups. Three condition variables matter: each executor sleeps on its
  own, and the adapter signals `msg_cond`.
- Shutdown. Cancellation can hit mid-task. `tboard_destroy` must free the
  parent chains of tasks it finds in queues and envelopes. The kill/destroy
  rendezvous uses `emutex`, `tcond` and `tmutex`.

### Properties that make each component correct

- Queues, executors and tasks:
  - every live task has exactly one owner (spec 3);
  - a task is never resumed twice at once;
  - every created task completes while the board runs.
- Counter: `task_count` is the number of live tasks made by `task_create`. It
  never counts blocking children and never exceeds `MAX_TASKS`.
- Remote tasks:
  - a blocking issuer resumes only after its response is drained, and then
    does resume;
  - a non-blocking issuer is never touched through its stale envelope.
- Lifecycle:
  - destroy frees every reachable task exactly once;
  - kill returns once the executors are joined;
  - nothing waits on a condition variable that is being destroyed.

The hazards these properties are aimed at are listed, each at its source line,
under `"hazards"` in `PROJECT.json`.

## 2. Plan

1. **TaskBoard** (done): queues, executors with stealing, task lifecycle,
   blocking children, remote tasks with adapter and sequencer, the concurrent
   counter, and kill/destroy as atomic and stepwise actions.
   Tasks whose body never returns (`Endless`) cover test 6's never-ending task
   and priority starvation. It is checked by `MC_TaskBoard` and the cfgs below.
2. **BoardLifecycle** (done): the `tboard_kill` / `tboard_destroy`
   rendezvous over `emutex`, `tcond` and `tmutex`, the ordered joins of the
   executor threads, deferred cancellation, the executors' sleep on their
   queue condition variables and kill's signalling of each queue, the
   drivers' main, checker, watchdog and creator threads, and the drivers'
   own tasks up to the completion counter the checker waits on (section 4).
3. **TaskPool** (done): the abstract specification of what the board promises
   about tasks. TaskBoard is shown to implement it (section 5).
4. **History table** (not done): `history_record_exec` and the
   `task->hist` cache, and the running means `mean_t` and `mean_yield`.
   `history.c` is not in the repository; the header documents only that the
   first record attaches the entry to a NULL `task->hist`. No property of
   the board depends on the counters, a counter model would only restate its
   own increments, and the `double` means are out of TLC's reach.
5. Next candidates: a composition of BoardLifecycle's kill with TaskBoard's
   executors mid-task, the `SIGNAL_PRIMARY_ON_NEW_SECONDARY_TASK` variant, and
   two suspensions per task in the liveness run.

## 3. Module TaskBoard

### State

The model has three kinds of state: per-task records, per-executor records,
and global state.

Per-task records, indexed by the task slots `Tasks` (model values):
- `status`: `task_t.status`, with "unused" for a slot never allocated.
- `class`: `task_t.type`.
- `origin`: the queue the task belongs to.
- `parent`: `task_t.parent`.
- `suspends`: the number of suspensions so far.
- `frees`: how many times `task_destroy` freed the task.

Per-executor records, indexed by `Execs = 0..NSec`:
- `queue`: the ready queues.
- `cur`: the task being resumed.
- `phase`: where the executor is in its loop — top, sleeping on its
  condition variable, resuming a task, returning from a remote yield, or
  cancelled.

Global state:
- `rr`: the round-robin pointer.
- `task_count`.
- `msg_sent` and `msg_recv`, and `held` (envelopes the adapter is answering).
- `board`: created, started, killed, destroying or destroyed.

### Actions

One action per operation:

- `Start`.
- `UserTaskCreate`: `task_create` called from a thread.
- `Dispatch(e)`: one executor loop iteration — the sequencer, then pop or
  steal and resume, or sleep.
- `TaskCreateInTask(e)`: `task_create` called from the running task.
- `TaskReturn(e)`, `TaskYield(e)`, `BlockingTaskCreate(e)`,
  `RemoteTaskCreate(e)`: the four ways a resumed task gives control back,
  with the executor's disposal included.
- `RemoteYield(e)`: the executor gets control back from a task that placed
  its own envelope (tboard.h:556-558): a non-blocking issuer is placed back
  in its ready queue, a blocking one stays in its envelope.
- `TaskReturn` frees the task with `FreeOnReturn` after clearing a blocking
  child's parent link, so only the child is destroyed and the parent is
  re-admitted (tboard.h:586-591); a task made by `task_create` gives its slot
  back with `DeincConcurrent` (tboard.h:490-499).
- `AdapterTake`, `AdapterReply`: the adapter.
- `Kill`.
- `DestroyReadyQueue`, `DestroyMessages`, `DestroyDone`: `tboard_destroy`,
  which drains pqueue, then the secondary queues, then `msg_sent`, then
  `msg_recv`.

A task's body is the user's code, and the model keeps it nondeterministic. At
each resumption the task may create tasks and then returns or suspends in one
of the three ways. `MaxSuspends` bounds how many times one task can suspend.

`RemotePlacedByExecutor` selects the order of `remote_task_create`'s two
steps:
- FALSE: the task places the envelope in `msg_sent` before it yields, as
  tboard.h:556-560 and spec 4.5 say. This is the documented order, and the
  `remote_race` run shows it lets a blocking issuer be resumed twice.
- TRUE: the envelope becomes visible only once the task has yielded, in the
  executor's step. Neither the header nor the spec documents this order; it
  is the ordering that closes the race of `remote_race`, and the `safety`
  and `refinement` runs use it to check everything else about blocking
  remote tasks without that race masking it.

What is abstracted:
- Message text, response buffers and argument blobs are left out; no property
  looks at them.
- CPU times and the history table are not modelled (plan item 4).
- A failed `task_create` (counter full) returns false and changes nothing, so
  it is a stuttering step and not an action.
- The sequencer and the pop are one step. They are taken under two different
  mutexes, but no third thread can observe the gap in a way the pop itself
  would not.

### Runs

| Run | cfg | Expect | What it shows |
|---|---|---|---|
| safety | `MC_TaskBoard_safety.cfg` | pass | with blocking remote tasks published after the yield: `TypeOK`, `SingleOwner`, `TaskCount`, `NoDoubleFree` and `NoLeakOnDestroy` hold in every interleaving (101k states, 10 s) |
| liveness | `MC_TaskBoard_live.cfg` | pass | with two secondary executors, an endless task `t3` and non-blocking remote tasks in the header's order, without an adapter: `TaskCompletes` (every other task completes unless the board is killed or it waits on `t3`) (55k states, 15 s) |
| nonblocking_double_free | `MC_TaskBoard_nonblocking.cfg` | violation | `NoDoubleFree` breaks in 10 steps: a non-blocking issuer requeued after `remote_task_create` is freed from its ready queue by `tboard_destroy` and again by `remote_task_destroy` of its envelope |
| remote_race | `MC_TaskBoard_remote_race.cfg` | violation | `NoConcurrentResume` breaks in 8 steps when a blocking envelope is placed before the yield |
| remote_wakeup | `MC_TaskBoard_remote_wakeup.cfg` | violation | `TaskCompletes` breaks: responses sit in `msg_recv` while every executor sleeps |
| refinement | `MC_TaskBoard_refinement.cfg` | pass | `TaskPoolRefinement`: every behaviour of TaskBoard with blocking remote tasks published after the yield is a behaviour of the abstract TaskPool under the mapping of section 5 (101k states, 15 s) |
| priority_starvation | `MC_TaskBoard_starvation.cfg` | violation | `TaskCompletes` breaks when an endless task is a priority task: it yields back to the head of `pqueue` and nothing behind it ever runs |

Bounds:
- Three task slots and `MAX_TASKS = 2`. With these, task creation can hit
  the limit, and one slot is left for a blocking child or a further task.
- `NSec = 1` in the other runs, which gives two executors: enough for stealing, for cross-
  executor sequencing and for two concurrent resumptions. Each run stays
  well inside the time budget.
- `MaxSuspends = 1`. Every task can suspend once in any of the three ways, so
  each kind of requeue, parking and re-admission happens. A second
  suspension multiplies the state space by about thirty without adding a new
  kind of step.
- The liveness run uses `NSec = 2` without the adapter. With only one
  secondary queue, a task put back into the wrong secondary is
  indistinguishable from the right one; with two it is not.
- The liveness and starvation runs make `t3` endless
  (`while(true) task_yield()`, test 6's `never_ending_blocking_task`). An
  endless task's yields are not bounded by `MaxSuspends`, it creates nothing,
  and `TaskCompletes` is not asked of it, nor of a parent waiting on it
  through a blocking chain (`WaitsOnEndless`). The live run lets it be primary
  or secondary; the starvation run makes it a priority task.

Fairness in `FairSpec`:
- The executors are weakly fair (OS threads).
- A resumed task is weakly fair to suspend or return. User code is trusted
  (spec 1), and test 6's never-ending task is the documented exception.
- The adapter is fair. The adapter contract says it answers.
- `tboard_destroy` is fair once it has started.
- Creating tasks, starting and killing the board are the user's choice and
  are not fair.
- The liveness runs assume no spurious wake-ups, because the code cannot rely
  on them.

### Findings

1. **nonblocking_double_free** (spec gap). A non-blocking issuer is placed
   back in its ready queue as soon as the envelope is issued
   (tboard.h:556-558, :175-177), but the envelope keeps `calling_task`.
   `remote_task_destroy` destroys "the remote task and any associated local
   tasks" (tboard.h:711-717), so `tboard_destroy` frees the issuer once from
   its ready queue and again from `msg_sent`; had the adapter answered, the
   sequencer (tboard.h:316-317) would place it in a ready queue a second
   time. The header never says a non-blocking envelope drops its
   `calling_task`.
2. **remote_race** (spec gap). `remote_task_create` places an envelope naming
   the running task in `msg_sent` before the task has yielded. The adapter and
   another executor's sequencer can then queue the task, and a pop can resume
   it while its own executor is still inside the coroutine. The `safety` run
   shows that publishing the envelope only after the yield closes the race.
3. **remote_wakeup** (spec gap). The sequencer runs only at the top of an
   executor's loop. The adapter signals `msg_cond`, and no executor waits on
   that condition variable. So a blocking issuer whose answer arrives while
   all executors sleep is never resumed. In the tests another task always
   keeps an executor busy, which hides this.
4. **priority_starvation** (spec/code divergence). `REINSERT_PRIORITY_AT_HEAD`
   is 1 (tboard.h:24), so a priority task that yields is put back at the
   head of `pqueue`. The `task_yield` contract (tboard.h:697) says a yielding
   task goes to the back of its queue. A priority task that keeps yielding
   therefore starves every other priority and primary task.

## 4. Module BoardLifecycle

This module covers the shutdown of the board: `tboard_kill` (tboard.h:438-461)
and `tboard_destroy` (tboard.h:404-425). It also covers the threads of the
legacy drivers that trigger the shutdown. What the executors do while they run
is left to TaskBoard. Here an executor is `running`, `sleeping` on its
queue's condition variable, `cancelled` while running, `waking` (cancelled
while asleep in `pthread_cond_wait`) or `exited`.

Constants:
- `Drivers` is the set of drivers whose `main` may run, chosen in `Init`:
  `"test3"` (main, checker, the watchdog `tboard_killer`, the priority task
  creator) or `"test6"` (main and checker; the watchdog and the creator
  start and stay `absent`, and `Present` tells the two apart where the code
  of the shared threads differs).
- `NSec` is the number of secondary executors.
- `NumTasks` is the driver's `NUM_TASKS` (test 3's `ITERATIONS`).
- `ExecCleanup` says whether an executor pushes a cleanup handler that
  unlocks its queue mutex when it is cancelled. The header documents none.
- `CounterMutex` is the mutex that `tboard_add_concurrent` and the other
  counter functions lock. The header documents it both ways:
  `"tmutex"` at tboard.h:473-515 and `"cmutex"` at tboard.h:198.

State:
- `pc`: one program point per driver thread.
- `pending`: a `pthread_cancel` not yet acted on.
- `tmutex`, `emutex`: owners of the two mutexes.
- `execs`, `joined`: the executors, and how far `tboard_destroy`'s join loop
  has got.
- `shutdown`.
- `signalled`: how many queue mutexes `tboard_kill` has locked to signal so
  far (pmutex first, then each smutex).
- `qlocked`: queue mutexes left locked by an executor that died holding
  them.
- `board`: `live`, or `freed` by `tboard_destroy`.
- `ptask`: test 3's `primary_task` on pExecutor. It is `creating` tasks,
  `locking` the counter mutex inside `task_create`, or `complete` (the
  flag `primary_task_complete`; test 6 has no such task and starts there).
- `made`, `tasks`, `count`, `ne`: the drivers' workload. `made` counts the
  tasks the driver has created: test 3's `task_count`, or the index of
  test 6's creation loop in `main`. `tasks[i]` is the stage of task i.
  A test 3 `secondary_task` is `queued`, `yielded` or `done`. A test 6
  `create_blocking_task` is `created`, `blocked` on its `blocking_task`
  child, `resumed` once the child has written `resp`, or `done`. `count`
  is `completion_count`. `ne` is test 6's never-ending blocking task.

Actions, with the code they come from:
- `KillEnter(p)`, `KillReturn(p)`: `tboard_kill` called by the thread `p`,
  which holds `tmutex` around the call (tboard.h:224-226). The thread locks
  `emutex`. If `shutdown` is already set it returns false. Otherwise it sets
  `shutdown` and cancels the executors (`Cancel`). `KillSignal(p)` then
  locks each queue mutex in turn to signal its condition variable
  (tboard.h:446-448). After the last one it waits on `tcond`, which
  releases `emutex`. When woken it reacquires `emutex`. The model follows
  the header's order, cancel and then signal. spec.md describes the
  opposite order.
- `ExecSleep(e)`, `ExecWake(e)`: an executor with an empty queue sleeps on
  `pcond`/`scond[i]`, and a `task_add` wakes it (tboard.h:339-356).
  pExecutor does not sleep while `primary_task` is running on it.
- `ExecExit(e)`: a cancelled executor reaches a cancellation point. An
  executor blocked in `pthread_mutex_lock`, which is no cancellation point,
  cannot. `ExecExitInWait(e)`: an executor cancelled while asleep first
  reacquires its queue mutex, then dies. Without `ExecCleanup` it still
  holds that mutex, and any later lock of that mutex blocks: `KillSignal`,
  `task_create` on that queue by the creator (pmutex), or by
  `primary_task` (a secondary queue).
- `PrimaryTaskCreate`, `PrimaryTaskCreated`, `PrimaryTaskCounted`,
  `PrimaryTaskComplete`: `primary_task`'s loop of `task_create` calls
  (test3:91-120). Each call locks the counter mutex and places the task,
  which may run and count its completion at once (`PrimaryTaskCreated`,
  test3:102-112); only then does `primary_task` do `task_count++` and yield
  (`PrimaryTaskCounted`, test3:113-114). The loop ends, or gives up, with
  `primary_task_complete`.
- `SecondaryTaskYield(i)`, `SecondaryTaskDone(i)`: test 3's
  `secondary_task` (test3:121-130). It yields once, then calls
  `increment_completion_count` (`IncrementCompletionCount`).
- `MainCreateNeverEnding`, `MainCreate`, `MainVerify`: test 6's `main`
  (test6:75-97). It creates the never-ending task and then `NumTasks`
  `create_blocking_task` tasks, calls `tboard_destroy`, joins the checker
  and compares the results.
- `NeverEndingSpawn`, `BlockingParentSpawn(i)`, `BlockingChildRun(i)`,
  `BlockingParentDone(i)`: test 6's tasks (test6:126-194). The parent runs
  on pExecutor. The child runs on any executor, since pExecutor steals
  secondary work. The never-ending child keeps the secondary queues busy
  for good.
- Executors sleep only when they have no ready work (`Work(e)`), and a
  `task_add` wakes them.
- `CreatorCreate`, `CreatorCreated`: `priority_task_creator`
  (test3:176-188). `sleep` returns unless a cancellation is pending, and
  then `task_create` locks the counter mutex.
- `DestroyJoin`, `DestroySignal`, `DestroyFree`: `tboard_destroy` joins the
  executors in index order, signals `tcond` once under `emutex` (waking at
  most one waiter), then locks `tmutex` and frees the board.
- `MainJoins`: `main`'s `pthread_join` of the creator before the destroy, and
  of the watchdog and the checker after it.
- `CheckerDetect`, `CheckerLock`, `CheckerRead`: `check_completion`. In
  test 3 it waits for `primary_task_complete`, and after locking `tmutex`, it cancels the watchdog and the creator,
  then kills the board and reads the counter and history.
- `KillerDetect`, `KillerLock`, `KillerWait`, `KillerReturn`:
  `tboard_killer`. It cancels the creator and the checker, kills the board,
  then waits on `tcond` with `tmutex`. That wait has no predicate loop, so
  `KillerSpuriousWake` lets it return without a signal, as POSIX allows. It
  is the only way the watchdog reaches the lines after the wait.
- `CancelAct(p)`: deferred cancellation. It acts at `sleep`/`nanosleep`, or
  inside `pthread_cond_wait`. In the second case the thread first
  reacquires the mutex and, with no cleanup handler pushed, dies holding it.

Fairness: every thread step is weakly fair, as OS threads are, except for
three steps:
- `KillerDetect`: the watchdog's decision depends on timing, so the model
  leaves it free.
- `KillerSpuriousWake`: nothing guarantees a spurious wake-up.
- `CreatorCreate`: the creator's waking only matters until it is cancelled.

The task steps and `ExecWake` are weakly fair. An executor that has been
signalled runs its queue. A task that yields goes to the back of its
queue, so the never-ending task cannot starve the others.
`PrimaryTaskComplete` is strongly fair because `primary_task`'s loop is
finite. The checker's detection is the code's own condition over
`completion_count`, and it is weakly fair. In test 3 that condition is
`primary_task_complete && completion_count >= task_count`; in test 6 it is
`completion_count >= NUM_TASKS`. Because the watchdog may fire,
`MainExits` and `QuietNoUseAfterFree` are stated for the behaviours in which
it does not (`WatchdogQuiet`); the watchdog's own hang is the
`shutdown_watchdog` finding. That hang, and the mutual-cancel one, are real
stops of the program, so the passing run does not check for deadlock;
`MainExits` catches any other hang.

Runs:

| Run | cfg | Expect | What it shows |
|---|---|---|---|
| shutdown_drivers | `BoardLifecycle_drivers.cfg` | pass | tests 6 and 3, with the counter under `cmutex` and the watchdog free to fire at any point. Whoever kills, `tboard_kill` returns only after every executor is joined (`KillReturnsAfterJoin`). The checker takes `tmutex` to kill only once every task the driver created has run to its end (`CompletedBeforeKill`): every secondary task test 3 has placed, counted by `primary_task` or not yet, has counted itself, and each of test 6's blocking children has written the `resp` that `main` checks. When the watchdog stays quiet, nobody touches the freed board (`QuietNoUseAfterFree`) and `main` exits (`MainExits`) |
| counter_tmutex_deadlock | `BoardLifecycle_counter_tmutex.cfg` | violation | `MainExits` breaks with the counter under `tmutex`: the creator blocks in `task_create` on the `tmutex` the checker holds across `tboard_kill`, its cancellation never acts, and `main` joins it forever before it calls `tboard_destroy` |
| shutdown_exec_cleanup | `BoardLifecycle_exec_cleanup.cfg` | violation | `MainExits` breaks without `ExecCleanup`: pExecutor is asleep when the checker kills, dies in `pthread_cond_wait` holding `pmutex`, and `tboard_kill` then blocks on `pmutex` with `emutex` held, so `tboard_destroy` never gets `emutex` |
| shutdown_watchdog | `BoardLifecycle_watchdog.cfg` | violation | `NoUseAfterFree` breaks: the watchdog waits on `tcond` a second time, destroy's one signal has already gone to the kill, and the board is freed under the waiting watchdog |
| shutdown_mutual_cancel | `BoardLifecycle_mutual_cancel.cfg` | violation | `NoLockHeldByDeadThread` breaks: the checker and the watchdog cancel each other, and one dies in `pthread_cond_wait` holding `emutex` or `tmutex` |

Bounds: `NSec = 3` and `NumTasks = 2` in the passing run (137,570
states), with `ExecCleanup` set. Two tasks are enough for a task to finish
while another is still being created (test 3), and for a blocking child
to finish while another parent is still queued (test 6). That gives four executors, so sleeps, cancels, exits, joins and the
signalling loop interleave in many orders. Test 6 uses two secondaries and
test 3 five. The executors are interchangeable, and `NSec = 5` with five
executor states each takes too long to check. The
violation runs use `NSec = 1`: the watchdog, mutual-cancel and counter-mutex
interleavings need only one executor besides the primary.

Findings:
1. **shutdown_watchdog** (code bug, test3:168). After its `tboard_kill`
   returns, `tboard_killer` waits on `tcond` again. `tboard_destroy` signals
   `tcond` once, before it frees the board. So the watchdog waits on a
   condition variable that is then destroyed, and `main` hangs in
   `pthread_join` of the watchdog.
2. **shutdown_mutual_cancel** (code bug, test3:67). The checker cancels the
   watchdog and the watchdog cancels the checker. A thread cancelled while
   waiting reacquires the mutex and exits holding it, so `tboard_destroy`
   blocks forever on `emutex` or `tmutex`.
3. **counter_tmutex_deadlock** (spec gap, tboard.h:473). The counter
   functions are documented to lock `tmutex`. Callers are told to hold
   `tmutex` across `tboard_kill` (tboard.h:225). `pthread_mutex_lock` is no
   cancellation point. Together these hang test 3 whenever the priority
   creator calls `task_create` just as the checker takes `tmutex`. The same
   holds for pExecutor if the watchdog kills while `primary_task` is still
   creating: it can never be joined. With `cmutex`, as the `tboard_t`
   comment says, `shutdown_drivers` shows that main exits.
4. **shutdown_exec_cleanup** (spec gap, tboard.h:446). `tboard_kill`
   cancels the executors and then locks each queue mutex to signal it. An
   executor asleep in `pthread_cond_wait` acts on the cancellation after it
   has reacquired that mutex. No cleanup handler is documented, so the
   executor dies holding the mutex, and kill blocks on it while it holds
   `emutex`. The program hangs in `tboard_destroy`. `shutdown_drivers` runs
   with such a handler (`ExecCleanup = TRUE`). In that run main exits.

## 5. Module TaskPool and the refinement

`TaskPool` is the abstract specification of what the board promises about
tasks (spec 3 and 8, and the contracts of `task_create`,
`blocking_task_create`, `task_destroy` and `tboard_destroy`). It has no
queues, executors or messages. A task slot is `unused`, `live`, `done` or
`discarded`; `tparent` links a blocking child to the task waiting on it;
`count` is the number of concurrent slots in use; `open` is false once the
board is killed. Its actions are:
- `Create`: a task is created while the board is open and a slot is free.
- `Spawn`: a live task with no live child hands over to one blocking child,
  which takes no slot.
- `Complete`: a task with no live child completes. It frees its slot, or,
  if it is a child, lets its parent go on.
- `Close`.
- `Discard`: after shutdown, a set of live tasks closed under "waits for"
  is freed at once.

`TaskBoard` is shown to implement it. `MC_TaskBoard_refinement.cfg` checks
`TaskPoolRefinement == Pool!PSpec` as a PROPERTY, where
`Pool == INSTANCE TaskPool WITH ...` maps:
- `tstate`: `PoolState(t)`. A slot never used is `unused`, a slot freed
  with status completed is `done`, another freed slot is `discarded`, and
  everything else is `live`.
- `tparent`: `parent`.
- `count`: `task_count`.
- `open`: the board is created or started.

The check covers every behaviour of the safety bounds, with blocking remote
tasks whose envelope is published after the yield. In the header's order the
`remote_race` run already shows a blocking issuer resumed twice, and the
`nonblocking_double_free` run a non-blocking issuer freed twice, so the
refinement is not asked there. It shows that queueing, stealing, parking in envelopes and the
stepwise destroy never complete a task that still has a live child, never
bring a freed task back, never create past `MAX_TASKS`, and free a blocking
child only together with the parents waiting on it.

## 6. Not modelled

- The minicoro coroutine mechanics and the uthash table.
- `tboard_log` and `tboard_err`.
- `history_print_records` formatting. `history_save_to_disk` and
  `history_load_from_disk` are unimplemented.
- `msg_processor`, `data_processor` and `bid_processing`: stubs without
  requirements.
- The spin-block phase of `executor`, which is not implemented.
- The history table: `history_record_exec`, the `task->hist` cache and the
  running means `mean_t` and `mean_yield` (plan item 4).
- `printf` as a cancellation point. Spurious wake-ups are modelled only for
  the watchdog's bare `pthread_cond_wait` (test3:168). The implementation of
  the waits in `tboard_kill` and in the executors is not in the repository,
  and the TaskBoard liveness runs assume no spurious wake-ups.
