--------------------------- MODULE BoardLifecycle ---------------------------
(***************************************************************************)
(* Shutdown of the task board and the threads of the legacy test drivers   *)
(* that trigger it.  tboard_kill() (tboard.h:438-461) locks the exit mutex *)
(* emutex, cancels the executor threads and sleeps on tcond;               *)
(* tboard_destroy() (tboard.h:404-425) joins the executors, signals tcond  *)
(* under emutex, then takes the board mutex tmutex and frees the board.  A *)
(* caller that wants to read the board after the kill holds tmutex around  *)
(* tboard_kill() (tboard.h:224-226).                                       *)
(*                                                                         *)
(* The drivers: test 6 runs main() and one completion checker; test 3      *)
(* adds a watchdog (tboard_killer) and a priority task creator, and the    *)
(* checker and the watchdog cancel each other before killing the board.    *)
(* pthread_cancel() is deferred: a pending cancellation acts at the next   *)
(* cancellation point (sleep, nanosleep, pthread_cond_wait); a thread      *)
(* cancelled in pthread_cond_wait reacquires the mutex first, and no       *)
(* driver pushes a cleanup handler.  Each executor runs until cancelled   *)
(* and is joined in order; the work they do is the subject of TaskBoard.  *)
(***************************************************************************)
EXTENDS Naturals, FiniteSets

CONSTANTS
    Drivers,    \* subset of {"test3", "test6"}: whose main() may run
    NSec,       \* tboard->sqs: SECONDARY_EXECUTORS of the driver
    ExecCleanup, \* an executor pushes a cleanup handler that unlocks its
                 \* queue mutex when it is cancelled (nothing documents one)
    NumTasks,   \* NUM_TASKS of the driver (test3 ITERATIONS, test6 NUM_TASKS)
    CounterMutex \* the mutex tboard_add_concurrent() locks: "tmutex", as
                 \* tboard.h:473-515 say, or "cmutex", as tboard.h:198 says

ASSUME /\ ExecCleanup \in BOOLEAN
       /\ Drivers \subseteq {"test3", "test6"} /\ Drivers # {}
       /\ NSec \in 1..10 /\ NumTasks \in 1..5 /\ CounterMutex \in {"tmutex", "cmutex"}

Execs == 0..NSec    \* 0 is pExecutor, i > 0 is sExecutor i
TaskIds == 1..NumTasks

\* Test 6 has no watchdog and no creator thread: they are "absent" there.
Threads == {"main", "checker", "killer", "creator"}
NoOwner == "none"

VARIABLES
    pc,         \* [Threads -> program point]
    pending,    \* [Threads -> BOOLEAN]: a pthread_cancel() not yet acted on
    tmutex,     \* owner of tboard->tmutex
    emutex,     \* owner of tboard->emutex
    execs,      \* [Execs -> "running", "sleeping" in pthread_cond_wait(),
                \*  "cancelled" while running, "waking": cancelled while
                \*  sleeping, "exited"]
    signalled,  \* queues whose executor tboard_kill() has signalled so far
    qlocked,    \* queue mutexes left locked by an executor that died
    joined,     \* executors tboard_destroy() has joined so far
    shutdown,   \* tboard->shutdown: tboard_kill() has begun
    board,      \* "live" until tboard_destroy() frees it, then "freed"
    ptask,      \* test 3's primary_task on pExecutor: "creating" tasks,
                \* "locking" the counter mutex inside task_create(),
                \* "counting" a task it placed (task_count++), or
                \* "complete" (primary_task_complete; always so in test 6)
    made,       \* tasks the driver has created: test3 task_count, the
                \* index of test6 main()'s creation loop
    tasks,      \* [TaskIds -> stage] of the driver's tasks.  test3
                \* secondary_task: "queued", "yielded", "done"; test6
                \* create_blocking_task: "created", "blocked" on its
                \* blocking_task child, "resumed", "done"; "none" before
    count,      \* completion_count
    ne          \* test6 create_never_ending_blocking_task: "none",
                \* "queued", "blocked" on its child, which yields forever

vars == <<pc, pending, tmutex, emutex, execs, joined, shutdown, board, ptask,
          signalled, qlocked, made, tasks, count, ne>>

\* Program points at which a pending cancellation acts.
SleepPoints == {"poll", "watch", "loop"}
CondWaits == {"kill_wait", "waiting_t"}
\* Program points at which a thread dereferences the board.
BoardPhases == {"lock_t", "kill", "kill_signal", "create", "kill_wait", "kill_relock", "read",
                "wait_t", "waiting_t", "relock_t"}
\* Where each caller of tboard_kill() continues after it returns.
AfterKill(p) == IF p = "checker" THEN "read" ELSE "wait_t"

Present(p) == pc[p] # "absent"

\* task_create() can take the counter mutex now.
CounterFree == CounterMutex = "cmutex" \/ tmutex = NoOwner

Ended(p) == pc[p] \in {"done", "dead"}

\* Test 3 is the driver with a priority task creator.
Test3 == pc["creator"] # "absent"

\* Ready work for pExecutor: primary_task or test 6's create_blocking_task
\* tasks; for every executor (pExecutor steals): the secondary tasks.
PrimaryWork == ptask \in {"creating", "locking", "counting"}
               \/ \E i \in TaskIds : tasks[i] \in {"created", "resumed"}
SecondaryWork == ne # "none"
                 \/ \E i \in TaskIds : tasks[i] \in {"queued", "yielded", "blocked"}
Work(e) == SecondaryWork \/ (e = 0 /\ PrimaryWork)

\* Some executor can run a secondary task.
SecondaryRunner == \E e \in Execs : execs[e] = "running"

Init ==
    /\ \E d \in Drivers :
         pc = [p \in Threads |->
                 CASE p = "main"    -> IF d = "test3" THEN "join_creator"
                                                      ELSE "create_ne"
                   [] p = "checker" -> "poll"
                   [] p = "killer"  -> IF d = "test3" THEN "watch" ELSE "absent"
                   [] p = "creator" -> IF d = "test3" THEN "loop" ELSE "absent"]
       /\ ptask = IF d = "test3" THEN "creating" ELSE "complete"
    /\ pending = [p \in Threads |-> FALSE]
    /\ tmutex = NoOwner
    /\ emutex = NoOwner
    /\ execs = [e \in Execs |-> "running"]
    /\ joined = 0
    /\ shutdown = FALSE
    /\ board = "live"
    /\ signalled = 0
    /\ qlocked = {}
    /\ made = 0
    /\ tasks = [i \in TaskIds |-> "none"]
    /\ count = 0
    /\ ne = "none"

Goto(p, to) == pc' = [pc EXCEPT ![p] = to]

-----------------------------------------------------------------------------
(* tboard_kill(), run by the thread p that holds tmutex.                    *)

\* pthread_cancel() of an executor: a running one leaves at its next loop
\* boundary, a sleeping one acts on it inside pthread_cond_wait().
Cancel(x) == CASE x = "running"  -> "cancelled"
               [] x = "sleeping" -> "waking"
               [] OTHER          -> x

\* Lock emutex; a board already shutting down returns false at once.
\* Otherwise set the shutdown flag and cancel the executors.
KillEnter(p) ==
    /\ pc[p] = "kill"
    /\ emutex = NoOwner
    /\ IF shutdown
       THEN /\ Goto(p, AfterKill(p))
            /\ UNCHANGED <<emutex, execs, signalled, made, tasks, count, ne>>
       ELSE /\ Goto(p, "kill_signal")
            /\ emutex' = p
            /\ execs' = [e \in Execs |-> Cancel(execs[e])]
            /\ signalled' = 0
    /\ shutdown' = TRUE
    /\ UNCHANGED <<pending, tmutex, joined, board, ptask, qlocked, made, tasks, count, ne>>

\* Lock the next queue mutex (pmutex, then smutex[i]), signal its condition
\* variable and unlock; after the last, sleep on tcond, releasing emutex.
KillSignal(p) ==
    /\ pc[p] = "kill_signal"
    /\ signalled \notin qlocked
    /\ signalled' = signalled + 1
    /\ IF signalled' = Cardinality(Execs)
       THEN Goto(p, "kill_wait") /\ emutex' = NoOwner
       ELSE UNCHANGED <<pc, emutex, made, tasks, count, ne>>
    /\ UNCHANGED <<pending, tmutex, execs, joined, shutdown, board, ptask, qlocked, made, tasks, count, ne>>

\* Woken by tboard_destroy(): reacquire emutex, unlock it and return true.
KillReturn(p) ==
    /\ pc[p] = "kill_relock"
    /\ emutex = NoOwner
    /\ Goto(p, AfterKill(p))
    /\ UNCHANGED <<pending, tmutex, emutex, execs, joined, shutdown, board, ptask, signalled, qlocked, made, tasks, count, ne>>

\* The queue is empty: lock its mutex and wait on its condition variable,
\* which releases the mutex (tboard.h:340-345).
ExecSleep(e) ==
    /\ execs[e] = "running"
    /\ ~shutdown
    /\ e \notin qlocked
    /\ ~Work(e)
    /\ execs' = [execs EXCEPT ![e] = "sleeping"]
    /\ UNCHANGED <<pc, pending, tmutex, emutex, joined, shutdown, board, ptask, signalled, qlocked, made, tasks, count, ne>>

\* Signalled by a task_add() to its queue: reacquire the mutex, pop, unlock.
ExecWake(e) ==
    /\ execs[e] = "sleeping"
    /\ e \notin qlocked
    /\ Work(e)
    /\ execs' = [execs EXCEPT ![e] = "running"]
    /\ UNCHANGED <<pc, pending, tmutex, emutex, joined, shutdown, board, ptask, signalled, qlocked, made, tasks, count, ne>>

\* A cancelled executor leaves at its next loop boundary; one blocked in
\* pthread_mutex_lock(), which is no cancellation point, cannot.
ExecExit(e) ==
    /\ execs[e] = "cancelled"
    /\ ~(e = 0 /\ ptask = "locking")
    /\ execs' = [execs EXCEPT ![e] = "exited"]
    /\ UNCHANGED <<pc, pending, tmutex, emutex, joined, shutdown, board, ptask, signalled, qlocked, made, tasks, count, ne>>

\* Cancelled in pthread_cond_wait(): the thread reacquires the queue mutex
\* and exits; without a cleanup handler it still holds it.
ExecExitInWait(e) ==
    /\ execs[e] = "waking"
    /\ e \notin qlocked
    /\ execs' = [execs EXCEPT ![e] = "exited"]
    /\ qlocked' = IF ExecCleanup THEN qlocked ELSE qlocked \cup {e}
    /\ UNCHANGED <<pc, pending, tmutex, emutex, joined, shutdown, board, ptask, signalled, made, tasks, count, ne>>

-----------------------------------------------------------------------------
(* tboard_destroy(), called by main().                                     *)

\* Fault variant: the executors are not joined (detached or never waited).
DestroyJoinNoWait ==
    /\ pc["main"] = "join_execs"
    /\ joined' = joined + 1
    /\ Goto("main", IF joined' = Cardinality(Execs) THEN "lock_e" ELSE "join_execs")
    /\ UNCHANGED <<pending, tmutex, emutex, execs, shutdown, board, ptask, signalled, qlocked, made, tasks, count, ne>>

\* Fault variant: the join loop runs one index past the last secondary.
DestroyJoinPastEnd ==
    /\ pc["main"] = "join_execs"
    /\ joined \in Execs => execs[joined] = "exited"
    /\ joined' = joined + 1
    /\ Goto("main", IF joined' > Cardinality(Execs) THEN "lock_e" ELSE "join_execs")
    /\ UNCHANGED <<pending, tmutex, emutex, execs, shutdown, board, ptask, signalled, qlocked, made, tasks, count, ne>>

\* pthread_join() of the primary, then of every secondary executor.
DestroyJoin ==
    /\ pc["main"] = "join_execs"
    /\ execs[joined] = "exited"
    /\ joined' = joined + 1
    /\ Goto("main", IF joined' = Cardinality(Execs) THEN "lock_e" ELSE "join_execs")
    /\ UNCHANGED <<pending, tmutex, emutex, execs, shutdown, board, ptask, signalled, qlocked, made, tasks, count, ne>>

\* Lock emutex, signal tcond (one waiter wakes, if any) and unlock.
DestroySignal ==
    /\ pc["main"] = "lock_e"
    /\ emutex = NoOwner
    /\ LET W == {p \in Threads : pc[p] \in CondWaits}
       IN  IF W = {} THEN Goto("main", "lock_t")
           ELSE \E w \in W :
                  pc' = [pc EXCEPT !["main"] = "lock_t",
                                   ![w] = IF @ = "kill_wait" THEN "kill_relock"
                                                            ELSE "relock_t"]
    /\ UNCHANGED <<pending, tmutex, emutex, execs, joined, shutdown, board, ptask, signalled, qlocked, made, tasks, count, ne>>

\* Fault variant: the board is freed without taking tmutex.
DestroyFreeNoLock ==
    /\ pc["main"] = "lock_t"
    /\ board' = "freed"
    /\ Goto("main", IF Present("killer") THEN "join_killer" ELSE "join_checker")
    /\ UNCHANGED <<pending, tmutex, emutex, execs, joined, shutdown, ptask, signalled, qlocked, made, tasks, count, ne>>

\* Lock tmutex, destroy the mutexes, condition variables, queues and
\* history, and free the board.
DestroyFree ==
    /\ pc["main"] = "lock_t"
    /\ tmutex = NoOwner
    /\ board' = "freed"
    /\ Goto("main", IF Present("killer") THEN "join_killer" ELSE "join_checker")
    /\ UNCHANGED <<pending, tmutex, emutex, execs, joined, shutdown, ptask, signalled, qlocked, made, tasks, count, ne>>

-----------------------------------------------------------------------------
(* main() of the drivers: pthread_join() of the driver threads around      *)
(* tboard_destroy() (test3:206-209, test6:87-88).                          *)

MainJoin(at, target, next) ==
    /\ pc["main"] = at
    /\ Ended(target)
    /\ Goto("main", next)
    /\ UNCHANGED <<pending, tmutex, emutex, execs, joined, shutdown, board, ptask, signalled, qlocked, made, tasks, count, ne>>

MainJoins ==
    \/ MainJoin("join_creator", "creator", "join_execs")
    \/ MainJoin("join_killer", "killer", "join_checker")
    \/ MainJoin("join_checker", "checker", IF Test3 THEN "exited" ELSE "verify")

-----------------------------------------------------------------------------
(* check_completion() (test3:60-89, test6:200-220).                        *)

\* Fault variant: test 3's checker compares the counters only, without
\* waiting for primary_task_complete.
CheckerDetectCountsOnly ==
    /\ pc["checker"] = "poll"
    /\ IF Test3 THEN count >= made
                ELSE count >= NumTasks
    /\ Goto("checker", "lock_t")
    /\ UNCHANGED <<pending, tmutex, emutex, execs, joined, shutdown, board, ptask, signalled, qlocked, made, tasks, count, ne>>

\* The completion condition becomes true: leave the nanosleep() loop.
CheckerDetect ==
    /\ pc["checker"] = "poll"
    /\ IF Test3 THEN ptask = "complete" /\ count >= made
                ELSE count >= NumTasks
    /\ Goto("checker", "lock_t")
    /\ UNCHANGED <<pending, tmutex, emutex, execs, joined, shutdown, board, ptask, signalled, qlocked, made, tasks, count, ne>>

\* Lock tmutex; test 3 then cancels the watchdog and the task creator.
CheckerLock ==
    /\ pc["checker"] = "lock_t"
    /\ tmutex = NoOwner
    /\ tmutex' = "checker"
    /\ Goto("checker", "kill")
    /\ pending' = IF Present("killer")
                  THEN [pending EXCEPT !["killer"] = TRUE, !["creator"] = TRUE]
                  ELSE pending
    /\ UNCHANGED <<emutex, execs, joined, shutdown, board, ptask, signalled, qlocked, made, tasks, count, ne>>

\* Fault variant: the checker returns without unlocking tmutex.
CheckerReadNoUnlock ==
    /\ pc["checker"] = "read"
    /\ Goto("checker", "done")
    /\ UNCHANGED <<pending, tmutex, emutex, execs, joined, shutdown, board, ptask, signalled, qlocked, made, tasks, count, ne>>

\* Read tboard->task_count and the history, then unlock tmutex.
CheckerRead ==
    /\ pc["checker"] = "read"
    /\ tmutex' = NoOwner
    /\ Goto("checker", "done")
    /\ UNCHANGED <<pending, emutex, execs, joined, shutdown, board, ptask, signalled, qlocked, made, tasks, count, ne>>

-----------------------------------------------------------------------------
(* tboard_killer() of test 3 (test3:148-174).                              *)

\* No completion in the last 10 s: cancel the creator and the checker.
KillerDetect ==
    /\ pc["killer"] = "watch"
    /\ Goto("killer", "lock_t")
    /\ pending' = [pending EXCEPT !["creator"] = TRUE, !["checker"] = TRUE]
    /\ UNCHANGED <<tmutex, emutex, execs, joined, shutdown, board, ptask, signalled, qlocked, made, tasks, count, ne>>

KillerLock ==
    /\ pc["killer"] = "lock_t"
    /\ tmutex = NoOwner
    /\ tmutex' = "killer"
    /\ Goto("killer", "kill")
    /\ UNCHANGED <<pending, emutex, execs, joined, shutdown, board, ptask, signalled, qlocked, made, tasks, count, ne>>

\* pthread_cond_wait(&tcond, &tmutex) after tboard_kill() returned.
KillerWait ==
    /\ pc["killer"] = "wait_t"
    /\ tmutex = "killer"
    /\ tmutex' = NoOwner
    /\ Goto("killer", "waiting_t")
    /\ UNCHANGED <<pending, emutex, execs, joined, shutdown, board, ptask, signalled, qlocked, made, tasks, count, ne>>

\* The wait has no predicate loop, and pthread_cond_wait() may return
\* without a signal (POSIX allows spurious wake-ups).
KillerSpuriousWake ==
    /\ pc["killer"] = "waiting_t"
    /\ Goto("killer", "relock_t")
    /\ UNCHANGED <<pending, tmutex, emutex, execs, joined, shutdown, board, ptask, signalled, qlocked, made, tasks, count, ne>>

\* Woken: reacquire tmutex, print the history, unlock.
KillerReturn ==
    /\ pc["killer"] = "relock_t"
    /\ tmutex = NoOwner
    /\ Goto("killer", "done")
    /\ UNCHANGED <<pending, tmutex, emutex, execs, joined, shutdown, board, ptask, signalled, qlocked, made, tasks, count, ne>>

-----------------------------------------------------------------------------
(* primary_task() of test 3 (test3:91-120), run by pExecutor: it creates   *)
(* the secondary tasks one by one with task_create(), whose                 *)
(* tboard_add_concurrent() locks the counter mutex, and yields after each. *)

PrimaryTaskCreate ==
    /\ ptask = "creating"
    /\ made < NumTasks
    /\ execs[0] = "running"
    /\ ptask' = "locking"
    /\ UNCHANGED <<pc, pending, tmutex, emutex, execs, joined, shutdown, board, signalled, qlocked, made, tasks, count, ne>>

\* task_create() returns true: lock, reserve a slot, unlock, place the
\* task in a secondary queue, where an executor may run it at once.
PrimaryTaskCreated ==
    /\ ptask = "locking"
    /\ CounterFree
    /\ \E i \in Execs \ {0} : i \notin qlocked
    /\ ptask' = "counting"
    /\ tasks' = [tasks EXCEPT ![made + 1] = "queued"]
    /\ UNCHANGED <<pc, pending, tmutex, emutex, execs, joined, shutdown, board, signalled, qlocked, made, count, ne>>

\* Back in primary_task: task_count++, then task_yield().
PrimaryTaskCounted ==
    /\ ptask = "counting"
    /\ execs[0] = "running"
    /\ ptask' = "creating"
    /\ made' = made + 1
    /\ UNCHANGED <<pc, pending, tmutex, emutex, execs, joined, shutdown, board, signalled, qlocked, tasks, count, ne>>

\* The loop ends, or gives up after 30 failed tries of task_create() (a
\* full board, which MAX_TASKS below ITERATIONS makes possible):
\* primary_task_complete.
PrimaryTaskComplete ==
    /\ ptask = "creating"
    /\ execs[0] = "running"
    /\ ptask' = "complete"
    /\ UNCHANGED <<pc, pending, tmutex, emutex, execs, joined, shutdown, board, signalled, qlocked, made, tasks, count, ne>>

\* increment_completion_count(): completion_count++ under count_mutex.
IncrementCompletionCount == count' = count + 1

\* secondary_task (test3:121-130) runs: read its argument, task_yield().
SecondaryTaskYield(i) ==
    /\ tasks[i] = "queued"
    /\ SecondaryRunner
    /\ tasks' = [tasks EXCEPT ![i] = "yielded"]
    /\ UNCHANGED <<pc, pending, tmutex, emutex, execs, joined, shutdown, board, ptask, signalled, qlocked, made, count, ne>>

\* Resumed: x /= 2, increment_completion_count() under count_mutex, return.
SecondaryTaskDone(i) ==
    /\ tasks[i] = "yielded"
    /\ SecondaryRunner
    /\ tasks' = [tasks EXCEPT ![i] = "done"]
    /\ IncrementCompletionCount
    /\ UNCHANGED <<pc, pending, tmutex, emutex, execs, joined, shutdown, board, ptask, signalled, qlocked, made, ne>>

-----------------------------------------------------------------------------
(* main() and the tasks of test 6 (test6:75-97, 158-194).                  *)

\* task_create(create_never_ending_blocking_task, SECONDARY_EXEC).
MainCreateNeverEnding ==
    /\ pc["main"] = "create_ne"
    /\ CounterFree
    /\ ne' = "queued"
    /\ Goto("main", "create")
    /\ UNCHANGED <<pending, tmutex, emutex, execs, joined, shutdown, board, ptask, signalled, qlocked, made, tasks, count>>

\* One iteration of the loop of task_create(create_blocking_task,
\* PRIMARY_EXEC, &blocking_data[i]); after the last, tboard_destroy().
MainCreate ==
    /\ pc["main"] = "create"
    /\ CounterFree
    /\ 0 \notin qlocked
    /\ made' = made + 1
    /\ tasks' = [tasks EXCEPT ![made + 1] = "created"]
    /\ Goto("main", IF made' = NumTasks THEN "join_execs" ELSE "create")
    /\ UNCHANGED <<pending, tmutex, emutex, execs, joined, shutdown, board, ptask, signalled, qlocked, count, ne>>

\* After the threads are joined: compare every blocking_data[i].resp with
\* op.fn(a, b), then tboard_exit().
MainVerify ==
    /\ pc["main"] = "verify"
    /\ Goto("main", "exited")
    /\ UNCHANGED <<pending, tmutex, emutex, execs, joined, shutdown, board, ptask, signalled, qlocked, made, tasks, count, ne>>

\* create_never_ending_blocking_task: blocking_task_create() of a child
\* that loops on task_yield(), so the parent never resumes.
NeverEndingSpawn ==
    /\ ne = "queued"
    /\ SecondaryRunner
    /\ ne' = "blocked"
    /\ UNCHANGED <<pc, pending, tmutex, emutex, execs, joined, shutdown, board, ptask, signalled, qlocked, made, tasks, count>>

\* create_blocking_task on pExecutor: generate_data() (resp = NAN), then
\* blocking_task_create(blocking_task, SECONDARY_EXEC, data) yields.
BlockingParentSpawn(i) ==
    /\ tasks[i] = "created"
    /\ execs[0] = "running"
    /\ tasks' = [tasks EXCEPT ![i] = "blocked"]
    /\ UNCHANGED <<pc, pending, tmutex, emutex, execs, joined, shutdown, board, ptask, signalled, qlocked, made, count, ne>>

\* blocking_task: resp = op.fn(a, b); the parent returns to the pool.
BlockingChildRun(i) ==
    /\ tasks[i] = "blocked"
    /\ SecondaryRunner
    /\ tasks' = [tasks EXCEPT ![i] = "resumed"]
    /\ UNCHANGED <<pc, pending, tmutex, emutex, execs, joined, shutdown, board, ptask, signalled, qlocked, made, count, ne>>

\* The parent resumes: print, increment_completion_count(), return.
BlockingParentDone(i) ==
    /\ tasks[i] = "resumed"
    /\ execs[0] = "running"
    /\ tasks' = [tasks EXCEPT ![i] = "done"]
    /\ IncrementCompletionCount
    /\ UNCHANGED <<pc, pending, tmutex, emutex, execs, joined, shutdown, board, ptask, signalled, qlocked, made, ne>>

-----------------------------------------------------------------------------
(* priority_task_creator() of test 3 (test3:176-188).                      *)

\* sleep() returns; with a cancellation pending the thread dies in it.
CreatorCreate ==
    /\ pc["creator"] = "loop"
    /\ ~pending["creator"]
    /\ Goto("creator", "create")
    /\ UNCHANGED <<pending, tmutex, emutex, execs, joined, shutdown, board, ptask, signalled, qlocked, made, tasks, count, ne>>

\* task_create(PRIORITY_EXEC): lock the counter mutex, which is no
\* cancellation point, reserve a slot, unlock, place the task.
CreatorCreated ==
    /\ pc["creator"] = "create"
    /\ CounterFree
    /\ 0 \notin qlocked
    /\ Goto("creator", "loop")
    /\ execs' = [execs EXCEPT ![0] = IF @ = "sleeping" THEN "running" ELSE @]
    /\ UNCHANGED <<pending, tmutex, emutex, joined, shutdown, board, ptask, signalled, qlocked, made, tasks, count, ne>>

-----------------------------------------------------------------------------
(* Deferred cancellation of a driver thread.                               *)

\* A pending cancellation acts at a sleep, or in pthread_cond_wait() once the
\* thread has reacquired the mutex it waits with, which it then keeps.
CancelAct(p) ==
    /\ pending[p]
    /\ \/ /\ pc[p] \in SleepPoints
          /\ UNCHANGED <<tmutex, emutex, signalled, qlocked, made, tasks, count, ne>>
       \/ /\ pc[p] = "kill_wait"
          /\ emutex = NoOwner
          /\ emutex' = p
          /\ UNCHANGED tmutex
       \/ /\ pc[p] = "waiting_t"
          /\ tmutex = NoOwner
          /\ tmutex' = p
          /\ UNCHANGED emutex
    /\ Goto(p, "dead")
    /\ UNCHANGED <<pending, execs, joined, shutdown, board, ptask, signalled, qlocked, made, tasks, count, ne>>

\* main() has returned: the process stays exited.
Terminated ==
    /\ pc["main"] = "exited"
    /\ UNCHANGED vars

Next ==
    \/ \E p \in Threads \ {"main"} : KillEnter(p) \/ KillSignal(p) \/ KillReturn(p)
                                        \/ CancelAct(p)
    \/ \E e \in Execs : ExecSleep(e) \/ ExecWake(e) \/ ExecExit(e) \/ ExecExitInWait(e)
    \/ DestroyJoin \/ DestroySignal \/ DestroyFree \/ MainJoins
    \/ CheckerDetect \/ CheckerLock \/ CheckerRead
    \/ KillerDetect \/ KillerLock \/ KillerWait \/ KillerSpuriousWake
    \/ KillerReturn
    \/ PrimaryTaskCreate \/ PrimaryTaskCreated \/ PrimaryTaskCounted
    \/ PrimaryTaskComplete
    \/ CreatorCreate \/ CreatorCreated
    \/ \E i \in TaskIds : SecondaryTaskYield(i) \/ SecondaryTaskDone(i)
    \/ MainCreateNeverEnding \/ MainCreate \/ MainVerify \/ NeverEndingSpawn
    \/ \E i \in TaskIds : \/ BlockingParentSpawn(i) \/ BlockingChildRun(i)
                          \/ BlockingParentDone(i)
    \/ Terminated

Spec == Init /\ [][Next]_vars

\* Every thread step is weakly fair except the watchdog's decision, which
\* depends on timing, a spurious wake-up, which nothing guarantees, and
\* the creator's waking, which only matters until it is cancelled.  An
\* executor signalled by task_add() runs its queue, and a yielding task goes
\* to the back of it, so every task step is fair.  primary_task's loop is finite (NUM_TASKS iterations),
\* so it ends although each iteration disables the step that ends it.
FairSpec ==
    /\ Spec
    /\ \A p \in Threads \ {"main"} :
          WF_vars(KillEnter(p) \/ KillSignal(p) \/ KillReturn(p)) /\ WF_vars(CancelAct(p))
    /\ \A e \in Execs : WF_vars(ExecExit(e) \/ ExecExitInWait(e))
    /\ WF_vars(DestroyJoin \/ DestroySignal \/ DestroyFree \/ MainJoins)
    /\ WF_vars(MainCreateNeverEnding \/ MainCreate \/ MainVerify)
    /\ \A e \in Execs : WF_vars(ExecWake(e))
    /\ \A i \in TaskIds :
          /\ WF_vars(SecondaryTaskYield(i)) /\ WF_vars(SecondaryTaskDone(i))
          /\ WF_vars(BlockingParentSpawn(i)) /\ WF_vars(BlockingChildRun(i))
          /\ WF_vars(BlockingParentDone(i))
    /\ WF_vars(CheckerDetect \/ CheckerLock \/ CheckerRead)
    /\ WF_vars(KillerLock \/ KillerWait \/ KillerReturn)
    /\ WF_vars(PrimaryTaskCreated) /\ WF_vars(PrimaryTaskCounted)
    /\ SF_vars(PrimaryTaskComplete)
    /\ WF_vars(CreatorCreated)

-----------------------------------------------------------------------------
(* Properties.                                                             *)

TypeOK ==
    /\ pending \in [Threads -> BOOLEAN]
    /\ {tmutex, emutex} \subseteq Threads \cup {NoOwner}
    /\ execs \in [Execs -> {"running", "sleeping", "cancelled", "waking", "exited"}]
    /\ signalled \in 0..Cardinality(Execs)
    /\ qlocked \subseteq Execs
    /\ joined \in 0..Cardinality(Execs)
    /\ shutdown \in BOOLEAN
    /\ board \in {"live", "freed"}
    /\ ptask \in {"creating", "locking", "counting", "complete"}
    /\ made \in 0..NumTasks /\ count \in 0..NumTasks
    /\ tasks \in [TaskIds -> {"none", "queued", "yielded", "created",
                              "blocked", "resumed", "done"}]
    /\ ne \in {"none", "queued", "blocked"}

\* Once tboard_destroy() has freed the board, no driver thread is still
\* locking, waiting on or reading one of its members: the tmutex taken by
\* the destroyer orders it after every caller that holds tmutex around
\* tboard_kill() (tboard.h:224-226).
NoUseAfterFree ==
    board = "freed" => \A p \in Threads : pc[p] \notin BoardPhases

\* When check_completion() reads tboard->task_count and the history after
\* tboard_kill() returned (test3:73, test6:210), every executor thread has
\* been joined, so nothing still changes them: tcond is signalled only once
\* all executors are joined (tboard.h:199-200, 446-449).
KillReturnsAfterJoin ==
    pc["checker"] = "read" => \A e \in Execs : execs[e] = "exited"

\* check_completion() takes tmutex to kill the board only once every task
\* the driver created has run to its end: test 3's secondary tasks have
\* all counted themselves, and test 6's blocking children have all
\* written resp, which main() compares after the joins (test6:91-95).
\* completion_count is bumped by the tasks on several executors, while
\* primary_task is still adding to task_count, and a task it has placed
\* may run and count itself before primary_task counts it.
CompletedBeforeKill ==
    pc["checker"] \in {"lock_t", "kill"} =>
        \A i \in TaskIds : tasks[i] # "none" => tasks[i] = "done"

\* A driver thread that is cancelled never exits holding tmutex or emutex,
\* which tboard_destroy() must lock after it.
NoLockHeldByDeadThread ==
    \A p \in Threads : pc[p] = "dead" => p \notin {tmutex, emutex}

\* The watchdog never decides to kill (it stays in its sleep loop until it
\* is cancelled, or test 6 has none).
WatchdogQuiet == [](pc["killer"] \in {"watch", "dead", "absent"})

\* In every run in which the watchdog does not fire, the board is never
\* used after tboard_destroy() freed it (when it fires, shutdown_watchdog
\* shows that it is).
QuietNoUseAfterFree == WatchdogQuiet => []NoUseAfterFree

\* In every run in which the watchdog does not fire, main() eventually
\* returns: the creator it joins first is cancelled and ends, the
\* kill/destroy rendezvous completes, and the threads it joins last end.
MainExits == WatchdogQuiet => <>(pc["main"] = "exited")

=============================================================================
