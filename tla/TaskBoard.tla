----------------------------- MODULE TaskBoard -----------------------------
(***************************************************************************)
(* The task board of src/tboard.h: one primary and NSec secondary          *)
(* executors, each draining its own ready queue; the primary steals from   *)
(* the fullest secondary queue when its own is empty.  Tasks are           *)
(* coroutines that suspend by task_yield(), blocking_task_create() or      *)
(* remote_task_create(), or return.  Remote tasks travel through the two   *)
(* message queues msg_sent / msg_recv and an external MQTT adapter; the    *)
(* sequencer (task_sequencer) re-admits their originators.  tboard_kill()  *)
(* cancels the executors and tboard_destroy() drains and frees what is     *)
(* left.                                                                   *)
(*                                                                         *)
(* A task's body is user code: at each resumption it may create tasks and  *)
(* then suspends in one of the three ways or returns.  The number of       *)
(* suspensions of one task is bounded by MaxSuspends.                      *)
(***************************************************************************)
EXTENDS Naturals, Sequences, FiniteSets, SequencesExt

CONSTANTS
    Tasks,          \* task_t objects the board may allocate (model values)
    NoTask,         \* the NULL task_t pointer
    NSec,           \* tboard->sqs, number of secondary executors
    MAX_TASKS,      \* bound of tboard->task_count
    MaxSuspends,    \* bound on the suspensions of one task
    SIGNAL_PRIMARY_ON_NEW_SECONDARY_TASK,
    HasAdapter,     \* an MQTT adapter drains msg_sent and fills msg_recv
    RemoteModes,    \* the values of remote_task_create's @blocking used
    Endless,        \* tasks whose body is while(true) task_yield()
    EndlessClasses, \* the classes such a task is created with
    RemotePlacedByExecutor
        \* TRUE: the executor places the envelope after the task yielded
        \* (spec 4.3 step 6); FALSE: remote_task_create places it in
        \* msg_sent before yielding (tboard.h:556-560, spec 4.5)

ASSUME /\ NoTask \notin Tasks
       /\ NSec \in 1..10                 \* MAX_SECONDARIES
       /\ MAX_TASKS \in Nat \ {0}
       /\ MaxSuspends \in Nat
       /\ SIGNAL_PRIMARY_ON_NEW_SECONDARY_TASK \in BOOLEAN
       /\ HasAdapter \in BOOLEAN
       /\ RemoteModes \subseteq BOOLEAN
       /\ RemotePlacedByExecutor \in BOOLEAN
       /\ Endless \subseteq Tasks

PRIMARY == 0                    \* index of pqueue / pExecutor
Execs == 0..NSec                \* 0 is pExecutor, i > 0 is sExecutor i
Classes == {"priority", "primary", "secondary"}   \* PRIORITY/PRIMARY/SECONDARY_EXEC
ASSUME EndlessClasses \subseteq Classes
Status == {"unused", "initialized", "running", "completed"}

\* remote_task_t: the originator, the @blocking flag and, to tell two
\* envelopes of one task apart, the ordinal of the suspension that issued it.
Envelope == [task : Tasks, blocking : BOOLEAN, id : 1..MaxSuspends]

VARIABLES
    status,     \* task_t.status ("unused": the slot was never allocated)
    class,      \* task_t.type
    origin,     \* index of the ready queue the task belongs to
    parent,     \* task_t.parent
    suspends,   \* suspensions so far (task_t.yields and the other two)
    frees,      \* number of times task_destroy freed the task (0, 1, 2+)
    queue,      \* [Execs -> Seq(Tasks)]: pqueue and squeue[]
    cur,        \* [Execs -> Tasks \cup {NoTask}]: task being resumed
    phase,      \* [Execs -> executor program point]
    rr,         \* round-robin pointer over the secondary queues
    task_count, \* tboard->task_count
    msg_sent,   \* outgoing remote tasks
    held,       \* envelopes the adapter has taken and not answered yet
    msg_recv,   \* remote task responses
    board       \* tboard->status and the shutdown/destroy progress

vars == <<status, class, origin, parent, suspends, frees, queue, cur, phase,
          rr, task_count, msg_sent, held, msg_recv, board>>

Created == {t \in Tasks : status[t] # "unused"}
Freed == {t \in Tasks : frees[t] > 0}
Live == Created \ Freed

\* The task that issued blocking children: parent chain of a task.
RECURSIVE Chain(_)
Chain(t) == IF parent[t] = NoTask THEN {t} ELSE {t} \cup Chain(parent[t])

-----------------------------------------------------------------------------
(* Helpers translated from the header: placing a task, waking executors.   *)

\* task_place(): priority tasks go to the head of pqueue
\* (REINSERT_PRIORITY_AT_HEAD), every other task to the tail of its queue.
PlaceAs(qs, t, cls, q) ==
    IF cls = "priority"
    THEN [qs EXCEPT ![PRIMARY] = Cons(t, @)]
    ELSE [qs EXCEPT ![q] = Append(@, t)]

PlaceIn(qs, t) == PlaceAs(qs, t, class[t], origin[t])

\* Condition variables signalled when tasks are placed in the queues Q:
\* each queue's executor, and the primary for a secondary queue.
Signalled(Q) ==
    Q \cup IF SIGNAL_PRIMARY_ON_NEW_SECONDARY_TASK /\ Q \ {PRIMARY} # {}
           THEN {PRIMARY} ELSE {}

\* A signalled executor that sleeps on its condition variable wakes up.
Wake(ph, W) == [x \in Execs |-> IF x \in W /\ ph[x] = "sleep" THEN "top" ELSE ph[x]]

\* Ready queue a new task of class cls goes to; secondaries round-robin.
QueueFor(cls) == IF cls = "secondary" THEN rr + 1 ELSE PRIMARY
\* Fault variant: the round-robin pointer is advanced without wrapping.
NextRRNoWrap(cls) == IF cls = "secondary" THEN rr + 1 ELSE rr
NextRR(cls) == IF cls = "secondary" THEN (rr + 1) % NSec ELSE rr

\* tboard_add_concurrent(): reserve a slot iff task_count < MAX_TASKS.
\* Fault variant: off-by-one in the MAX_TASKS check.
CanAddConcurrentLE == task_count <= MAX_TASKS
CanAddConcurrent == task_count < MAX_TASKS

\* The secondary queue the primary steals from: the fullest, the lowest
\* index among equally full ones (queues inspected in index order).
Fullest(qs) ==
    CHOOSE q \in 1..NSec :
        \A r \in 1..NSec : \/ Len(qs[q]) > Len(qs[r])
                           \/ Len(qs[q]) = Len(qs[r]) /\ q <= r

\* The queue executor e pops from after the sequencer ran, or -1.
Source(e, qs) ==
    IF qs[e] # <<>> THEN e
    ELSE IF e = PRIMARY /\ \E q \in 1..NSec : qs[q] # <<>> THEN Fullest(qs)
    ELSE -1

\* task_sequencer(): every response in msg_recv, in arrival order, places
\* its calling task in the appropriate ready queue, whatever @blocking.
SeqDrain(qs, env) == PlaceIn(qs, env.task)
Sequenced == FoldLeft(SeqDrain, queue, msg_recv)
SequencedQueues == {origin[env.task] : env \in ToSet(msg_recv)}

-----------------------------------------------------------------------------
Init ==
    /\ status = [t \in Tasks |-> "unused"]
    /\ class = [t \in Tasks |-> "primary"]
    /\ origin = [t \in Tasks |-> PRIMARY]
    /\ parent = [t \in Tasks |-> NoTask]
    /\ suspends = [t \in Tasks |-> 0]
    /\ frees = [t \in Tasks |-> 0]
    /\ queue = [q \in Execs |-> <<>>]
    /\ cur = [e \in Execs |-> NoTask]
    /\ phase = [e \in Execs |-> "top"]
    /\ rr = 0
    /\ task_count = 0
    /\ msg_sent = <<>>
    /\ held = {}
    /\ msg_recv = <<>>
    /\ board = "created"

\* tboard_start(): spawns the executor threads.
Start ==
    /\ board = "created"
    /\ board' = "started"
    /\ UNCHANGED <<status, class, origin, parent, suspends, frees, queue, cur,
                   phase, rr, task_count, msg_sent, held, msg_recv>>

\* task_create() / task_add(): allocate task t of class cls, reserve a
\* concurrent slot and place it.  A call that finds task_count at MAX_TASKS
\* returns false and changes nothing.
TaskCreate(t, cls) ==
    /\ board = "started"
    /\ t \notin Created
    /\ t \in Endless => cls \in EndlessClasses
    /\ CanAddConcurrent
    /\ task_count' = task_count + 1
    /\ status' = [status EXCEPT ![t] = "initialized"]
    /\ class' = [class EXCEPT ![t] = cls]
    /\ origin' = [origin EXCEPT ![t] = QueueFor(cls)]
    /\ rr' = NextRR(cls)
    /\ queue' = PlaceAs(queue, t, cls, QueueFor(cls))
    /\ phase' = Wake(phase, Signalled({QueueFor(cls)}))
    /\ UNCHANGED <<parent, suspends, frees, cur, msg_sent, held, msg_recv,
                   board>>

\* A thread outside the board (main(), a test's creator thread) creates a task.
UserTaskCreate == \E t \in Tasks, cls \in Classes : TaskCreate(t, cls)

-----------------------------------------------------------------------------
(* The executor loop, executor().                                          *)

\* One iteration of the loop: run the sequencer, then pop the head of the
\* own queue (the primary steals from the fullest secondary queue when its
\* own is empty) and resume it, or sleep on the condition variable.
Dispatch(e) ==
    /\ board = "started"
    /\ phase[e] = "top"
    /\ msg_recv' = <<>>
    /\ LET qs == Sequenced
           src == Source(e, qs)
           W == Signalled(SequencedQueues)
       IN IF src = -1
          THEN /\ queue' = qs
               /\ phase' = [Wake(phase, W) EXCEPT ![e] = "sleep"]
               /\ UNCHANGED <<status, cur>>
          ELSE LET t == Head(qs[src]) IN
               /\ queue' = [qs EXCEPT ![src] = Tail(@)]
               /\ cur' = [cur EXCEPT ![e] = t]
               /\ phase' = [Wake(phase, W) EXCEPT ![e] = "run"]
               /\ status' = [status EXCEPT ![t] = "running"]
    /\ UNCHANGED <<class, origin, parent, suspends, frees, rr, task_count,
                   msg_sent, held, board>>

\* The resumed task calls task_create(); it keeps running.
TaskCreateInTask(e) ==
    /\ phase[e] = "run"
    /\ cur[e] \notin Endless
    /\ UserTaskCreate

\* A completed blocking child's parent is placed back in its ready queue,
\* whose executor is signalled.
\* Fault variant: the parent is placed without signalling.
ReadmitParentNoSignal(e, p) ==
    /\ queue' = PlaceIn(queue, p)
    /\ phase' = [phase EXCEPT ![e] = "top"]
ReadmitParent(e, p) ==
    /\ queue' = PlaceIn(queue, p)
    /\ phase' = [Wake(phase, Signalled({origin[p]})) EXCEPT ![e] = "top"]

\* task_destroy() on shutdown: a task with a parent destroys the parent
\* first, then itself.
\* Fault variant: task_destroy() frees the task but not its parent.
FreeTaskOnly(t) == frees' = [frees EXCEPT ![t] = @ + 1]
FreeChain(t) ==
    frees' = [x \in Tasks |-> IF x \in Chain(t) THEN frees[x] + 1 ELSE frees[x]]

\* tboard_deinc_concurrent(): give back a concurrent slot.
DeincConcurrent == task_count' = task_count - 1

\* task_destroy() on completion frees the task itself; a blocking child's
\* parent link is cleared first, so the parent is not destroyed with it.
\* Fault variant: the parent link is still set, and task_destroy()
\* destroys the parent first (tboard.h:724-725).
FreeOnReturnChain(t) == FreeChain(t)
FreeOnReturn(t) == frees' = [frees EXCEPT ![t] = @ + 1]

\* The task returns: it completes and task_destroy() frees it.  A blocking
\* child re-admits its parent and does not give back a concurrent slot;
\* any other task does.
TaskReturn(e) ==
    /\ phase[e] = "run"
    /\ LET t == cur[e]
           p == parent[t]
       IN /\ status' = [status EXCEPT ![t] = "completed"]
          /\ FreeOnReturn(t)
          /\ cur' = [cur EXCEPT ![e] = NoTask]
          /\ IF p # NoTask
             THEN /\ ReadmitParent(e, p)
                  /\ parent' = [parent EXCEPT ![t] = NoTask]
                  /\ UNCHANGED task_count
             ELSE /\ DeincConcurrent
                  /\ phase' = [phase EXCEPT ![e] = "top"]
                  /\ UNCHANGED <<queue, parent>>
    /\ UNCHANGED <<class, origin, suspends, rr, msg_sent, held, msg_recv, board>>

\* The executor puts task t it resumed back in t's ready queue (tail, or
\* head of pqueue for a priority task) and signals that queue's executor.
Requeue(e, t) ==
    /\ queue' = PlaceIn(queue, t)
    /\ cur' = [cur EXCEPT ![e] = NoTask]
    /\ phase' = [Wake(phase, Signalled({origin[t]})) EXCEPT ![e] = "top"]

\* task_yield(): the executor puts the task back in its own ready queue.
\* The yields of a never-ending task are not bounded.
TaskYield(e) ==
    /\ phase[e] = "run"
    /\ LET t == cur[e]
       IN /\ t \in Endless \/ suspends[t] < MaxSuspends
          /\ IF t \in Endless
             THEN UNCHANGED suspends
             ELSE suspends' = [suspends EXCEPT ![t] = @ + 1]
          /\ Requeue(e, t)
    /\ UNCHANGED <<status, class, origin, parent, frees, rr, task_count,
                   msg_sent, held, msg_recv, board>>

\* blocking_task_create(): a child c with parent t takes t's place; t is
\* not requeued, and c reserves no concurrent slot.
BlockingTaskCreate(e) ==
    /\ phase[e] = "run"
    /\ LET t == cur[e]
       IN /\ suspends[t] < MaxSuspends
          /\ \E c \in Tasks \ Created, cls \in {"primary", "secondary"} :
                /\ status' = [status EXCEPT ![c] = "initialized"]
                /\ class' = [class EXCEPT ![c] = cls]
                /\ origin' = [origin EXCEPT ![c] = QueueFor(cls)]
                /\ parent' = [parent EXCEPT ![c] = t]
                /\ rr' = NextRR(cls)
                /\ queue' = PlaceAs(queue, c, cls, QueueFor(cls))
                /\ phase' = [Wake(phase, Signalled({QueueFor(cls)})) EXCEPT ![e] = "top"]
          /\ suspends' = [suspends EXCEPT ![t] = @ + 1]
          /\ cur' = [cur EXCEPT ![e] = NoTask]
    /\ UNCHANGED <<frees, task_count, msg_sent, held, msg_recv, board>>

\* How the executor disposes of a task that issued a remote task: a
\* non-blocking issuer is requeued at once, a blocking one stays parked in
\* its envelope.
\* Fault variant: the issuer is requeued whatever @blocking.
RemoteDisposeAlwaysRequeue(e, t, b) == Requeue(e, t)
RemoteDispose(e, t, b) ==
    IF b THEN /\ cur' = [cur EXCEPT ![e] = NoTask]
              /\ phase' = [phase EXCEPT ![e] = "top"]
              /\ UNCHANGED queue
         ELSE Requeue(e, t)

\* remote_task_create(): the envelope goes to msg_sent and the task
\* yields.  Where the envelope is placed by the executor, both happen in
\* the executor's step; otherwise the task places it before it yields.
RemoteTaskCreate(e) ==
    /\ phase[e] = "run"
    /\ LET t == cur[e]
       IN /\ suspends[t] < MaxSuspends
          /\ suspends' = [suspends EXCEPT ![t] = @ + 1]
          /\ \E b \in RemoteModes :
               /\ msg_sent' = Append(msg_sent,
                                [task |-> t, blocking |-> b, id |-> suspends[t] + 1])
               /\ IF RemotePlacedByExecutor
                  THEN RemoteDispose(e, t, b)
                  ELSE /\ phase' = [phase EXCEPT ![e] =
                                      IF b THEN "yield_blocking" ELSE "yield_nonblocking"]
                       /\ UNCHANGED <<queue, cur>>
    /\ UNCHANGED <<status, class, origin, parent, frees, rr, task_count, held,
                   msg_recv, board>>

\* The executor regains control from a task that already placed its envelope.
RemoteYield(e) ==
    /\ phase[e] \in {"yield_blocking", "yield_nonblocking"}
    /\ RemoteDispose(e, cur[e], phase[e] = "yield_blocking")
    /\ UNCHANGED <<status, class, origin, parent, suspends, frees, rr,
                   task_count, msg_sent, held, msg_recv, board>>

\* The steps the executor thread takes when it runs its loop, and the
\* steps of the user code it has resumed.
ExecutorLoop(e) == Dispatch(e) \/ RemoteYield(e)
\* A never-ending task only ever yields.
TaskBody(e) ==
    \/ TaskYield(e)
    \/ /\ cur[e] \notin Endless
       /\ TaskReturn(e) \/ BlockingTaskCreate(e) \/ RemoteTaskCreate(e)

-----------------------------------------------------------------------------
(* The external MQTT adapter (adapter contract of remote_task_t).           *)

\* It pops an envelope from msg_sent and performs the remote call.
AdapterTake ==
    /\ HasAdapter
    /\ board \in {"created", "started", "killed"}
    /\ msg_sent # <<>>
    /\ held' = held \cup {Head(msg_sent)}
    /\ msg_sent' = Tail(msg_sent)
    /\ UNCHANGED <<status, class, origin, parent, suspends, frees, queue, cur,
                   phase, rr, task_count, msg_recv, board>>

\* remote_task_place(t, rtask, false): the response goes to msg_recv.  The
\* adapter signals msg_cond, on which no executor sleeps.
AdapterReply ==
    /\ board \in {"created", "started", "killed"}
    /\ \E env \in held :
         /\ held' = held \ {env}
         /\ msg_recv' = Append(msg_recv, env)
    /\ UNCHANGED <<status, class, origin, parent, suspends, frees, queue, cur,
                   phase, rr, task_count, msg_sent, board>>

-----------------------------------------------------------------------------
(* Shutdown: tboard_kill() and tboard_destroy().                            *)

\* tboard_kill(): set shutdown and cancel every executor thread.  A task
\* an executor was resuming is abandoned with its stack.
Kill ==
    /\ board = "started"
    /\ board' = "killed"
    /\ phase' = [e \in Execs |-> "exited"]
    /\ UNCHANGED <<status, class, origin, parent, suspends, frees, queue, cur,
                   rr, task_count, msg_sent, held, msg_recv>>

\* tboard_destroy(), after the executors are joined: empty the ready
\* queues, pqueue first, freeing every task.
DestroyReadyQueue ==
    /\ board \in {"killed", "destroying"}
    /\ \E q \in Execs :
         /\ queue[q] # <<>>
         /\ \A r \in 0..(q - 1) : queue[r] = <<>>
         /\ queue' = [queue EXCEPT ![q] = Tail(@)]
         /\ FreeChain(Head(queue[q]))
    /\ board' = "destroying"
    /\ UNCHANGED <<status, class, origin, parent, suspends, cur, phase, rr,
                   task_count, msg_sent, held, msg_recv>>

\* remote_task_destroy(): free an envelope and its calling task (with the
\* task's parents), whatever @blocking.
RemoteTaskDestroy(env) == FreeChain(env.task)

\* tboard_destroy(), then: empty msg_sent, then msg_recv.
DestroyMessages ==
    /\ board \in {"killed", "destroying"}
    /\ \A q \in Execs : queue[q] = <<>>
    /\ \/ /\ msg_sent # <<>>
          /\ msg_sent' = Tail(msg_sent)
          /\ RemoteTaskDestroy(Head(msg_sent))
          /\ UNCHANGED msg_recv
       \/ /\ msg_sent = <<>>
          /\ msg_recv # <<>>
          /\ msg_recv' = Tail(msg_recv)
          /\ RemoteTaskDestroy(Head(msg_recv))
          /\ UNCHANGED msg_sent
    /\ board' = "destroying"
    /\ UNCHANGED <<status, class, origin, parent, suspends, queue, cur, phase,
                   rr, task_count, held>>

\* tboard_destroy() destroys the history and frees the board.
DestroyDone ==
    /\ board \in {"killed", "destroying"}
    /\ \A q \in Execs : queue[q] = <<>>
    /\ msg_sent = <<>>
    /\ msg_recv = <<>>
    /\ board' = "destroyed"
    /\ UNCHANGED <<status, class, origin, parent, suspends, frees, queue, cur,
                   phase, rr, task_count, msg_sent, held, msg_recv>>

\* The board is gone; nothing happens any more.
Finished == board = "destroyed" /\ UNCHANGED vars

Destroy == DestroyReadyQueue \/ DestroyMessages \/ DestroyDone

Next ==
    \/ Start
    \/ UserTaskCreate
    \/ \E e \in Execs : ExecutorLoop(e) \/ TaskCreateInTask(e) \/ TaskBody(e)
    \/ AdapterTake \/ AdapterReply
    \/ Kill
    \/ Destroy
    \/ Finished

Spec == Init /\ [][Next]_vars

\* Executor threads are scheduled by the OS (weak fairness); a resumed task
\* eventually suspends or returns (user code is trusted, spec 1); the
\* adapter answers what it took; tboard_destroy runs to its end once called.
\* Creating tasks, starting and killing the board are the user's choice.
FairSpec ==
    /\ Spec
    /\ \A e \in Execs : WF_vars(ExecutorLoop(e)) /\ WF_vars(TaskBody(e))
    /\ WF_vars(AdapterTake) /\ WF_vars(AdapterReply)
    /\ WF_vars(Destroy)

-----------------------------------------------------------------------------
(* Properties.                                                              *)

TypeOK ==
    /\ status \in [Tasks -> Status]
    /\ class \in [Tasks -> Classes]
    /\ origin \in [Tasks -> Execs]
    /\ parent \in [Tasks -> Tasks \cup {NoTask}]
    /\ suspends \in [Tasks -> 0..MaxSuspends]
    /\ frees \in [Tasks -> Nat]
    /\ queue \in [Execs -> Seq(Tasks)]
    /\ cur \in [Execs -> Tasks \cup {NoTask}]
    /\ phase \in [Execs -> {"top", "sleep", "run", "yield_blocking",
                            "yield_nonblocking", "exited"}]
    /\ rr \in 0..(NSec - 1)
    /\ task_count \in Nat
    /\ msg_sent \in Seq(Envelope)
    /\ held \subseteq Envelope
    /\ msg_recv \in Seq(Envelope)
    /\ board \in {"created", "started", "killed", "destroying", "destroyed"}

\* Number of places holding task t: positions in ready queues, executors
\* resuming it, blocking envelopes in flight, live children it waits for.
Occurrences(s, t) == Len(SelectSeq(s, LAMBDA x : x = t))
ParkedIn(s, t) == Len(SelectSeq(s, LAMBDA m : m.blocking /\ m.task = t))
InQueues(t) == MapThenSumSet(LAMBDA q : Occurrences(queue[q], t), Execs)
OnExecutors(t) == Cardinality({e \in Execs : cur[e] = t})
InEnvelopes(t) == ParkedIn(msg_sent, t) + ParkedIn(msg_recv, t)
                  + Cardinality({m \in held : m.blocking /\ m.task = t})
Waiting(t) == Cardinality({c \in Live : parent[c] = t})
Holders(t) == InQueues(t) + OnExecutors(t) + InEnvelopes(t) + Waiting(t)

\* Ownership (spec 3): every live task is held by exactly one of a ready
\* queue, an executor, a blocking remote envelope or its blocking child,
\* and a freed task by none.  Breaks if the sequencer, the executor's yield
\* handling or a child's completion re-admits a task twice or loses it.
SingleOwner == \A t \in Tasks : Holders(t) = IF t \in Live THEN 1 ELSE 0

\* tboard->task_count counts the live tasks made by task_create, never the
\* blocking children that stand in for their parent, and stays within
\* MAX_TASKS, as long as the board is not being destroyed.
TaskCount ==
    /\ task_count <= MAX_TASKS
    /\ board \in {"created", "started", "killed"} =>
         task_count = Cardinality({t \in Live : parent[t] = NoTask})

\* task_destroy() never frees a task twice, on completion or on shutdown.
NoDoubleFree == \A t \in Tasks : frees[t] <= 1

\* Tasks that tboard_destroy() cannot reach: those abandoned on a cancelled
\* executor or in an envelope the adapter still holds, and their parents.
Stranded ==
    UNION {Chain(cur[e]) : e \in {x \in Execs : cur[x] # NoTask}}
    \cup UNION {Chain(m.task) : m \in {x \in held : x.blocking}}

\* After tboard_destroy() every task is freed except the stranded ones
\* (spec 4.8 and scenario 3): parents parked behind a queued child, and
\* tasks parked in queued envelopes, are freed too.
NoLeakOnDestroy == board = "destroyed" => Live \subseteq Stranded

\* No coroutine is resumed while it is already being resumed or queued:
\* the issuer of a remote task is not re-admitted before it has yielded.
NoConcurrentResume == \A t \in Tasks : OnExecutors(t) + InQueues(t) <= 1

\* Tasks that wait, through blocking children, on a never-ending task.
WaitsOnEndless(t) == \E c \in Endless : t \in Chain(c) \ {c}

\* Every task that is created eventually completes, unless the board is
\* killed first or it waits on a never-ending blocking child, even while a
\* never-ending task keeps yielding: a yield puts the task behind the others
\* of its queue (task_yield, tboard.h:697).
TaskCompletes ==
    \A t \in Tasks \ Endless :
        (status[t] # "unused")
            ~> (status[t] = "completed" \/ board # "started" \/ WaitsOnEndless(t))
-----------------------------------------------------------------------------
(* Refinement: the board implements the task pool of TaskPool.  A task is  *)
(* live from its task_create() or blocking_task_create() until             *)
(* task_destroy() frees it: done if it had completed, discarded if         *)
(* tboard_destroy() freed it; the slots in use are tboard->task_count, and *)
(* the pool is open until tboard_kill().                                   *)

PoolState(t) ==
    CASE status[t] = "unused"    -> "unused"
      [] frees[t] = 0            -> "live"
      [] status[t] = "completed" -> "done"
      [] OTHER                   -> "discarded"

Pool == INSTANCE TaskPool WITH
            tstate <- [t \in Tasks |-> PoolState(t)],
            tparent <- parent,
            count <- task_count,
            open <- board \in {"created", "started"}

\* Every step of the board is a step of the task pool or leaves it alone:
\* no task is created past MAX_TASKS or after the kill, a parent neither
\* runs on nor completes while its blocking child is alive, a completion
\* gives back exactly the slot of a task made by task_create(), and
\* tboard_destroy() frees a queued child together with the parent it
\* stands in for.
TaskPoolRefinement == Pool!PSpec

=============================================================================
