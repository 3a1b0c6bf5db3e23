------------------------------ MODULE TaskPool ------------------------------
(***************************************************************************)
(* What the task board promises about the tasks it holds, without queues,  *)
(* executors or messages (spec 3 and 8): a task is created while the board *)
(* is open and a concurrent slot is free; a running task may hand over to  *)
(* one blocking child, which takes no slot; a task completes only when no  *)
(* blocking child of it is alive, and completing gives its slot back, or   *)
(* lets its parent go on; once the board is shut down, what is still      *)
(* alive may be discarded, a task together with the parents waiting on    *)
(* it.  Completed and discarded tasks never come back.                     *)
(***************************************************************************)
EXTENDS Naturals, FiniteSets

CONSTANTS Tasks, NoTask, MAX_TASKS

VARIABLES
    tstate,     \* [Tasks -> {"unused", "live", "done", "discarded"}]
    tparent,    \* [Tasks -> Tasks \cup {NoTask}]: the task a child stands in for
    count,      \* number of concurrent slots in use
    open        \* the board accepts new tasks (not yet killed)

pvars == <<tstate, tparent, count, open>>

LiveTasks == {t \in Tasks : tstate[t] = "live"}
HasLiveChild(t) == \E c \in LiveTasks : tparent[c] = t

PInit ==
    /\ tstate = [t \in Tasks |-> "unused"]
    /\ tparent = [t \in Tasks |-> NoTask]
    /\ count = 0
    /\ open = TRUE

Create(t) ==
    /\ open
    /\ tstate[t] = "unused"
    /\ count < MAX_TASKS
    /\ tstate' = [tstate EXCEPT ![t] = "live"]
    /\ count' = count + 1
    /\ UNCHANGED <<tparent, open>>

Spawn(p, c) ==
    /\ open
    /\ tstate[p] = "live" /\ ~HasLiveChild(p)
    /\ tstate[c] = "unused"
    /\ tstate' = [tstate EXCEPT ![c] = "live"]
    /\ tparent' = [tparent EXCEPT ![c] = p]
    /\ UNCHANGED <<count, open>>

Complete(t) ==
    /\ tstate[t] = "live" /\ ~HasLiveChild(t)
    /\ tstate' = [tstate EXCEPT ![t] = "done"]
    /\ tparent' = [tparent EXCEPT ![t] = NoTask]
    /\ count' = IF tparent[t] = NoTask THEN count - 1 ELSE count
    /\ UNCHANGED open

Close ==
    /\ open
    /\ open' = FALSE
    /\ UNCHANGED <<tstate, tparent, count>>

\* A set of live tasks closed under "waits for" is discarded at once.
Discard(S) ==
    /\ ~open
    /\ S # {} /\ S \subseteq LiveTasks
    /\ \A t \in S : tparent[t] \in S \cup {NoTask}
    /\ tstate' = [t \in Tasks |-> IF t \in S THEN "discarded" ELSE tstate[t]]
    /\ UNCHANGED <<tparent, count, open>>

PNext ==
    \/ \E t \in Tasks : Create(t) \/ Complete(t)
    \/ \E p, c \in Tasks : Spawn(p, c)
    \/ Close
    \/ \E S \in SUBSET Tasks : Discard(S)

PSpec == PInit /\ [][PNext]_pvars

=============================================================================
