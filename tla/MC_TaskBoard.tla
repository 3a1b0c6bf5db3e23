---------------------------- MODULE MC_TaskBoard ----------------------------
(* Instantiation of TaskBoard for TLC: three task slots.                   *)
EXTENDS TaskBoard

CONSTANTS t1, t2, t3

MCTasks == {t1, t2, t3}

\* t3 runs g: while (true) task_yield(), as never_ending_blocking_task of
\* test 6, created as a primary or secondary task, or as a priority task.
MCEndless == {t3}
MCYieldingClasses == {"primary", "secondary"}
MCPriorityClass == {"priority"}
=============================================================================
