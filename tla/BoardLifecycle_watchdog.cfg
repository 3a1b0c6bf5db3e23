CONSTANTS Drivers = {"test3"}
          NSec = 1
          NumTasks = 2
          CounterMutex = "cmutex"
          ExecCleanup = TRUE
SPECIFICATION Spec
INVARIANT NoUseAfterFree
CHECK_DEADLOCK FALSE
