CONSTANTS Drivers = {"test3", "test6"}
          NSec = 3
          NumTasks = 2
          CounterMutex = "cmutex"
          ExecCleanup = TRUE
SPECIFICATION FairSpec
INVARIANTS TypeOK KillReturnsAfterJoin CompletedBeforeKill
PROPERTIES QuietNoUseAfterFree MainExits
CHECK_DEADLOCK FALSE
