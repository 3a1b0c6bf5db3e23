CONSTANTS Drivers = {"test3"}
          NSec = 1
          NumTasks = 2
          CounterMutex = "cmutex"
          ExecCleanup = FALSE
SPECIFICATION FairSpec
PROPERTY MainExits
CHECK_DEADLOCK FALSE
