CONSTANTS Drivers = {"test3"}
          NSec = 1
          NumTasks = 2
          CounterMutex = "tmutex"
          ExecCleanup = TRUE
SPECIFICATION FairSpec
PROPERTY MainExits
CHECK_DEADLOCK FALSE
