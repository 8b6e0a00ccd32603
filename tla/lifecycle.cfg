SPECIFICATION FairSpec
CONSTANTS
  listener_count <- TwoThenOne
  server_name <- OneName
  process_count <- OneWorkerOnce
  balanced <- FirstBalanced
  check_health <- CheckFirst
  MaxReloads = 1
INVARIANTS TypeOK WorkersFollowMaster OldGenerationsTold CrashNeedsTwoListeners
PROPERTY LastWorkerWakesMaster
CHECK_DEADLOCK FALSE
