SPECIFICATION FairSpec
CONSTANTS
  listener_count <- OneListener
  server_name <- OneName
  process_count <- OneWorker
  balanced <- AllBalanced
  check_health <- CheckAlways
  MaxReloads = 1
PROPERTY ReloadServed
CHECK_DEADLOCK FALSE
