SPECIFICATION Spec
CONSTANTS
  Files <- SomeFiles
  Hosts = {"a", "b"}
  Absent = Absent
INVARIANTS TypeOK BackendsReadByListener TotalIsSum EndsOnlyAtFault
CHECK_DEADLOCK FALSE
