\* A connect that fails with something else than an OSError.
SPECIFICATION FairSpec
CHECK_DEADLOCK FALSE
CONSTANTS
  Callers = {c1}
  Bodies = {KVGet, ListGet}
  MaxRequests = 1
  MayTimeout = FALSE
  MayLose = FALSE
  NoMsg = NoMsg
PROPERTIES StartEnds
