\* Two callers on one connection; answers that may be late or lost.
SPECIFICATION Spec
CHECK_DEADLOCK FALSE
CONSTANTS
  Callers = {c1, c2}
  Bodies = {KVGet, ListGet}
  MaxRequests = 3
  MayTimeout = TRUE
  MayLose = TRUE
  NoMsg = NoMsg
INVARIANTS TypeOK SetEventMeansUnread
PROPERTIES ResponsesNeverGoBack
