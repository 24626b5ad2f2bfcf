\* A late answer is taken for the next one.
SPECIFICATION FairSpec
CHECK_DEADLOCK FALSE
CONSTANTS
  Callers = {c1}
  Bodies = {KVGet, ListGet}
  MaxRequests = 3
  MayTimeout = TRUE
  MayLose = FALSE
  NoMsg = NoMsg
INVARIANTS AnswerIsOwn
