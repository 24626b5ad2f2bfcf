\* One caller, a server that answers in time, a link that may break.
SPECIFICATION FairSpec
CHECK_DEADLOCK FALSE
CONSTANTS
  Callers = {c1}
  Bodies = {KVGet, ListGet}
  MaxRequests = 4
  MayTimeout = FALSE
  MayLose = TRUE
  NoMsg = NoMsg
INVARIANTS AnswerIsOwn
PROPERTIES ImplementsRpc ArrivedAnswersAreReturned
