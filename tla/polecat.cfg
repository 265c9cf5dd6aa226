SPECIFICATION Spec
CONSTANTS
  Executions = {e1}
  Sensitive = {e1}
  Processes = {p1, p2}
  Cancels = {x1, x2}
  NoProcess = NoProcess
INVARIANTS TypeOK CompletedIsQueued
PROPERTIES DeliveredCancelSticks 
CHECK_DEADLOCK FALSE
