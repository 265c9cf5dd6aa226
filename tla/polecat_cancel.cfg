SPECIFICATION Spec
CONSTANTS
  Executions = {e1}
  Sensitive = {e1}
  Processes = {p1, p2}
  Cancels = {x1}
  NoProcess = NoProcess
INVARIANTS CancelledStaysCancelled
CHECK_DEADLOCK FALSE
