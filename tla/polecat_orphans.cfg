SPECIFICATION FairSpec
CONSTANTS
  Executions = {e1, e2}
  Sensitive = {e1}
  Processes = {p1}
  Cancels = {}
  NoProcess = NoProcess
PROPERTIES RunningSettles
CHECK_DEADLOCK FALSE
