SPECIFICATION OpsSpec
CONSTANTS
  c1 = c1
  s1 = s1
  s2 = s2
  s3 = s3
  blog = blog
  pitch = pitch
  social = social
  Convoys = {c1}
  StepIds = {s1, s2, s3}
  PolecatTypes = {blog, pitch, social}
  AlwaysRequireApproval = {pitch}
  Plans <- OpsPlans
  MaxLaunch = 2
INVARIANTS ApprovalBeforeCompletion TerminalIsEarned
PROPERTIES PausedLaunchesNothing
CHECK_DEADLOCK FALSE
