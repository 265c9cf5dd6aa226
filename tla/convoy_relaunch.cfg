SPECIFICATION LoopSpec
CONSTANTS
  c1 = c1
  s1 = s1
  s2 = s2
  s3 = s3
  blog = blog
  pitch = pitch
  Convoys = {c1}
  StepIds = {s1, s2, s3}
  PolecatTypes = {blog, pitch}
  AlwaysRequireApproval = {pitch}
  Plans <- TwoBranchPlans
  MaxLaunch = 2
INVARIANTS FinishedConvoyIsQuiet
CHECK_DEADLOCK FALSE
