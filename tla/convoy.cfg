SPECIFICATION FairSpec
CONSTANTS
  c1 = c1
  s1 = s1
  s2 = s2
  s3 = s3
  blog = blog
  pitch = pitch
  social = social
  Convoys = {c1}
  StepIds = {s1, s2, s3}
  PolecatTypes = {blog, pitch, social}
  AlwaysRequireApproval = {pitch}
  Plans <- ThreeStepPlans
  MaxLaunch = 2
INVARIANTS TypeOK DependenciesHonoured NoReadyStepLost RunningHasTask
PROPERTIES TerminalIsFinal ContractKept ReadyStepSettles ConvoyResolves
CHECK_DEADLOCK FALSE
