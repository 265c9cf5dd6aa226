SPECIFICATION Spec
CONSTANTS
  asset1 = asset1
  lead1 = lead1
  reporter1 = reporter1
  untitled = untitled
  Fresh = Fresh
  Malformed = Malformed
  NoContent = NoContent
  Ledger <- Beads
  Contents <- Texts
  Workloads <- SomeWorkloads
INVARIANTS TypeOK UnattendedIsPresentable SensitiveIsReviewed
  StepsAreAccounted StoredStatusHasCause
CHECK_DEADLOCK FALSE
