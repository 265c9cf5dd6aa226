SPECIFICATION Spec
CONSTANTS
  i1 = i1
  i2 = i2
  ann = ann
  bob = bob
  eve = eve
  acme = acme
  other = other
  Items = {i1, i2}
  Users = {ann, bob, eve}
  NoOne = NoOne
  OrgOf <- Orgs
  Requests <- SomeRequests
  Sessions = {r1, r2}
  Sweepers = {w1}
INVARIANTS ProcessedIsDecided
CHECK_DEADLOCK FALSE
