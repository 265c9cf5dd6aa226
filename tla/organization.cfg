SPECIFICATION FairSpec
CONSTANTS
  Users = {fay, ann}
  Founder = fay
  Invites = {v1}
  Keys = {tone, budget}
  Values = {given}
  Org = acme
  tone = tone
  budget = budget
  given = given
  Documents <- SomeDocuments
  Unset = Unset
  Sessions = {s1, s2}
  MaxOrders = 2
INVARIANTS TypeOK
PROPERTIES OwnersAnswerToOwners RemovedStaysOut SettingsAreNotLost LostRolesExpire
CHECK_DEADLOCK FALSE
