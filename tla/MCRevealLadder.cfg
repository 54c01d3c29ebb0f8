SPECIFICATION FairSpec
CONSTANTS
  Requests = {r1, r2}
  r2 = r2
  Casts <- OneOrNone
  GrantTtl = 2
  DenyTtl = 2
  MaxChanges = 1
  StoreMayFail = TRUE
INVARIANT RevealTypeOK OneAnswer
PROPERTY RevocationHolds NotLockedOut
