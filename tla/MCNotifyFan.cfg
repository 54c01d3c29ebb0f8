SPECIFICATION FairSpec
CONSTANTS
  Subs = {s1}
  Choosy = {}
  s2 = s2
  Slots = {n1, n2}
  Retries = 1
  DisableAfter = 2
  StoreMayFail = TRUE
INVARIANT NotifyTypeOK ParkedIsQuiet DrainWaits
PROPERTY DeadIsParked HealthyIsTold
