\* One batch applied at a time; an unordered event; every other step may fail.
SPECIFICATION FairSpec
CONSTANTS
  Deliveries = {1, 2, 3}
  Fields = {"title", "state"}
  Subject <- TwoSubjects
  At <- TwoClock
  Sets <- TwoSets
  Keeps = {}
  Unordered = {3}
  MaxHorizon = 2
  Failing = {"key", "read", "write"}
  Appliers = {a1}
  NoOne = NoOne
INVARIANT IngestTypeOK
PROPERTY NewestWins Answered
