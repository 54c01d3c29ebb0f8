\* Two batches at a time, an absorbed and an invalidating event, pruning.
SPECIFICATION Spec
CONSTANTS
  Deliveries = {1, 2, 3}
  Fields = {"title", "state"}
  Subject <- TwoSubjects
  At <- TwoClock
  Sets <- DropSets
  Keeps = {1}
  Unordered = {}
  MaxHorizon = 3
  Failing = {"write"}
  Appliers = {a1, a2}
  NoOne = NoOne
INVARIANT RefusedOnlyForNewer MarkCoversRow
