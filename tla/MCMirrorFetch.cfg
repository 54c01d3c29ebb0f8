\* A reader and the sweep, an invalidating event, writes with purges, forwarded
\* validators, one version answered by a 404; any statement may fail.
SPECIFICATION FairMirror
CONSTANTS
  Callers = {c1, s1}
  Keys = {k1}
  RowOf <- OwnRow
  Shape <- Single
  NoOne = NoOne
  Ttl = 1
  ErrorRetry = 1
  StoreMayFail = TRUE
  MaxVersion = 3
  Absent = {2}
  AbsorbsNotFound = TRUE
  Hook = "invalidate"
  WritesThrough = TRUE
  Conditional = TRUE
  PerSecond = 4
  Sweepers = {s1}
PROPERTY CatchesUp Responds
