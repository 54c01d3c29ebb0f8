\* A reader and the sweep on two keys of one row, a merging event, forwarded
\* validators, a shutdown that waits or gives up, and restarts.
SPECIFICATION OverlapSpec
CONSTANTS
  k1 = k1
  k2 = k2
  Callers = {c1, s1}
  Keys = {k1, k2}
  RowOf <- OneRow
  Shape <- Mixed
  NoOne = NoOne
  Ttl = 1
  ErrorRetry = 1
  StoreMayFail = FALSE
  MaxVersion = 3
  Absent = {2}
  AbsorbsNotFound = TRUE
  Hook = "merge"
  WritesThrough = FALSE
  Conditional = TRUE
  PerSecond = 4
  Sweepers = {s1}
INVARIANT TypeOK OneFetchPerKey AnswerKept
PROPERTY KeepsPromise NeverGoesBack OwnFetchVisible
