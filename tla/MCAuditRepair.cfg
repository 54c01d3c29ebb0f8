\* A check beside a reader, the sweep, a merging event and statements that may
\* fail; nothing deletes the row.
SPECIFICATION AuditSpec
CONSTANTS
  Callers = {c1, s1}
  Keys = {k1}
  RowOf <- OwnRow
  Shape <- Single
  NoOne = NoOne
  Ttl = 1
  ErrorRetry = 1
  StoreMayFail = TRUE
  MaxVersion = 3
  Absent = {1}
  AbsorbsNotFound = TRUE
  Hook = "merge"
  WritesThrough = FALSE
  Conditional = FALSE
  PerSecond = 1
  Sweepers = {s1}
INVARIANTS RowBehindFresh DriftIsReal
