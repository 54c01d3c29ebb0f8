\* Two schemas and one that is refused, on one file; processes that start, serve,
\* crash and shut down.
SPECIFICATION FairProcess
CONSTANTS
  Specs = {v1, v2, v3}
  Bad = {v3}
  Nothing = Nothing
  Tables = 2
  Handlers = {h1}
  Subjects = {b1, b2}
  Kinds = 2
  Stale = 1
INVARIANTS ServesItsOwn OnlyACutStopsIt ExitLeavesNothing
PROPERTIES KeepsItsCache ShutdownEnds
