\* Three specifications before five upstreams: reads of every path, writes,
\* expiries, sweeps and rows that vanish.
SPECIFICATION Spec
CONSTANTS
  Worlds <- AllWorlds
  Defaults <- UpstreamDefaults
  Special <- Reserved
INVARIANTS
  AnswersTheQuestion
  SweepAsksAsReadsDo
  StoreInv
PROPERTIES
  PurgeDropsWhatItNames
