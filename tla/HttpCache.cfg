SPECIFICATION FairSpec
CONSTANTS
  Procs = {p1, p2}
  NParts = 2
  MaxVer = 2
  Worlds <- AllWorlds
INVARIANTS TypeOK CacheWhole
PROPERTY Converges
