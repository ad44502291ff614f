\* Every op, every fault. Four objects: as many as an op needs, so that a
\* destroy that fails during the retry leaves too few. No symmetry: the
\* liveness property is checked with the invariants.
SPECIFICATION FairSpec
CONSTANTS
  Obj = {o1, o2, o3, o4}
  None = None
  Faults = {"open", "create", "map", "destroy", "sync", "syncSize", "submit", "malloc"}
  Ops <- AllOps
INVARIANTS
  TypeOK
  NothingHeldBetweenOps
  MappingsRecorded
  NpuMemoryAlive
PROPERTIES
  EveryOpReturns
