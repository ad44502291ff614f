\* Every program that keeps to the runtime, the walk over the native output
\* and one dimension of the reference pooling. Each of them stops.
SPECIFICATION RuntimeSpec
CONSTANTS
  Processes = {"program", "native", "pool"}
  Many = 2
  MaxCases = 2
  Programs <- Tidy
  Shapes <- MCShapes
  Configs <- MCConfigs
CHECK_DEADLOCK FALSE
INVARIANTS
  BuffersRespected
  VerdictsTrue
  PoolingSound
PROPERTIES
  KeepsSession
  NativeWalkSound
