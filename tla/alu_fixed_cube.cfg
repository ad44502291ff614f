\* Single cases of the ops whose cube is fixed, with other shapes.
SPECIFICATION ElementwiseSpec
CONSTANTS
  Processes = {"geometry"}
  Field = 8192
  PageElements = 256
  PaddedElements = 20
  MaxPair = 65536
  MaxMatrix = 2147483647
  Cli <- FixedCalls
  Script <- AllTests
  Values <- MCValues
  Pairs <- MCPairs
  Ramps <- MCRamps
  Images <- MCImages
  libm <- MClibm
  Tests <- MCTests
  Inputs <- MCInputs
  MaxSize = 2
  Sizes = {4, 5, 11}
  Kinds <- MCKinds
  Precision = 3
INVARIANT EveryElementComputed
