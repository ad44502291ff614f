\* ./main all and single cases up to the limits of a register field; the
\* cases by what they compute, alone and one after the other; test_minmax_bin
\* against devices right, deaf and failing.
SPECIFICATION ElementwiseSpec
CONSTANTS
  Processes = {"geometry", "case", "lut", "minmax"}
  Field = 8192
  PageElements = 256
  PaddedElements = 20
  MaxPair = 65536
  MaxMatrix = 2147483647
  Cli <- CliTests
  Script <- AllTests
  Values <- MCValues
  Pairs <- MCPairs
  Ramps <- MCRamps
  Images <- MCImages
  libm <- MClibm
  Tests <- MCTests
  Inputs <- MCInputs
  MaxSize = 2
  Sizes = {4, 5, 11}
  Kinds <- MCKinds
  Precision = 3
INVARIANTS
  TypeOK
  EveryElementComputed
  CubeIsShape
  InsidePages
  CasesSound
  LookupsSound
  MinmaxSound

