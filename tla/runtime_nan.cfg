\* add.cpp on one case: its comparison lets a NaN through.
SPECIFICATION RuntimeSpec
CONSTANTS
  Processes = {"program"}
  Many = 2
  MaxCases = 1
  Programs = {"add"}
  Shapes <- MCShapes
  Configs <- MCConfigs
CHECK_DEADLOCK FALSE
INVARIANT YesMeansRight
