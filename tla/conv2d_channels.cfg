\* More input channels than the packing factor.
SPECIFICATION ConvolutionSpec
CONSTANTS
  Processes = {"conv2d"}
  DimField = 2048
  EntryField = 16384
  TileElems = 11264
  Shapes <- ManyChannels
  Configs <- Conv1dConfigs
  LutEntries = 513
  Reserved = 16384
  MaxRegTasks = 16
  Algorithms <- Blocks
INVARIANT RegistersMatchPacking
