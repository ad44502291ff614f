\* The convolutions with a tile of 16 elements, the shapes of test_conv1d, and
\* every block of regcmd_helper in any order at the real sizes.
SPECIFICATION ConvolutionSpec
CONSTANTS
  Processes = {"conv2d", "conv1d", "regcmd"}
  DimField = 2048
  EntryField = 16384
  TileElems = 16
  Shapes <- Documented
  Configs <- Conv1dConfigs
  LutEntries = 513
  Reserved = 16384
  MaxRegTasks = 16
  Algorithms <- Blocks
INVARIANTS
  TypeOK
  AnswerIsConvolution
  PackingMatches
  BuffersHold
  Conv1dSound
  TasksSound
  CommandsApart

