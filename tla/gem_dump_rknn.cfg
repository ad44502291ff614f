\* ops_rknn/dump.py: the address of the best task replaces the logged one.
SPECIFICATION ToolsSpec
CONSTANTS
  Processes = {"dump"}
  Handle <- FourHandles
  Dma = {d1, d2, d3, d4}
  None = None
  Capacity = 2
  Buffers = 2
  Name <- ThreeNames
  Foreign <- NothingOrOneLine
  Loops = 6
  Tool = "ops_rknn"
  Memories <- MCMemories
  Args <- MCArgs
  Limits = {0, 5, 99}
  PatchEnds = {2, 11, 99}
  Listing <- MCListing
  Fold = 2
  MaxAmount = 8
  Half = 16
  hello_base = 90
PROPERTY OwnAddress
