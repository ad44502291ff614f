\* The driver and dump.py in any interleaving, with any failing allocation or
\* name; alloc_weight_loop.c; ops_reg's dump.py on the buffers of two ops, shown
\* and patched; one run of hello2.c, every call of it free to fail.
SPECIFICATION ToolsSpec
CONSTANTS
  Processes = {"log", "loop", "dump", "sample"}
  Handle <- FourHandles
  Dma = {d1, d2, d3, d4}
  None = None
  Capacity = 2
  Buffers = 2
  Name <- ThreeNames
  Foreign <- NothingOrOneLine
  Loops = 6
  Tool = "ops_reg"
  Memories <- MCMemories
  Args <- MCArgs
  Limits = {0, 5, 99}
  PatchEnds = {2, 11, 99}
  Listing <- MCListing
  Fold = 2
  MaxAmount = 8
  Half = 16
  hello_base = 90
SYMMETRY Addresses
INVARIANTS
  ToolsTyped
  SameBuffer
  NamedAreLogged
  HeldIsFound
  SampleSound
PROPERTIES
  BaseIsOwn
  DumpsSound
