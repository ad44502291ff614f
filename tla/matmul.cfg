\* The split at the scaled limits of MCMatmul, where the three splits nest in
\* every way; the layouts of products up to 256, and up to 10300 rows, at the
\* real size of the buffer.
SPECIFICATION MatmulSpec
CONSTANTS
  Processes = {"split", "layout"}
  MaxTile = 4
  MinTail = 2
  Align = 2
  Banks = 4
  BankSize = 8
  PlanarSizes = {2}
  PlaneWidth = 1
  Shapes <- SmallShapes
  BufferBytes = 327680
  LayoutShapes <- Documented
INVARIANTS
  TypeOK
  ProductCorrect
  JobFits
  TilesInside
  ParamsRestored
  LayoutAgrees
