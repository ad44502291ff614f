----------------------------- MODULE Conv2dCase -----------------------------
(***************************************************************************)
(* run_conv2d_case and run_conv2d_exec: the images of a batch one after    *)
(* the other; a 1x1 kernel in tiles of as many rows as the NPU's buffer    *)
(* holds. Around each job the global conv2d_params is overwritten, and     *)
(* float16_conv2d, regcmd_helper and the unpacking all go by it.           *)
(*                                                                         *)
(* A float of the answer is known by its place <<image, channel, row,      *)
(* column>>; None is what malloc, or a job that was told something else    *)
(* than what was packed, left there.                                       *)
(***************************************************************************)
EXTENDS Conv2dShapes, FiniteSets

CONSTANTS
  Shapes,      \* the shapes the program may be called with
  TileElems    \* elements of a row times rows of a tile: 11264

ASSUME CaseAssumption ==
  /\ TileElems \in Nat \ {0}
  /\ \A s \in Shapes :
       /\ s.batch \in Nat \ {0} /\ s.in_channels \in Nat \ {0}
       /\ s.in_height \in Nat \ {0} /\ s.in_width \in Nat \ {0}
       /\ s.out_channels \in Nat \ {0} /\ s.weight_in_channels \in Nat \ {0}
       /\ s.kernel_h \in Nat \ {0} /\ s.kernel_w \in Nat \ {0}
       /\ s.groups \in Nat

VARIABLES
  pc,             \* "idle", "exec", "job", "compare"
  shape,          \* the config of the case
  conv2d_params,  \* the global
  n,              \* the image
  row_offset,     \* the first row of the next tile
  output,         \* output_nchw
  status          \* what the last case returned

vars == <<pc, shape, conv2d_params, n, row_offset, output, status>>

None == <<>>

Image(s) == s.out_channels * OutHeight(s) * OutWidth(s)
Expected(s) ==
  [i \in 0..(s.batch * Image(s) - 1) |->
     LET j == i % Image(s)
         plane == OutHeight(s) * OutWidth(s)
     IN  <<i \div Image(s), j \div plane, (j % plane) \div OutWidth(s), j % OutWidth(s)>>]

Init ==
  /\ pc = "idle"
  /\ shape \in Shapes
  /\ conv2d_params = [field \in DOMAIN WholeParams(shape) |-> 0]
  /\ n = 0 /\ row_offset = 0
  /\ output = <<>>
  /\ status = 0

-----------------------------------------------------------------------------
(* Tiles.                                                                  *)

(* Mutant: the rows are counted without the padding of a row.              *)
TileMaxHeightUnpadded(s) ==
  IF TileElems \div s.in_width < 1 THEN 1 ELSE TileElems \div s.in_width

TileMaxHeight(s) ==
  IF TileElems \div WidthStride(s) < 1 THEN 1 ELSE TileElems \div WidthStride(s)

UseTile(s) == OneByOne(s) /\ OutHeight(s) > TileMaxHeight(s)

(* Mutant: the last tile is as tall as the others.                         *)
JobRowsFull(s, first) == IF UseTile(s) THEN TileMaxHeight(s) ELSE OutHeight(s)

(* The rows of the job at row_offset: a tile, or all.                      *)
JobRows(s, first) ==
  IF UseTile(s) /\ OutHeight(s) - first > TileMaxHeight(s) THEN TileMaxHeight(s)
  ELSE OutHeight(s) - first

TileParams(s, rows) == Params(s, rows, rows, FlatStride(OutWidth(s) * rows))

JobParams(s, rows) == IF UseTile(s) THEN TileParams(s, rows) ELSE WholeParams(s)

-----------------------------------------------------------------------------
(* The NPU: surfaces of 8 channels, DST_SURF_STRIDE atoms apart. When they *)
(* overlap, or the registers do not describe what was packed, any content. *)

WriteIndex(p, oc, y, x) ==
  ((oc \div 8) * DstSurfStride(p) + y * p.out_width + x) * 8 + (oc % 8)

Proper(p) ==
  /\ RegistersAgree(p) /\ FieldsFit(p)
  /\ p.out_channels > 8 => DstSurfStride(p) >= p.out_height * p.out_width

(* What lies at index i of the output after the job for `image`, the first *)
(* row of which is row `first` of the image.                               *)
NpuOutput(p, image, first, i) ==
  LET atom == i \div 8
      plane == IF p.out_channels <= 8 THEN 0 ELSE atom \div DstSurfStride(p)
      at == atom - plane * DstSurfStride(p)
      oc == plane * 8 + (i % 8)
  IN  IF Proper(p) /\ oc < p.out_channels /\ at < p.out_height * p.out_width
      THEN <<image, oc, first + at \div p.out_width, at % p.out_width>> ELSE None

(* unpack_nc1hwc2_fp16 with c2 = 8, and its variant with a plane stride.   *)
(* A 1x1 kernel is unpacked as one row, with the stride of the job.        *)
PlaneStride(s, p) ==
  CASE OneByOne(s) -> p.out_width_stride * 8
    [] is_11555_35333_g5(s) -> p.out_height * p.out_width * 8 + p.out_width_stride * 2
    [] OTHER -> p.out_height * p.out_width * 8

ReadIndex(s, p, oc, y, x) ==
  (oc \div 8) * PlaneStride(s, p) + (y * p.out_width + x) * 8 + (oc % 8)

(* Mutant: a tile is copied to the front of its channel.                   *)
ScatterFront(s, p, image, first, old) ==
  [i \in DOMAIN old |->
     LET j == i % Image(s)
         oc == j \div (OutHeight(s) * OutWidth(s))
         y == (j % (OutHeight(s) * OutWidth(s))) \div OutWidth(s)
     IN  IF i \div Image(s) = image /\ y \in 0..(p.out_height - 1)
         THEN NpuOutput(p, image, first, ReadIndex(s, p, oc, y, i % OutWidth(s)))
         ELSE old[i]]

(* Unpacked, and copied to the rows of the tile.                           *)
Scatter(s, p, image, first, old) ==
  [i \in DOMAIN old |->
     LET j == i % Image(s)
         oc == j \div (OutHeight(s) * OutWidth(s))
         y == (j % (OutHeight(s) * OutWidth(s))) \div OutWidth(s)
     IN  IF i \div Image(s) = image /\ y \in first..(first + p.out_height - 1)
         THEN NpuOutput(p, image, first, ReadIndex(s, p, oc, y - first, i % OutWidth(s)))
         ELSE old[i]]

-----------------------------------------------------------------------------
Refuse(s) ==
  /\ pc = "idle" /\ ~Accepted(s)
  /\ status' = -1
  /\ UNCHANGED <<pc, shape, conv2d_params, n, row_offset, output>>

(* run_conv2d_case up to the buffers it allocates.                         *)
StartCase(s) ==
  /\ pc = "idle" /\ Accepted(s)
  /\ shape' = s
  /\ conv2d_params' = WholeParams(s)
  /\ output' = [i \in 0..(s.batch * Image(s) - 1) |-> None]
  /\ pc' = "exec"
  /\ UNCHANGED <<n, row_offset, status>>

(* The entry of run_conv2d_exec.                                           *)
Exec ==
  /\ pc = "exec"
  /\ conv2d_params' = WholeParams(shape)
  /\ row_offset' = 0
  /\ pc' = "job"
  /\ UNCHANGED <<shape, n, output, status>>

(* One tile, or the whole image.                                           *)
Job ==
  /\ pc = "job"
  /\ LET rows == JobRows(shape, row_offset)
         last == ~UseTile(shape) \/ row_offset + TileMaxHeight(shape) >= OutHeight(shape)
     IN  /\ conv2d_params' = JobParams(shape, rows)
         /\ output' = Scatter(shape, conv2d_params', n, row_offset, output)
         /\ row_offset' = row_offset + rows
         /\ n' = IF last THEN n + 1 ELSE n
         /\ pc' = CASE ~last -> "job"
                    [] last /\ n + 1 < shape.batch -> "exec"
                    [] OTHER -> "compare"
  /\ UNCHANGED <<shape, status>>

(* The end of a case: its buffers are freed.                               *)
FreeLocals ==
  /\ pc' = "idle"
  /\ n' = 0 /\ row_offset' = 0
  /\ output' = <<>>

(* A buffer cannot be allocated, or float16_conv2d returns NULL: before or *)
(* after the parameters of the tile were set.                              *)
Fails ==
  /\ pc \in {"exec", "job"}
  /\ conv2d_params' \in
       IF pc = "exec" THEN {conv2d_params}
       ELSE {conv2d_params, JobParams(shape, JobRows(shape, row_offset))}
  /\ status' = -1
  /\ FreeLocals
  /\ UNCHANGED shape

(* The comparison with the CPU.                                            *)
Compare ==
  /\ pc = "compare"
  /\ status' = IF output = Expected(shape) THEN 0 ELSE -1
  /\ FreeLocals
  /\ UNCHANGED <<shape, conv2d_params>>

Next ==
  \/ \E s \in Shapes : StartCase(s) \/ Refuse(s)
  \/ Exec \/ Job \/ Fails \/ Compare

Spec == Init /\ [][Next]_vars

-----------------------------------------------------------------------------
TypeOK ==
  /\ pc \in {"idle", "exec", "job", "compare"}
  /\ shape \in Shapes
  /\ status \in {0, -1}
  /\ conv2d_params.in_height \in Nat /\ conv2d_params.out_width_stride \in Nat
  /\ IF pc = "idle" THEN n = 0 /\ row_offset = 0
     ELSE /\ n \in 0..shape.batch
          /\ row_offset \in 0..OutHeight(shape)
          /\ conv2d_params.in_height > 0 /\ conv2d_params.out_width_stride > 0

(* The parameters of the job that has just run.                            *)
AfterJob == pc \in {"job", "compare"} /\ row_offset > 0

(***************************************************************************)
(* When no call failed, every element of the answer is the element of the  *)
(* convolution that belongs there: right image, channel, row and column,   *)
(* whatever the tiles, and none is left as malloc returned it.             *)
(***************************************************************************)
AnswerIsConvolution == pc = "compare" => output = Expected(shape)

(***************************************************************************)
(* float16_conv2d is told sizes that match the global, which decides       *)
(* whether it packs at all: a tile has exactly the rows the global says,   *)
(* lies inside the image, and, for a 1x1 kernel, fits the NPU's buffer     *)
(* unless it is one row.                                                   *)
(***************************************************************************)
TileFits ==
  AfterJob =>
    LET p == conv2d_params
    IN  /\ row_offset <= OutHeight(shape)
        /\ p.out_height = p.in_height - p.kernel_h + 1
        /\ OneByOne(shape) /\ p.out_height > 1 => p.out_height * p.width_stride <= TileElems

(***************************************************************************)
(* The three copies of the shape rules agree: regcmd_helper programs the   *)
(* layout float16_conv2d packs, and every value fits its register field.   *)
(***************************************************************************)
RegistersMatchPacking ==
  AfterJob => RegistersAgree(conv2d_params) /\ FieldsFit(conv2d_params)

(***************************************************************************)
(* Packing stays inside the buffers, which are sized by other formulas     *)
(* than those that index them, and no element lands on another.            *)
(***************************************************************************)
PackInside ==
  AfterJob =>
    LET p == conv2d_params
        elements == (0..(p.in_channels - 1)) \X (0..(p.in_height - 1)) \X (0..(p.in_width - 1))
        places == {PackIndex(p, e[1], e[2], e[3]) : e \in elements}
        slots == {Slot(p, k[1], k[2], k[3], k[4]) : k \in Written(p)}
    IN  /\ places \subseteq 0..(InputElems(p) - 1)
        /\ Cardinality(places) = p.in_channels * p.in_height * p.in_width
        /\ slots \subseteq 0..(KernelElems(p) - 1)
        /\ Cardinality(slots) = Cardinality(Written(p))

(***************************************************************************)
(* The job writes, and the unpacking reads, inside the output buffer.      *)
(***************************************************************************)
OutputInside ==
  AfterJob =>
    LET p == conv2d_params
    IN  \A oc \in {7, p.out_channels - 1} \cap (0..(p.out_channels - 1)) :
          /\ WriteIndex(p, oc, p.out_height - 1, p.out_width - 1) < OutputElems(p)
          /\ ReadIndex(shape, p, oc, p.out_height - 1, p.out_width - 1) < OutputElems(p)

(***************************************************************************)
(* Every weight of the kernel is packed exactly once, by the expansion to  *)
(* all channels, the reordering and the packing together, and what else is *)
(* packed is zero.                                                         *)
(***************************************************************************)
EveryWeightOnce ==
  AfterJob =>
    LET p == conv2d_params
        Packed(k) == LET src == Source(p, k[1], k[2], k[3], k[4])
                     IN  NpuKernel(shape, src[1], src[2], src[3], src[4])
        full == {k \in Written(p) : Packed(k) # Zero}
    IN  /\ {Packed(k) : k \in full} =
             (0..(shape.out_channels - 1)) \X (0..(shape.weight_in_channels - 1))
               \X (0..(shape.kernel_h - 1)) \X (0..(shape.kernel_w - 1))
        /\ Cardinality(full) = shape.out_channels * shape.weight_in_channels
                                 * shape.kernel_h * shape.kernel_w
=============================================================================
