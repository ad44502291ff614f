---------------------------- MODULE MatmulLayout ----------------------------
(***************************************************************************)
(* Where the halves of a matmul lie: the index functions weight_fp16 and   *)
(* feature_data, the packers for single shapes that spell the same layouts *)
(* out by hand, once in float16_matmul and once in run_matmul_case, and    *)
(* the strides regcmd_helper programs for them.                            *)
(*                                                                         *)
(* Cases of more rows than the NPU's buffer holds come in tiles of rows.   *)
(* Columns and inner dimension are those of one job: their splits leave    *)
(* tiles of at least 544, for which nothing is special (MatmulSplit).      *)
(***************************************************************************)
EXTENDS Integers, FiniteSets

CONSTANTS
  BufferBytes,  \* what is left of the NPU's buffer for rows: 10 banks of 32768
  Shapes        \* the products asked for

LayoutAssumption ==
  /\ BufferBytes \in Nat \ {0}
  /\ Shapes \subseteq [M : Nat \ {0}, N : Nat \ {0}, K : Nat \ {0}]

VARIABLES
  pc,        \* "idle", "job"
  shape,     \* the product
  m_offset,  \* the first row of the job
  job        \* its size, and whether run_matmul_case packed its operands

vars == <<pc, shape, m_offset, job>>

-----------------------------------------------------------------------------
(* make_matmul_params.                                                     *)
AlignUp(value) == ((value + 31) \div 32) * 32
AlignIn(j) == AlignUp(j.K)
AlignOut(j) == AlignUp(j.N)

(* The sizes of the buffers: halves, halves, floats.                       *)
InputElems(j) == AlignIn(j) * j.M
WeightElems(j) == AlignIn(j) * AlignOut(j)
OutputElems(j) == AlignOut(j) * j.M

Cube(j, size) == j.M = size /\ j.N = size /\ j.K = size

(* Tiles of 32 inner elements by 16 columns, column by column: where inner *)
(* element c of column k lies, both counted from 1.                        *)
weight_fp16(C, k, c) ==
  (((c - 1) \div 32) * 32) * 16 + ((k - 1) \div 16) * 16 * C
    + ((c - 1) % 32) + ((k - 1) % 16) * 32

(* Planes of C2 channels: channel c of the pixel (h, w), counted from 1.   *)
feature_data(C, H, W, C2, c, h, w) ==
  ((c - 1) \div C2) * H * W * C2 + C2 * ((h - 1) * W + (w - 1)) + ((c - 1) % C2)

-----------------------------------------------------------------------------
(* The packers, for row m, column n and inner element k from 0.            *)

(* pack_matmul_input_9x9_fp16, pack_input_8x8_stride32.                    *)
ByRow(j, m, k) == m * AlignIn(j) + k
(* pack_matmul_input_64x64_fp16, pack_matmul_input_nc1hwc2_fp16.           *)
ByPlane(j, m, k) == feature_data(AlignIn(j), j.M, 1, 8, k + 1, m + 1, 1)
(* pack_matmul_weights_9x9_fp16, pack_weight_8x8_column_major, and the     *)
(* branch of pack_matmul_weights_fp16 for 32 by 32.                        *)
ByColumn(j, n, k) == n * AlignIn(j) + k

(* pack_matmul_weights_fp16.                                               *)
PackWeights(j, n, k) ==
  IF j.N = 32 /\ j.K = 32 THEN ByColumn(j, n, k)
  ELSE weight_fp16(AlignIn(j), n + 1, k + 1)

(* float16_matmul packs what it is given as rows,                          *)
PlainInput(j, m, k) ==
  CASE Cube(j, 9) -> ByRow(j, m, k)
    [] Cube(j, 64) -> ByPlane(j, m, k)
    [] OTHER -> feature_data(AlignIn(j), j.M, 1, AlignIn(j), k + 1, m + 1, 1)
PlainWeights(j, n, k) ==
  IF j.N = 9 /\ j.K = 9 THEN ByColumn(j, n, k) ELSE PackWeights(j, n, k)

(* and run_matmul_case packs four cubes for float16_matmul_prepacked.      *)
PrepackedInput(j, m, k) ==
  IF Cube(j, 8) \/ Cube(j, 9) THEN ByRow(j, m, k) ELSE ByPlane(j, m, k)
PrepackedWeights(j, n, k) ==
  IF Cube(j, 8) \/ Cube(j, 9) THEN ByColumn(j, n, k) ELSE PackWeights(j, n, k)

InputIndex(j, m, k) ==
  IF j.prepacked THEN PrepackedInput(j, m, k) ELSE PlainInput(j, m, k)
WeightIndex(j, n, k) ==
  IF j.prepacked THEN PrepackedWeights(j, n, k) ELSE PlainWeights(j, n, k)

(* unpack_matmul_output_fp32.                                              *)
C2(j) == IF Cube(j, 64) \/ Cube(j, 256) THEN 4 ELSE AlignOut(j)
OutputIndex(j, m, n) == (n \div C2(j)) * j.M * C2(j) + m * C2(j) + (n % C2(j))

-----------------------------------------------------------------------------
(* regcmd_helper, alu_case_matmul: strides in units of 16 bytes.           *)

(* Mutant: the stride counts the real elements of a row.                   *)
LineStrideReal(j) ==
  IF j.K > 32 /\ j.K < 512 /\ j.K # 64 /\ j.K # 256 THEN (j.K \div 32) * 4 ELSE 4

LineStride(j) ==
  IF j.K > 32 /\ j.K < 512 /\ j.K # 64 /\ j.K # 256
  THEN LET steps == (j.K + 31) \div 32 IN (IF steps > 13 THEN 13 ELSE steps) * 4
  ELSE 4

(* Between the atoms of two rows, and between two planes of the output.    *)
Notch(j) ==
  LET blocks == AlignOut(j) \div 32
  IN  IF (j.K = j.N /\ j.K \in {64, 256, 512}) \/ j.K > 7872 THEN 0
      ELSE 8 * (IF blocks > 13 THEN 13 ELSE blocks) - 1
DstSurfStride(j) == IF Cube(j, 64) \/ Cube(j, 256) THEN j.M ELSE 1

-----------------------------------------------------------------------------
(* run_matmul_case.                                                        *)

(* matmul_max_m_tile.                                                      *)
MaxRows(s) ==
  LET rows == BufferBytes \div (2 * AlignUp(s.K)) IN IF rows < 1 THEN 1 ELSE rows

(* The job that begins at a row: the whole product or a tile of rows.      *)
JobAt(s, first) ==
  [M |-> IF s.M - first > MaxRows(s) THEN MaxRows(s) ELSE s.M - first,
   N |-> s.N, K |-> s.K,
   prepacked |-> s.M <= MaxRows(s) /\ \E size \in {8, 9, 64, 256} : Cube(s, size)]

Init ==
  /\ pc = "idle"
  /\ shape \in Shapes
  /\ m_offset = 0
  /\ job = JobAt(shape, 0)

RunCase(s) ==
  /\ pc = "idle"
  /\ shape' = s /\ m_offset' = 0
  /\ job' = JobAt(s, 0)
  /\ pc' = "job"

NextTile ==
  /\ pc = "job" /\ m_offset + job.M < shape.M
  /\ m_offset' = m_offset + job.M
  /\ job' = JobAt(shape, m_offset')
  /\ UNCHANGED <<pc, shape>>

(* After the last job, or after one that failed.                           *)
Return ==
  /\ pc = "job"
  /\ pc' = "idle"
  /\ UNCHANGED <<shape, m_offset, job>>

Next == \/ \E s \in Shapes : RunCase(s)
        \/ NextTile \/ Return

Spec == Init /\ [][Next]_vars

-----------------------------------------------------------------------------
Rows(j) == 0..(j.M - 1)
Cols(j) == 0..(j.N - 1)
Inner(j) == 0..(j.K - 1)

TypeOK ==
  /\ pc \in {"idle", "job"}
  /\ shape \in [M : Nat \ {0}, N : Nat \ {0}, K : Nat \ {0}]
  /\ m_offset \in Nat
  /\ job \in [M : Nat \ {0}, N : Nat \ {0}, K : Nat \ {0}, prepacked : BOOLEAN]
  /\ m_offset + job.M <= shape.M

(***************************************************************************)
(* Every index a packer computes, and every one unpacking reads, lies in   *)
(* the buffer: the test of pack_matmul_weights_fp16 that skips an element  *)
(* outside never does, and the other packers, which have none, need none.  *)
(***************************************************************************)
IndicesInside == pc = "job" =>
  /\ \A m \in Rows(job), k \in Inner(job) : InputIndex(job, m, k) \in 0..(InputElems(job) - 1)
  /\ \A n \in Cols(job), k \in Inner(job) : WeightIndex(job, n, k) \in 0..(WeightElems(job) - 1)
  /\ \A m \in Rows(job), n \in Cols(job) : OutputIndex(job, m, n) \in 0..(OutputElems(job) - 1)

(***************************************************************************)
(* All weights lie where weight_fp16 has them, also those that one of the  *)
(* hand-written packers places; no two share a place.                      *)
(***************************************************************************)
WeightsInTiles == pc = "job" =>
  /\ \A n \in Cols(job), k \in Inner(job) :
       WeightIndex(job, n, k) = weight_fp16(AlignIn(job), n + 1, k + 1)
  /\ Cardinality({WeightIndex(job, n, k) : n \in Cols(job), k \in Inner(job)}) = job.N * job.K

(***************************************************************************)
(* For the products documented to work (all sizes up to 414, or one row)   *)
(* the strides programmed are those of what was packed and is unpacked:    *)
(* rows of the input, rows and planes of the output.                       *)
(***************************************************************************)
StridesMatch ==
  job.M > 1 =>
    /\ InputIndex(job, 1, 0) = IF InputIndex(job, 0, job.K - 1) = job.K - 1
                               THEN LineStride(job) * 8 ELSE 8
    /\ OutputIndex(job, 1, 0) = (Notch(job) + 1) * 4
    /\ \A n \in Cols(job) : OutputIndex(job, 0, n) =
         (n \div 4) * DstSurfStride(job) * 4 + (n % 4)

(***************************************************************************)
(* The registers depend on the size alone, so the two functions that pack  *)
(* a job of that size must pack it alike: a tile of rows of a larger       *)
(* product may have the size of a cube that run_matmul_case packs itself.  *)
(***************************************************************************)
OneLayout ==
  (\E size \in {8, 9, 64, 256} : Cube(job, size)) =>
    /\ \A m \in Rows(job), k \in Inner(job) : PlainInput(job, m, k) = PrepackedInput(job, m, k)
    /\ \A n \in Cols(job), k \in Inner(job) : PlainWeights(job, n, k) = PrepackedWeights(job, n, k)
=============================================================================
