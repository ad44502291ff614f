---------------------------- MODULE MatmulSplit ----------------------------
(***************************************************************************)
(* run_matmul_case of ops_reg/main.c: a product too large for one NPU job  *)
(* is split by rows (matmul_split_m), within that by columns               *)
(* (matmul_split_n), within that along the inner dimension                 *)
(* (matmul_split_k), each tile being one call of float16_matmul, which may *)
(* fail. All arrays are the flat ones of the code: what is modelled is     *)
(* which element every stride and offset reaches.                          *)
(*                                                                         *)
(* A float is the sequence of the terms added up in it, a term a pair of   *)
(* elements of A and B, an element its row and column. Zero is <<>>.       *)
(***************************************************************************)
EXTENDS Integers, Sequences

CONSTANTS
  MaxTile,    \* max_n and max_k, 8192
  MinTail,    \* min_tail, 544
  Align,      \* 32 halves, what align_in and align_out are multiples of
  Banks,      \* NPU_CBUF_BANKS, 12
  BankSize,   \* NPU_CBUF_BANK_SIZE, 32768 bytes
  PlanarSizes, \* 64 and 256: cubes of these sizes come out in planes
  PlaneWidth, \* 4 columns in each such plane
  Shapes      \* the shapes asked for

ASSUME TileAssumption ==
  /\ MinTail \in Nat \ {0} /\ Align \in Nat \ {0}
  /\ MaxTile \in Nat /\ 2 * MinTail <= MaxTile
  /\ MaxTile % Align = 0
  /\ Banks \in Nat /\ BankSize \in Nat
  /\ 2 * MaxTile <= (Banks - 2) * BankSize
  /\ PlanarSizes \subseteq Nat \ {0} /\ PlaneWidth \in Nat \ {0}
  /\ Shapes \subseteq [M : Nat \ {0}, N : Nat \ {0}, K : Nat \ {0}]

(* Planes are made of whole parts of what a row is aligned to.             *)
ASSUME PlaneAssumption == Align % PlaneWidth = 0

-----------------------------------------------------------------------------
(* Geometry.                                                               *)
AlignUp(value) == ((value + Align - 1) \div Align) * Align

(* make_matmul_params, the fields that depend on the shape.                *)
MatmulParams(m, n, k) ==
  [M |-> m, N |-> n, K |-> k, align_in |-> AlignUp(k), align_out |-> AlignUp(n)]

NoParams == [M |-> 0, N |-> 0, K |-> 0, align_in |-> 0, align_out |-> 0]

(* The bytes of the input rows of a job, two per half.                     *)
InputBytes(m, k) == 2 * m * AlignUp(k)

(* Mutant: the row size of an unsplit K decides, and is not aligned.       *)
MaxRowsUnaligned(k) ==
  LET rows == ((Banks - 2) * BankSize) \div (2 * k)
  IN  IF rows < 1 THEN 1 ELSE rows

(* matmul_max_m_tile: two banks are kept for the weights.                  *)
MaxRows(k) ==
  LET effective_k == IF k > MaxTile THEN MaxTile ELSE k
      rows == ((Banks - 2) * BankSize) \div InputBytes(1, effective_k)
  IN  IF rows < 1 THEN 1 ELSE rows

(***************************************************************************)
(* matmul_split_n and matmul_split_k: full tiles and a tail, which borrows *)
(* from the last full tile when it is short.                               *)
(***************************************************************************)
FullTiles(total) == total \div MaxTile
Rest(total) == total % MaxTile
Borrow(total) ==
  IF Rest(total) > 0 /\ Rest(total) < MinTail /\ FullTiles(total) > 0
  THEN MinTail - Rest(total) ELSE 0
Tail0(total) == Rest(total) + Borrow(total)
TileCount(total) == FullTiles(total) + (IF Tail0(total) > 0 THEN 1 ELSE 0)
(* Mutant: the tail borrows, and the last full tile does not lend.         *)
TileSizeNotLent(total, tile) ==
  IF tile = FullTiles(total) THEN Tail0(total) ELSE MaxTile
TileSize(total, tile) ==
  CASE tile = FullTiles(total) /\ Tail0(total) > 0 -> Tail0(total)
    [] Borrow(total) > 0 /\ tile = FullTiles(total) - 1 -> MaxTile - Borrow(total)
    [] OTHER -> MaxTile

(* matmul_split_m: full tiles of `rows` rows and a plain tail.             *)
RowTileCount(total, rows) ==
  total \div rows + (IF total % rows > 0 THEN 1 ELSE 0)
RowTileSize(total, rows, tile) ==
  IF tile = total \div rows THEN total % rows ELSE rows

-----------------------------------------------------------------------------
VARIABLES
  pc,            \* "idle", "job", "done"
  shape,         \* M, N and K of the product asked for
  tile,          \* index of the loops over m, n and k
  offset,        \* m_offset, n_offset and k_offset
  actual,        \* M x N floats: the result
  tile_out,      \* M x max_n floats: the result of one tile of columns
  matmul_params, \* the global: what unpacking assumes of the last job
  status         \* what run_matmul_case returns: "none", "ok", "failed"

vars == <<pc, shape, tile, offset, actual, tile_out, matmul_params, status>>

SplitN == shape.N > MaxTile
SplitK == shape.K > MaxTile

(* The size of the current job.                                            *)
tile_m == RowTileSize(shape.M, MaxRows(shape.K), tile.m)
tile_n == TileSize(shape.N, tile.n)
tile_k == TileSize(shape.K, tile.k)

LastM == tile.m = RowTileCount(shape.M, MaxRows(shape.K)) - 1
LastN == tile.n = TileCount(shape.N) - 1
LastK == tile.k = TileCount(shape.K) - 1

Start == [m |-> 0, n |-> 0, k |-> 0]
Junk == <<"uninitialized">>
Floats(n) == [i \in 0..(n - 1) |-> <<Junk>>]

Init ==
  /\ pc = "idle"
  /\ shape = [M |-> 1, N |-> 1, K |-> 1]
  /\ tile = Start /\ offset = Start
  /\ actual = <<>> /\ tile_out = <<>>
  /\ matmul_params = NoParams
  /\ status = "none"

-----------------------------------------------------------------------------
(* The arrays. Row-major A (M x K) and B (K x N), each element its name.   *)
a == [i \in 0..(shape.M * shape.K - 1) |-> <<i \div shape.K, i % shape.K>>]
b == [i \in 0..(shape.K * shape.N - 1) |-> <<i \div shape.N, i % shape.N>>]

(* The memcpy loops that gather a block of rows x cols of an array with    *)
(* the given stride, from base on, into a dense tile.                      *)
Gather(src, base, stride, rows, cols) ==
  [i \in 0..(rows * cols - 1) |->
     src[base + (i \div cols) * stride + (i % cols)]]

(* And the loop that copies a dense tile back.                             *)
Scatter(dst, base, stride, rows, cols, src) ==
  [i \in DOMAIN dst |->
     LET row == (i - base) \div stride
         col == (i - base) % stride
     IN  IF i >= base /\ row < rows /\ col < cols
         THEN src[row * cols + col] ELSE dst[i]]

(* The operands of the current job. Without a split the tile is the whole  *)
(* array, which the code passes as it is.                                  *)
b_of_n == Gather(b, offset.n, shape.N, shape.K, tile_n)
a_tile == Gather(a, offset.m * shape.K + offset.k, shape.K, tile_m, tile_k)
b_tile == Gather(b_of_n, offset.k * tile_n, tile_n, tile_k, tile_n)

(* The columns of a plane of the output; mostly all columns are in one.    *)
C2(params) ==
  IF \E size \in PlanarSizes : params.M = size /\ params.N = size /\ params.K = size
  THEN PlaneWidth ELSE params.align_out

(***************************************************************************)
(* float16_matmul: plane after plane, in each row after row; the padding   *)
(* of the columns is zero.                                                 *)
(***************************************************************************)
NpuOutput(m, n, k) ==
  LET c2 == C2(MatmulParams(m, n, k))
  IN  [i \in 0..(m * AlignUp(n) - 1) |->
         LET row == (i % (m * c2)) \div c2
             col == (i \div (m * c2)) * c2 + (i % c2)
         IN  IF col < n
             THEN [j \in 1..k |->
                     <<a_tile[row * k + j - 1], b_tile[(j - 1) * n + col]>>]
             ELSE <<>>]

(* unpack_matmul_output_fp32, by the layout the global says.               *)
Unpack(src, params, m, n) ==
  LET c2 == C2(params)
  IN  [i \in 0..(m * n - 1) |->
         LET row == i \div n
             col == i % n
         IN  src[(col \div c2) * m * c2 + row * c2 + (col % c2)]]

-----------------------------------------------------------------------------
(* run_matmul_case: the caller's arrays.                                   *)
Begin(s) ==
  /\ pc = "idle"
  /\ pc' = "job"
  /\ shape' = s
  /\ actual' = Floats(s.M * s.N)
  /\ tile_out' = Floats(IF s.N > MaxTile THEN s.M * MaxTile ELSE 0)
  /\ UNCHANGED <<tile, offset, matmul_params, status>>

(* Mutant: the destination is not cleared.                                 *)
AccumulateUncleared(dst, base, count, src) ==
  [i \in DOMAIN dst |->
     IF i \notin base..(base + count - 1) THEN dst[i]
     ELSE IF SplitK THEN dst[i] \o src[i - base]
     ELSE src[i - base]]

(***************************************************************************)
(* Where the tile goes: matmul_split_k clears its destination first and    *)
(* adds each tile, else the tile is copied.                                *)
(***************************************************************************)
Accumulate(dst, base, count, src) ==
  [i \in DOMAIN dst |->
     IF i \notin base..(base + count - 1) THEN dst[i]
     ELSE IF SplitK /\ tile.k > 0 THEN dst[i] \o src[i - base]
     ELSE src[i - base]]

(* The loops, innermost first; an inner loop starts over with each tile.   *)
Advance ==
  \/ /\ ~LastK
     /\ tile' = [tile EXCEPT !.k = @ + 1]
     /\ offset' = [offset EXCEPT !.k = @ + tile_k]
  \/ /\ LastK /\ ~LastN
     /\ tile' = [tile EXCEPT !.k = 0, !.n = @ + 1]
     /\ offset' = [offset EXCEPT !.k = 0, !.n = @ + tile_n]
  \/ /\ LastK /\ LastN /\ ~LastM
     /\ tile' = [Start EXCEPT !.m = tile.m + 1]
     /\ offset' = [Start EXCEPT !.m = offset.m + tile_m]
  \/ /\ LastK /\ LastN /\ LastM
     /\ UNCHANGED <<tile, offset>>

(* Mutant: the split functions leave the layout of their last tile.        *)
ParamsOfLastTile == MatmulParams(tile_m, tile_n, tile_k)

(* Each split function that is through sets the layout of its whole.       *)
ParamsAfterJob ==
  MatmulParams(IF LastK /\ LastN /\ LastM THEN shape.M ELSE tile_m,
               IF LastK /\ LastN THEN shape.N ELSE tile_n,
               IF LastK THEN shape.K ELSE tile_k)

(* A job of the NPU succeeds and its tile is added to the result.          *)
Job ==
  LET params == MatmulParams(tile_m, tile_n, tile_k)
      out == Unpack(NpuOutput(tile_m, tile_n, tile_k), params, tile_m, tile_n)
      columns == Accumulate(tile_out, 0, tile_m * tile_n, out)
      base == offset.m * shape.N
  IN  /\ pc = "job"
      /\ IF SplitN
           THEN /\ tile_out' = columns
                /\ actual' = IF LastK
                     THEN Scatter(actual, base + offset.n, shape.N,
                                  tile_m, tile_n, columns)
                     ELSE actual
           ELSE /\ actual' = Accumulate(actual, base, tile_m * tile_n, out)
                /\ UNCHANGED tile_out
      /\ matmul_params' = ParamsAfterJob
      /\ Advance
      /\ IF LastK /\ LastN /\ LastM
           THEN pc' = "done" /\ status' = "ok"
           ELSE UNCHANGED <<pc, status>>
      /\ UNCHANGED shape

(* Mutant: the loop is left without a verdict.                             *)
JobFailsUndecided ==
  /\ pc = "job"
  /\ matmul_params' = MatmulParams(tile_m, tile_n, tile_k)
  /\ pc' = "done"
  /\ UNCHANGED <<shape, tile, offset, actual, tile_out, status>>

(* float16_matmul returns NULL: every split function gives up.             *)
JobFails ==
  /\ pc = "job"
  /\ matmul_params' = MatmulParams(tile_m, tile_n, tile_k)
  /\ pc' = "done"
  /\ status' = "failed"
  /\ UNCHANGED <<shape, tile, offset, actual, tile_out>>

(* run_matmul_case, or a split function it enters, cannot allocate.        *)
BufferFails ==
  /\ pc = "job"
  /\ \/ tile = Start
     \/ tile.k = 0 /\ SplitK
     \/ tile.k = 0 /\ tile.n = 0 /\ SplitN
  /\ pc' = "done"
  /\ status' = "failed"
  /\ UNCHANGED <<shape, tile, offset, actual, tile_out, matmul_params>>

Done == pc = "done" /\ UNCHANGED vars

Next == (\E s \in Shapes : Begin(s)) \/ Job \/ JobFails \/ BufferFails \/ Done

Spec == Init /\ [][Next]_vars

-----------------------------------------------------------------------------
(* Properties.                                                             *)

TypeOK ==
  /\ pc \in {"idle", "job", "done"}
  /\ shape \in [M : Nat \ {0}, N : Nat \ {0}, K : Nat \ {0}]
  /\ tile \in [m : Nat, n : Nat, k : Nat]
  /\ offset \in [m : Nat, n : Nat, k : Nat]
  /\ status \in {"none", "ok", "failed"} /\ (pc = "done" <=> status # "none")

(***************************************************************************)
(* Success means that every element of the result is the sum of exactly    *)
(* its K terms, each once: no tile is missed, repeated, misplaced, or      *)
(* unpacked with another job's stride, whatever splits are nested.         *)
(***************************************************************************)
ProductCorrect ==
  status = "ok" =>
    \A i \in 0..(shape.M * shape.N - 1) :
      actual[i] = [j \in 1..shape.K |->
                     <<<<i \div shape.N, j - 1>>, <<j - 1, i % shape.N>>>>]

(***************************************************************************)
(* Every job has a size the NPU takes: at least two banks are left for the *)
(* weights, N and K are at most max_n and max_k, and a split along them    *)
(* makes no tile shorter than min_tail, neither the tail nor the tile it   *)
(* borrows from. regcmd_helper clamps the banks of a job that does not     *)
(* fit, silently.                                                          *)
(***************************************************************************)
JobFits ==
  pc = "job" =>
    /\ InputBytes(tile_m, tile_k) <= (Banks - 2) * BankSize
    /\ tile_n <= MaxTile /\ (SplitN => tile_n >= MinTail)
    /\ tile_k <= MaxTile /\ (SplitK => tile_k >= MinTail)

(***************************************************************************)
(* The tiles of the loops cover their dimension without gap or overlap:    *)
(* every job's tile ends inside it, and the last one at its end.           *)
(***************************************************************************)
TilesInside ==
  pc = "job" =>
    /\ offset.m + tile_m <= shape.M /\ (LastM <=> offset.m + tile_m = shape.M)
    /\ offset.n + tile_n <= shape.N /\ (LastN <=> offset.n + tile_n = shape.N)
    /\ offset.k + tile_k <= shape.K /\ (LastK <=> offset.k + tile_k = shape.K)

(* A successful split leaves the layout of the whole product behind, not   *)
(* that of one of its tiles: later unpacking reads the global.             *)
ParamsRestored ==
  status = "ok" => matmul_params = MatmulParams(shape.M, shape.N, shape.K)
=============================================================================
