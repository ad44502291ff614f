------------------------------ MODULE MCMatmul ------------------------------
(***************************************************************************)
(* The matrix product of ops_reg, scaled down in how it is split and at    *)
(* the real sizes in how it is laid out. One process is started: "split"   *)
(* is run_matmul_case with the elements of its arrays, "layout" the same   *)
(* cases with the places of the halves.                                    *)
(***************************************************************************)
EXTENDS MatmulSplit

CONSTANTS
  Processes,                  \* those a run starts
  BufferBytes, LayoutShapes   \* of MatmulLayout

VARIABLES process, layout_pc, product, m_offset, job

layoutVars == <<layout_pc, product, m_offset, job>>

Layout == INSTANCE MatmulLayout
  WITH pc <- layout_pc, shape <- product, Shapes <- LayoutShapes

ASSUME ProductAssumption == Layout!LayoutAssumption

Idle == "idle"
NoLayout == layout_pc = Idle /\ product = Idle /\ m_offset = Idle /\ job = Idle

MatmulInit ==
  /\ process \in Processes
  /\ Init
  /\ IF process = "layout" THEN Layout!Init ELSE NoLayout

MatmulNext ==
  \/ process = "split" /\ Next /\ UNCHANGED <<process, layoutVars>>
  \/ process = "layout" /\ Layout!Next /\ UNCHANGED <<process, vars>>

MatmulSpec == MatmulInit /\ [][MatmulNext]_<<process, vars, layoutVars>>

(***************************************************************************)
(* The layout of every product of a case: no packer leaves its buffer, the *)
(* hand-written packers agree with weight_fp16, and the registers describe *)
(* what was packed.                                                        *)
(***************************************************************************)
LayoutAgrees ==
  process = "layout" =>
    /\ Layout!TypeOK
    /\ Layout!IndicesInside
    /\ Layout!WeightsInTiles
    /\ Layout!StridesMatch

-----------------------------------------------------------------------------
(***************************************************************************)
(* What the constants are given. MatmulSplit, scaled down, 4 for 8192 and  *)
(* 2 for 544: 1 and 3 are less than a tile; 4 exactly one; 5 has a tail    *)
(* that borrows from the first tile; 6 one long enough; 9 two full tiles,  *)
(* of which the second lends. With two banks of 8 bytes for data, 4 rows   *)
(* of K <= 2 halves fit, or 2 rows of more. The tails of M = 2 and         *)
(* N = K = 5 make a cube of 2, which comes out in planes one column wide.  *)
(***************************************************************************)
SmallShapes ==
  [M : {1, 2, 3, 5}, N : {1, 3, 4, 5, 6, 9}, K : {1, 3, 4, 5, 6, 9}]

(* MatmulLayout: products around the tile sizes and the singled out ones.  *)
P(m, n, k) == [M |-> m, N |-> n, K |-> k]
Small == {P(m, n, k) : m \in {1, 2, 9}, n \in {1, 16, 17, 33}, k \in {1, 9, 32, 33}}
Cubes == {P(i, i, i) : i \in {8, 9, 31, 32, 33, 63, 64, 65, 100, 256}}
(* One row may have any size; more rows the strides documented to work.    *)
Vectors == {P(1, 64, 64), P(1, 40, 600), P(1, 600, 40)}
(* In tiles: 5120 rows of up to 32 halves fill the buffer, or 2560 of 64.  *)
Tiled == {P(m, 3, k) : m \in {5120, 5129, 10300}, k \in {9, 40}}
Documented == Small \cup Cubes \cup Vectors \cup Tiled
=============================================================================
