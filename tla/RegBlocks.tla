----------------------------- MODULE RegBlocks -----------------------------
(***************************************************************************)
(* The register commands regcmd_helper emits for each algorithm, in their  *)
(* order. A command is the unit and register it writes and, where a        *)
(* property looks at it, the value; the others are "plain". The cube sizes *)
(* among them are in AluGeometry, the table entries in LutTable.           *)
(***************************************************************************)
EXTENDS Integers, Sequences

CONSTANTS
  LutEntries,   \* entries of one table, 513
  Reserved      \* REGCMD_RESERVED, 16384 bytes before the weights

(***************************************************************************)
(* The items of a block, each emitted `times` times in a row. A value is a *)
(* number <<n>>, or a record of what is packed in it.                      *)
(***************************************************************************)
Item(unit, reg, val, times) ==
  [unit |-> unit, reg |-> reg, val |-> val, times |-> times]

Plain(unit, times) == Item(unit, "plain", <<0>>, times)
Pointer(unit) == Item(unit, "S_POINTER", <<0>>, 1)
(* An address register: a buffer and the offset in it.                     *)
Addr(unit, reg, buf, at) == Item(unit, reg, [buf |-> buf, at |-> at], 1)
Enable(units) == Item("PC", "OPERATION_ENABLE", [on |-> units], 1)
(* The registers that name the next task, emitted as zero.                 *)
Chain == << Item("PC", "BASE_ADDRESS", <<0>>, 1), Item("PC", "REGISTER_AMOUNTS", <<0>>, 1) >>

(* REG_PC_OPERATION_ENABLE: bit 0 CNA, 2 CORE, 3 DPU, 4 DPU_RDMA, 5 and 6  *)
(* the PPU and its RDMA.                                                   *)
ConvUnits == {"CNA", "CORE", "DPU"}
AluUnits == {"DPU", "DPU_RDMA"}
PoolUnits == {"PPU", "PPU_RDMA"}

-----------------------------------------------------------------------------
(* The blocks of regcmd_helper, by the label in the code.                  *)

(* The convolution core: features from input, weights behind the reserve.  *)
Dcomp == Addr("CNA", "DCOMP_ADDR0", "weights", Reserved)
Feature == Addr("CNA", "FEATURE_DATA_ADDR", "input", 0)
Dst(unit) == Addr(unit, "DST_BASE_ADDR", "output", 0)

conv2d ==
  << Pointer("DPU"), Plain("CNA", 17), Feature, Plain("CNA", 5), Dcomp,
     Plain("CNA", 1), Plain("CORE", 4), Plain("DPU", 2), Dst("DPU"),
     Plain("DPU", 13), Plain("none", 1), Enable(ConvUnits) >>
conv1d ==
  << Plain("CNA", 2), Pointer("DPU"), Plain("CNA", 16), Feature, Plain("CNA", 4),
     Dcomp, Plain("CNA", 1), Plain("CORE", 4), Plain("DPU", 2), Dst("DPU"),
     Plain("DPU", 13), Enable(ConvUnits) >>
matmul ==
  << Pointer("DPU"), Plain("CNA", 17), Feature, Plain("CNA", 5), Dcomp,
     Plain("CORE", 4), Plain("DPU", 2), Dst("DPU"), Plain("DPU", 12),
     Enable(ConvUnits) >>

(* The element-wise blocks: two operands, n registers of the DPU.          *)
Src(buf, at) == Addr("DPU_RDMA", "SRC_BASE_ADDR", buf, at)
Ew(buf, at) == Addr("DPU_RDMA", "EW_BASE_ADDR", buf, at)

Binary(n, src, ew) ==
  << Pointer("DPU"), Pointer("DPU_RDMA"), Plain("DPU", 2), Dst("DPU"),
     Plain("DPU", n), Plain("DPU_RDMA", 3), src, Plain("DPU_RDMA", 1), ew,
     Plain("DPU_RDMA", 3), Enable(AluUnits) >>
TwoOperands(n) == Binary(n, Src("input", 0), Ew("weights", Reserved))

relu == TwoOperands(13)
add == TwoOperands(13)
(* Mutant: the dividend is read from where the commands are.               *)
divReadsCommands == Binary(13, Src("weights", 0), Ew("input", 0))
(* The dividend is the operand in the weights buffer.                      *)
div == Binary(13, Src("weights", Reserved), Ew("input", 0))
minus == TwoOperands(13)
minmax == TwoOperands(13)
cmplt == TwoOperands(16)
cmple == TwoOperands(15)
cmpeq_part2 == TwoOperands(14)
cmpeq_part3 == TwoOperands(15)
neg == TwoOperands(15)
mul == TwoOperands(12)
abs == TwoOperands(13)

(* emit_lut_q015_tables and the loops like it.                             *)
Tables ==
  << Plain("DPU", 1), Item("DPU", "LUT_ACCESS_DATA", <<0>>, LutEntries),
     Plain("DPU", 1), Item("DPU", "LUT_ACCESS_DATA", <<0>>, LutEntries) >>
Pointers(unit, rdma) == << Pointer(unit), Pointer(rdma) >>
Body(n, before_src, after_src) ==
  << Plain("DPU", 2), Dst("DPU"), Plain("DPU", n), Plain("DPU_RDMA", before_src),
     Src("input", 0), Plain("DPU_RDMA", after_src), Enable(AluUnits) >>

sigmoid == Tables \o Pointers("DPU", "DPU_RDMA") \o Chain \o Body(23, 2, 3)
tan == Tables \o Pointers("DPU", "DPU_RDMA") \o Chain \o Body(21, 2, 3)
sin == Tables \o Pointers("DPU", "DPU_RDMA") \o Chain \o Body(21, 2, 3)
cos == Tables \o Pointers("DPU", "DPU_RDMA") \o Chain \o Body(21, 2, 3)
asin == Tables \o Pointers("DPU", "DPU_RDMA") \o Chain \o Body(21, 2, 3)
acos == Tables \o Pointers("DPU", "DPU_RDMA") \o Chain \o Body(21, 2, 3)
atan == Tables \o Pointers("DPU", "DPU_RDMA") \o Chain \o Body(21, 2, 3)
asinh == Tables \o Pointers("DPU", "DPU_RDMA") \o Chain \o Body(21, 2, 3)
acosh == Tables \o Pointers("DPU", "DPU_RDMA") \o Chain \o Body(21, 2, 3)
atanh == Tables \o Pointers("DPU", "DPU_RDMA") \o Chain \o Body(21, 2, 3)
sinh == Tables \o Pointers("DPU", "DPU_RDMA") \o Chain \o Body(21, 2, 3)
cosh == Tables \o Pointers("DPU", "DPU_RDMA") \o Chain \o Body(21, 2, 3)
silu == Tables \o Pointers("DPU", "DPU_RDMA") \o Body(21, 2, 3)
(* emit_lut_q015_tables and emit_lut_q015_biased: neither pointers nor     *)
(* chain registers.                                                        *)
biased == Tables \o Body(15, 3, 2)
(* A zero and the largest value in turn, 256 times for each table.         *)
roundoff ==
  << Plain("DPU", 1), Item("DPU", "LUT_ACCESS_DATA", <<0>>, LutEntries - 1),
     Plain("DPU", 1), Item("DPU", "LUT_ACCESS_DATA", <<0>>, LutEntries - 1) >>
    \o Pointers("DPU", "DPU_RDMA") \o Chain \o Body(20, 3, 3)

(* The pooling unit.                                                       *)
Pool(n) ==
  << Pointer("PPU"), Pointer("PPU_RDMA"), Plain("PPU", n), Dst("PPU"),
     Plain("PPU", 3), Plain("PPU_RDMA", 3),
     Addr("PPU_RDMA", "SRC_BASE_ADDR", "input", 0), Plain("PPU_RDMA", 4),
     Enable(PoolUnits) >>
maxpool == Pool(8)
avgpool == Pool(10)
globalmaxpool == Pool(6)
globalavgpool == Pool(10)

(* The block of the algorithms without one: the bit field of EW_ALU_ALGO   *)
(* keeps 4 bits, and nothing sets EW_BINARY_EN. The second operand is at   *)
(* the front of the weights buffer.                                        *)
default(algorithm) ==
  << Pointer("DPU"), Pointer("DPU_RDMA"), Plain("DPU", 2), Dst("DPU"),
     Plain("DPU", 8),
     Item("DPU", "EW_CFG", [binary_en |-> FALSE, alu_algo |-> algorithm % 16], 1),
     Plain("DPU", 3), Plain("DPU_RDMA", 2), Src("input", 0), Plain("DPU_RDMA", 1),
     Ew("weights", 0), Plain("DPU_RDMA", 5), Enable(AluUnits), Plain("PC", 1) >>

(* The switch over current_alu_algorithm.                                  *)
Block(algorithm) ==
  CASE algorithm \in {0, 1} -> minmax
    [] algorithm = 2 -> add
    [] algorithm = 3 -> div
    [] algorithm = 4 -> minus
    [] algorithm = 9 -> mul
    [] algorithm = 10 -> relu
    [] algorithm = 11 -> matmul
    [] algorithm = 12 -> conv1d
    [] algorithm = 13 -> conv2d
    [] algorithm = 14 -> sigmoid
    [] algorithm = 15 -> silu
    [] algorithm = 16 -> cmplt
    [] algorithm = 17 -> cmpeq_part2
    [] algorithm = 18 -> cmpeq_part3
    [] algorithm = 19 -> neg
    [] algorithm = 20 -> cmple
    [] algorithm = 22 -> abs
    [] algorithm = 23 -> roundoff
    [] algorithm = 24 -> maxpool
    [] algorithm = 25 -> globalmaxpool
    [] algorithm = 26 -> avgpool
    [] algorithm = 27 -> globalavgpool
    [] algorithm = 28 -> sin
    [] algorithm = 29 -> cos
    [] algorithm \in {30, 31} -> tan
    [] algorithm = 32 -> asin
    [] algorithm = 33 -> acos
    [] algorithm = 34 -> atan
    [] algorithm = 35 -> asinh
    [] algorithm = 36 -> acosh
    [] algorithm = 37 -> atanh
    [] algorithm = 38 -> sinh
    [] algorithm = 39 -> cosh
    [] algorithm \in 40..55 -> biased
    [] OTHER -> default(algorithm)
=============================================================================
