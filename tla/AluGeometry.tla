---------------------------- MODULE AluGeometry ----------------------------
(***************************************************************************)
(* How many elements an element-wise op computes. regcmd_helper programs a *)
(* cube of rows and columns into the registers; it takes them from four    *)
(* globals that the test cases of ops_reg/main.c set before some of their  *)
(* ops and nobody resets, and corrects them by the size of the input. So   *)
(* the cube of an op depends on every case run before it in the process.   *)
(*                                                                         *)
(* A run of the program is one case with a shape from the command line, or *)
(* all cases of kTests with their built-in shapes. An element takes one    *)
(* atom of 16 bytes. The minmax_bin cases are left out: they set           *)
(* max_params, which the max case that reads them sets again.              *)
(***************************************************************************)
EXTENDS Integers, Sequences

CONSTANTS
  Field,          \* sizes a register field can hold: 8192, it has 13 bits
  PageElements,   \* elements in a page: 256
  PaddedElements, \* elements of the smallest padded input: 20, 0x140 bytes
  MaxPair,        \* elements of a case with two operands: 65536
  MaxMatrix,      \* elements of a case with one operand: INT_MAX
  Cli,            \* the calls of the command line
  Script          \* the calls of ./main all, in order

Globals == {"div", "minus", "max", "lut"}

(***************************************************************************)
(* The ops of a case, in order: which global the case sets before the op,  *)
(* and where the op takes its cube from. "table" ops have a cube of 16 by  *)
(* 1, "pool" ops one of 4 by 4; "whole" is globalavgpool. Cases with the   *)
(* same ops share a name:                                                  *)
(*   unary    mul, minus, neg, abs, roundoff                               *)
(*   compare  cmplt, cmpgt, cmple, cmpge                                   *)
(*   pool     maxpool, minpool, globalmaxpool, globalminpool, avgpool      *)
(*   table    sigmoid, sin, cos, tan, tanh, asin, ... , atanh              *)
(*   lut      celu, selu, swish, ... , exp, exp2                           *)
(***************************************************************************)
Own(global) == [sets |-> global, cube |-> global]
Left(global) == [sets |-> "none", cube |-> global]
Stages ==
  [max |-> <<Own("max")>>,
   div |-> <<Own("div")>>,
   idiv |-> <<Own("div"), Own("minus"), Own("minus")>>,
   pool |-> <<[sets |-> "minus", cube |-> "pool"]>>,
   globalavgpool |-> <<[sets |-> "minus", cube |-> "whole"]>>,
   compare |-> <<Own("minus"), Left("minus")>>,
   cmpeq |-> <<Own("minus"), Left("minus"), Left("minus")>>,
   cmpneq |-> <<Own("minus"), Left("minus"), Left("minus"), Own("minus")>>,
   add |-> <<Left("minus")>>,
   unary |-> <<Own("minus")>>,
   rounddown |-> <<Own("minus"), Own("minus")>>,
   where |-> <<Own("minus"), Own("minus"), Own("minus"), Left("minus")>>,
   table |-> <<Left("table")>>,
   lut |-> <<Own("lut")>>,
   silu |-> <<Left("table"), Own("minus")>>,
   relu |-> <<Left("minus")>>]

OneOperand == {"table", "lut", "silu", "relu"}
Padded == {"table", "lut"}
Call == [case : DOMAIN Stages, rows : Int, cols : Int]

ASSUME GeometryAssumption ==
  /\ Field \in Nat \ {0} /\ PageElements \in Nat \ {0}
  /\ PaddedElements \in Nat \ {0}
  /\ MaxPair \in Nat /\ MaxMatrix \in Nat
  /\ Cli \subseteq Call /\ Script \in Seq(Call)

-----------------------------------------------------------------------------
VARIABLES
  calls,    \* the calls still to be made, the current one first
  stage,    \* index of its current op
  pc,       \* "ready" or "ran": whether that op has been run
  params,   \* div_params, minus_params, max_params and lut_params
  cube      \* rows and columns in the registers of the last op

vars == <<calls, stage, pc, params, cube>>

(* The shape of a call: sizes below 1 count as 1.                          *)
AtLeast1(n) == IF n > 0 THEN n ELSE 1
Rows(call) == AtLeast1(call.rows)
Cols(call) == AtLeast1(call.cols)
Size(call) == Rows(call) * Cols(call)

(* Too many elements; and globalavgpool has a configuration for 4x4 only.  *)
Refused(call) ==
  \/ Size(call) > (IF call.case \in OneOperand THEN MaxMatrix ELSE MaxPair)
  \/ call.case = "globalavgpool" /\ <<Rows(call), Cols(call)>> # <<4, 4>>

Op == Stages[Head(calls).case][stage]

Init ==
  /\ calls \in {Script} \cup {<<call>> : call \in Cli}
  /\ stage = 1
  /\ pc = "ready"
  /\ params = [g \in Globals |-> [rows |-> 0, cols |-> 0]]
  /\ cube = [rows |-> 0, cols |-> 0]

-----------------------------------------------------------------------------
(* Mutant: rows and columns swapped.                                       *)
SetParamsSwapped(op, call) ==
  IF op.sets = "none" THEN params
  ELSE [params EXCEPT ![op.sets] = [rows |-> Cols(call), cols |-> Rows(call)]]

(* set_div_params and its like, if the case calls one before this op.      *)
SetParams(op, call) ==
  IF op.sets = "none" THEN params
  ELSE [params EXCEPT ![op.sets] = [rows |-> Rows(call), cols |-> Cols(call)]]

(* packed_elems: what the size of the input buffer says.                   *)
PackedElems(op, call) ==
  IF op.cube \in Padded /\ Size(call) < PaddedElements
  THEN PaddedElements ELSE Size(call)

(* Mutant: the global is believed, whatever the input holds.               *)
CubeOfGlobal(p, packed) ==
  [rows |-> AtLeast1(p.rows), cols |-> IF p.cols > 0 THEN p.cols ELSE packed]

(* The cube the registers are to describe, by global p and the input size. *)
CubeOf(p, packed) ==
  LET cols == IF p.cols > 0 THEN p.cols ELSE packed
      rows == AtLeast1(p.rows)
  IN  [rows |-> IF rows * cols < packed
                THEN (packed + cols - 1) \div cols ELSE rows,
       cols |-> cols]

(* Registers hold size - 1 in a field that keeps the low bits only.        *)
InField(size) == ((size - 1) % Field) + 1

(* regcmd_helper, the sizes of the cube.                                   *)
Cube(op, call, globals) ==
  CASE op.cube = "table" -> [rows |-> 1, cols |-> 16]
    [] op.cube = "pool" -> [rows |-> 4, cols |-> 4]
    [] op.cube = "whole" ->
         LET p == globals["minus"]
         IN  [rows |-> InField(IF p.rows > 0 THEN p.rows ELSE 4),
              cols |-> InField(IF p.cols > 0 THEN p.cols ELSE 4)]
    [] OTHER ->
         LET c == CubeOf(globals[op.cube], PackedElems(op, call))
         IN  [rows |-> InField(c.rows), cols |-> InField(c.cols)]

(* Mutant: the size that was asked for, not rounded up.                    *)
PageAlignUnrounded(n) == n

(* Elements a buffer for n elements holds: mem_allocate maps whole pages.  *)
PageAlign(n) == ((n + PageElements - 1) \div PageElements) * PageElements

-----------------------------------------------------------------------------
(* run_all_tests goes on to the next case whatever became of this one.     *)
NextCall ==
  /\ calls' = Tail(calls)
  /\ stage' = 1
  /\ pc' = "ready"

(* A shape the case does not take, before anything is set.                 *)
Refuse ==
  /\ calls # <<>> /\ pc = "ready" /\ stage = 1
  /\ Refused(Head(calls))
  /\ NextCall
  /\ UNCHANGED <<params, cube>>

RunStage ==
  /\ calls # <<>> /\ pc = "ready"
  /\ ~Refused(Head(calls))
  /\ params' = SetParams(Op, Head(calls))
  /\ cube' = Cube(Op, Head(calls), params')
  /\ pc' = "ran"
  /\ UNCHANGED <<calls, stage>>

(* Mutant: the next case starts at the op that failed.                     *)
StageFailsMidway ==
  /\ calls # <<>> /\ pc = "ready"
  /\ ~Refused(Head(calls))
  /\ params' \in {params, SetParams(Op, Head(calls))}
  /\ calls' = Tail(calls)
  /\ UNCHANGED <<pc, stage, cube>>

(* The case gives up: out of memory before it sets the global, or because  *)
(* the op returned NULL after that. What is set stays set.                 *)
StageFails ==
  /\ calls # <<>> /\ pc = "ready"
  /\ ~Refused(Head(calls))
  /\ params' \in {params, SetParams(Op, Head(calls))}
  /\ NextCall
  /\ UNCHANGED cube

Continue ==
  /\ pc = "ran"
  /\ IF stage < Len(Stages[Head(calls).case])
       THEN stage' = stage + 1 /\ pc' = "ready" /\ UNCHANGED calls
       ELSE NextCall
  /\ UNCHANGED <<params, cube>>

Done == calls = <<>> /\ UNCHANGED vars

Next == Refuse \/ RunStage \/ StageFails \/ Continue \/ Done

Spec == Init /\ [][Next]_vars

-----------------------------------------------------------------------------
(* Properties.                                                             *)

TypeOK ==
  /\ calls \in Seq(Call)
  /\ stage \in Nat \ {0}
  /\ calls # <<>> => stage <= Len(Stages[Head(calls).case])
  /\ pc \in {"ready", "ran"} /\ (pc = "ran" => calls # <<>>)
  /\ params \in [Globals -> [rows : Nat, cols : Nat]]
  /\ cube \in [rows : Nat, cols : Nat]

(***************************************************************************)
(* The cube of every op covers all the elements of its case (those of the  *)
(* input, for a pool), whatever shapes the cases before it left in the     *)
(* globals and wherever they gave up. An op that trusts a leftover shape   *)
(* computes too few, and the rest of the output is what the buffer held.   *)
(***************************************************************************)
EveryElementComputed ==
  pc = "ran" => cube.rows * cube.cols >= Size(Head(calls))

(***************************************************************************)
(* An op whose global was set by its own case, for this op or an earlier   *)
(* one, computes in the shape of the case: the columns are those of the    *)
(* case, and so are the rows unless the input is padded.                   *)
(***************************************************************************)
CubeIsShape ==
  pc = "ran" /\ (\E i \in 1..stage : Stages[Head(calls).case][i].sets = Op.cube) =>
    /\ cube.cols = Cols(Head(calls))
    /\ Op.cube \notin Padded => cube.rows = Rows(Head(calls))

(***************************************************************************)
(* No op reads or writes beyond the pages of its buffers, though a cube    *)
(* that is fixed, padded or left over from a larger case is larger than    *)
(* the size the buffers were asked for.                                    *)
(***************************************************************************)
InsidePages ==
  pc = "ran" =>
    /\ cube.rows * cube.cols <= PageAlign(Size(Head(calls)))
    /\ cube.rows * cube.cols <= PageAlign(PackedElems(Op, Head(calls)))
=============================================================================
