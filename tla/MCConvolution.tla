--------------------------- MODULE MCConvolution ---------------------------
(***************************************************************************)
(* The convolutions of ops_reg and the recorder of the register commands.  *)
(* One process is started: "conv2d" is test_conv2d, "conv1d" test_conv1d,  *)
(* "regcmd" a program of any ops as createRegCmd sees it. The variables of *)
(* the processes that do not run keep an initial or an idle value.         *)
(***************************************************************************)
EXTENDS Conv2dCase

CONSTANTS
  Processes,                                       \* those a run starts
  Configs,                                         \* of Conv1dCase
  Algorithms, MaxRegTasks, LutEntries, Reserved    \* of RegCmd

VARIABLES
  process,
  conv1d_pc, config, conv1d_params, image, npu_output, conv1d_status,
  reg_pc, current_alu_algorithm, todo, regs, reg_task_count, reg_task_offsets,
  reg_task_lengths, reg_pc_base, reg_pc_amount, tasks, flags

conv1dVars == <<conv1d_pc, config, conv1d_params, image, npu_output, conv1d_status>>
regVars == <<reg_pc, current_alu_algorithm, todo, regs, reg_task_count, reg_task_offsets,
             reg_task_lengths, reg_pc_base, reg_pc_amount, tasks, flags>>

Conv1d == INSTANCE Conv1dCase WITH pc <- conv1d_pc, n <- image, status <- conv1d_status
Reg == INSTANCE RegCmd WITH pc <- reg_pc

ASSUME Conv1dAssumption == Conv1d!ConfigAssumption
ASSUME RecorderAssumption == Reg!RegAssumption

Idle == "idle"
NoConv2d == Init /\ shape = CHOOSE s \in Shapes : TRUE
NoConv1d ==
  /\ conv1d_pc = Idle /\ config = Idle /\ conv1d_params = Idle /\ image = Idle
  /\ npu_output = Idle /\ conv1d_status = Idle
NoReg ==
  /\ reg_pc = Idle /\ current_alu_algorithm = Idle /\ todo = Idle /\ regs = Idle
  /\ reg_task_count = Idle /\ reg_task_offsets = Idle /\ reg_task_lengths = Idle
  /\ reg_pc_base = Idle /\ reg_pc_amount = Idle /\ tasks = Idle /\ flags = Idle

ConvolutionInit ==
  /\ process \in Processes
  /\ IF process = "conv2d" THEN Init ELSE NoConv2d
  /\ IF process = "conv1d" THEN Conv1d!Init ELSE NoConv1d
  /\ IF process = "regcmd" THEN Reg!Init ELSE NoReg

ConvolutionNext ==
  \/ /\ process = "conv2d" /\ Next
     /\ UNCHANGED <<process, conv1dVars, regVars>>
  \/ /\ process = "conv1d" /\ Conv1d!Next
     /\ UNCHANGED <<process, vars, regVars>>
  \/ /\ process = "regcmd" /\ Reg!Next
     /\ UNCHANGED <<process, vars, conv1dVars>>

ConvolutionSpec ==
  ConvolutionInit /\ [][ConvolutionNext]_<<process, vars, conv1dVars, regVars>>

(***************************************************************************)
(* What is packed for a convolution is what the registers say, and each    *)
(* weight of a group is packed at the one place the NPU takes it from.     *)
(***************************************************************************)
PackingMatches == RegistersMatchPacking /\ EveryWeightOnce

(* A tile fits its job, and packing and unpacking stay inside the buffers. *)
BuffersHold == TileFits /\ PackInside /\ OutputInside

(***************************************************************************)
(* test_conv1d: packing, registers and buffers agree, and a success is     *)
(* every product of the right image.                                       *)
(***************************************************************************)
Conv1dSound ==
  process = "conv1d" =>
    /\ Conv1d!TypeOK
    /\ Conv1d!BuffersMatch
    /\ Conv1d!AnswerIsConvolution

(***************************************************************************)
(* The task table describes the commands recorded, the chain leads from    *)
(* task to task and stops, patching it overwrites no command, and the      *)
(* interrupt that is waited for is that of the last unit.                  *)
(***************************************************************************)
TasksSound ==
  process = "regcmd" =>
    /\ Reg!TypeOK
    /\ Reg!TasksCoverCommands
    /\ Reg!OnlyChainPatched
    /\ Reg!ChainEnds
    /\ Reg!WaitsForOutputUnit

(* The commands leave the weights alone, and no operand is read from them. *)
CommandsApart ==
  process = "regcmd" => Reg!CommandsInReserve /\ Reg!OperandsBesideCommands

-----------------------------------------------------------------------------
(* What the constants are given. First the shapes of Conv2dCase.           *)
S(b, ic, h, w, oc, wic, kh, kw, g) ==
  [batch |-> b, in_channels |-> ic, in_height |-> h, in_width |-> w,
   out_channels |-> oc, weight_in_channels |-> wic, kernel_h |-> kh,
   kernel_w |-> kw, groups |-> g]

(* 1x1 kernels: no tile, full tiles, a short last one, one row a tile.     *)
Points ==
  {S(b, ic, h, w, oc, ic, 1, 1, g) :
     b \in {1, 2}, ic \in {3, 4}, h \in {1, 3, 4, 5}, w \in {1, 3, 9}, oc \in {6, 10}, g \in {0, 1}}
(* Rows whose padding counts, and channels of more than one plane.         *)
Rows == {S(1, ic, 5, 20, 10, ic, 1, 1, 1) : ic \in {3, 8, 9, 16}}
(* The shapes the code singles out.                                        *)
Singled ==
  {S(1, 16, 18, 18, 16, 16, 3, 3, 1), S(1, 1, 5, 7, 6, 1, 3, 3, 1),
   S(1, 15, 5, 5, 35, 3, 3, 3, 5), S(2, 3, 11, 28, 3, 1, 3, 3, 3),
   S(1, 3, 11, 28, 3, 1, 3, 3, 0), S(1, 4, 9, 9, 4, 4, 3, 3, 1)}
  \cup {S(1, 3, 5, 7, 6, 3, k[1], k[2], 1) :
          k \in {<<2, 1>>, <<2, 3>>, <<2, 5>>, <<3, 1>>, <<3, 3>>, <<3, 5>>}}
  \cup {S(1, 3, 5, 7, 6, 1, 3, 3, g) : g \in {0, 3}}
(* Other kernels, grouped and depthwise, and shapes that are refused.      *)
Others ==
  {S(1, 4, 5, 7, 8, 2, 2, 2, 2), S(1, 8, 4, 4, 8, 1, 2, 2, 8), S(2, 5, 4, 6, 7, 5, 2, 3, 1),
   S(1, 3, 2, 7, 6, 3, 3, 3, 1), S(1, 3, 5, 7, 6, 3, 1, 1, 2), S(1, 3, 5, 7, 6, 4, 1, 1, 0)}
Depthwise == {S(1, 32, 32, 32, 32, 1, 1, 1, 32)}

Documented == Points \cup Rows \cup Singled \cup Others \cup Depthwise

(* More channels than the packing factor of the registers.                 *)
ManyChannels == {S(1, ic, 3, 3, 8, ic, 1, 1, 1) : ic \in {16, 17, 24, 25, 32}}
(* More than one plane of output of a larger kernel.                       *)
Planes == {S(1, 3, 7, 7, oc, 3, 3, 3, 1) : oc \in {8, 16}}
(* 3 to 6 channels in three groups.                                        *)
Grouped == {S(1, 3, 5, 7, 6, 1, 2, 3, 3)}

-----------------------------------------------------------------------------
(* Conv1dCase: the shapes of test_conv1d.                                  *)
C(b, ic, w, oc, wic, k, g) ==
  [batch |-> b, in_channels |-> ic, input_size |-> w, out_channels |-> oc,
   weight_in_channels |-> wic, kernel_size |-> k, groups |-> g]

TestConv1d ==
  {C(b, ic, 11, 6, ic, k, 0) : b \in {1, 8}, ic \in {1, 3}, k \in {1, 2, 5}}
  \cup {C(1, 3, 11, 6, 1, 5, 3), C(8, 3, 11, 6, 1, 5, 0)}
(* Four channels, an odd number of outputs, two planes, an aligned width.  *)
MoreConv1d == {C(2, 4, 8, 18, 4, 3, 1), C(1, 1, 4, 9, 1, 4, 1), C(2, 4, 7, 10, 2, 2, 2)}
(* RefusedConv1d, each by a check of its own.                                    *)
RefusedConv1d == {C(1, 3, 11, 6, 2, 1, 0), C(1, 4, 11, 6, 4, 1, 2), C(1, 3, 11, 5, 1, 1, 3),
            C(1, 3, 4, 6, 3, 5, 1)}
Conv1dConfigs == TestConv1d \cup MoreConv1d \cup RefusedConv1d

-----------------------------------------------------------------------------
(* RegCmd: every algorithm a test of main.c asks for.                      *)
Blocks == {0, 1, 2, 3, 4} \cup 9..20 \cup 22..55
=============================================================================
