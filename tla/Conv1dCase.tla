----------------------------- MODULE Conv1dCase -----------------------------
(***************************************************************************)
(* run_conv1d_case: the images of a batch one after the other through      *)
(* float16_conv, which packs input and weights, and regcmd_helper, which   *)
(* programs what it finds in the global conv1d_params.                     *)
(*                                                                         *)
(* A float of the answer is the set of its terms <<input, weight>>. Inputs *)
(* and weights are known by their place; Zero fills up what is packed.     *)
(***************************************************************************)
EXTENDS Integers, FiniteSets

CONSTANT Configs   \* the shapes the case is run with

ConfigAssumption ==
  \A s \in Configs :
    /\ s.batch \in Nat \ {0} /\ s.in_channels \in Nat \ {0}
    /\ s.input_size \in Nat \ {0} /\ s.out_channels \in Nat \ {0}
    /\ s.weight_in_channels \in Nat \ {0} /\ s.kernel_size \in Nat \ {0}
    /\ s.groups \in Nat

VARIABLES
  pc,             \* "idle", "batch", "compare"
  config,
  conv1d_params,  \* the global
  n,              \* the image
  npu_output,     \* the answer: image, channel and position to terms
  status          \* what the last case returned

vars == <<pc, config, conv1d_params, n, npu_output, status>>

AlignUp(a, b) == ((a + b - 1) \div b) * b

Zero == <<>>
Unset == {"unset"}

OutputSize(s) == s.input_size - s.kernel_size + 1
Groups(s) ==
  IF s.groups > 0 THEN s.groups ELSE s.in_channels \div s.weight_in_channels

Accepted(s) ==
  /\ IF s.groups > 0
       THEN s.in_channels = s.weight_in_channels * s.groups
       ELSE s.in_channels % s.weight_in_channels = 0
  /\ s.out_channels % Groups(s) = 0
  /\ OutputSize(s) > 0

-----------------------------------------------------------------------------
(* The expanded kernel, and the reference.                                 *)

(* The first input channel of the group of oc.                             *)
GroupStart(s, oc) == (oc \div (s.out_channels \div Groups(s))) * s.weight_in_channels

NpuKernel(s, oc, ic, k) ==
  IF ic \in GroupStart(s, oc)..(GroupStart(s, oc) + s.weight_in_channels - 1)
  THEN <<oc, ic - GroupStart(s, oc), k>> ELSE Zero

CpuOutput(s, image, oc, pos) ==
  {<< <<image, (oc \div (s.out_channels \div Groups(s))) * s.weight_in_channels + ic, pos + k>>,
      <<oc, ic, k>> >> :
     ic \in 0..(s.weight_in_channels - 1), k \in 0..(s.kernel_size - 1)}

-----------------------------------------------------------------------------
(* float16_conv: sizes in halves, and where things are packed.             *)

DataInChannel(s) == AlignUp(s.in_channels, 8)

(* Mutant: several channels are packed without padding the row.            *)
InputWidthUnaligned(s) == s.input_size

InputWidthAligned(s) ==
  IF s.in_channels > 1 THEN AlignUp(s.input_size, 8) ELSE s.input_size
InputElems(s) == InputWidthAligned(s) * DataInChannel(s)
WeightElems(s) == DataInChannel(s) * s.out_channels * s.kernel_size
OutputElems(s, p) == AlignUp(OutputSize(s), 4) * p.out_channel_align

(* should_use_nhwc_pack, with the lanes as c2: pixels instead of planes.   *)
UseNhwcPack(s) == DataInChannel(s) \div s.in_channels = 2

InputIndex(s, ic, w) ==
  IF UseNhwcPack(s) THEN w * s.in_channels + ic ELSE w * DataInChannel(s) + ic

WeightIndex(s, oc, ic, kw) ==
  (kw * s.out_channels + oc) * DataInChannel(s) + ic

(* What lies at index i of the packed buffers.                             *)
InputAt(s, image, i) ==
  LET here == {e \in (0..(s.in_channels - 1)) \X (0..(s.input_size - 1)) :
                 InputIndex(s, e[1], e[2]) = i}
  IN  IF here = {} THEN Zero ELSE LET e == CHOOSE e \in here : TRUE IN <<image, e[1], e[2]>>

(* set_conv1d_params.                                                      *)
ParamsOf(s) ==
  [input_width |-> s.input_size, kernel_width |-> s.kernel_size,
   output_width |-> OutputSize(s), in_channels |-> s.in_channels,
   out_channels |-> s.out_channels, out_channel_align |-> AlignUp(s.out_channels, 16)]

-----------------------------------------------------------------------------
(* regcmd_helper, alu_case_conv1d: what the NPU is told.                   *)

Reg(p) ==
  LET lanes == AlignUp(p.in_channels, 8)
  IN  [datain_width |-> IF p.in_channels > 1 THEN AlignUp(p.input_width, 8) ELSE p.input_width,
       lanes |-> lanes,
       pixels |-> p.in_channels > 1,     \* NONALIGN_DMA and ARGB_IN
       weight_elems |-> AlignUp(p.kernel_width * lanes, 8) * p.out_channels,
       dataout_width |-> p.output_width,
       dst_stride |-> AlignUp(p.output_width, 4),
       channels |-> p.out_channel_align]

(* Pixels of in_channels lanes are read for the ARGB formats.              *)
RegistersAgree(s, p) ==
  /\ Reg(p).datain_width = InputWidthAligned(s) /\ Reg(p).lanes = DataInChannel(s)
  /\ Reg(p).weight_elems = WeightElems(s)
  /\ Reg(p).pixels = UseNhwcPack(s)
  /\ p.kernel_width = s.kernel_size /\ p.out_channels = s.out_channels

(* The terms the NPU adds up for one element of its output, reading the    *)
(* weights by kernel position, output channel and lane.                    *)
NpuTerms(s, p, image, oc, pos) ==
  LET Lane(w, ic) == IF Reg(p).pixels THEN w * p.in_channels + ic ELSE w * Reg(p).lanes + ic
      Weight(kw, ic) ==
        LET i == (kw * p.out_channels + oc) * Reg(p).lanes + ic
            here == {k \in (0..(s.in_channels - 1)) \X (0..(s.kernel_size - 1)) :
                       WeightIndex(s, oc, k[1], k[2]) = i}
        IN  IF here = {} THEN Zero
            ELSE LET k == CHOOSE k \in here : TRUE IN NpuKernel(s, oc, k[1], k[2])
      terms == {<<InputAt(s, image, Lane(pos + kw, ic)), Weight(kw, ic)>> :
                  kw \in 0..(p.kernel_width - 1), ic \in 0..(p.in_channels - 1)}
  IN  {t \in terms : t[1] # Zero /\ t[2] # Zero}

(* Output atoms of 8 channels, dst_stride atoms to a plane.                *)
OutputIndex(p, oc, pos) == ((oc \div 8) * Reg(p).dst_stride + pos) * 8 + (oc % 8)

(* unpack_nc1hwc2_fp16 with c2 = 8 and the width_stride of the case.       *)
ReadIndex(s, oc, pos) == ((oc \div 8) * AlignUp(OutputSize(s), 4) + pos) * 8 + (oc % 8)

-----------------------------------------------------------------------------
Init ==
  /\ pc = "idle"
  /\ config \in Configs
  /\ conv1d_params = [input_width |-> 0, kernel_width |-> 0, output_width |-> 0,
                      in_channels |-> 0, out_channels |-> 0, out_channel_align |-> 0]
  /\ n = 0
  /\ npu_output = <<>>
  /\ status = 0

Elements(s) ==
  (0..(s.batch - 1)) \X (0..(s.out_channels - 1)) \X (0..(OutputSize(s) - 1))

Refuse(s) ==
  /\ pc = "idle" /\ ~Accepted(s)
  /\ status' = -1
  /\ UNCHANGED <<pc, config, conv1d_params, n, npu_output>>

StartCase(s) ==
  /\ pc = "idle" /\ Accepted(s)
  /\ config' = s
  /\ npu_output' = [e \in Elements(s) |-> Unset]
  /\ pc' = "batch"
  /\ UNCHANGED <<conv1d_params, n, status>>

(* The answer with image n unpacked into it: an element is what the NPU    *)
(* wrote where it is read, if anything.                                    *)
BatchOutput(s, p, image, old) ==
  [e \in DOMAIN old |->
     IF e[1] # image THEN old[e]
     ELSE IF ReadIndex(s, e[2], e[3]) = OutputIndex(p, e[2], e[3])
          THEN NpuTerms(s, p, image, e[2], e[3]) ELSE Unset]

(* float16_conv and the unpacking of one image.                            *)
Image ==
  /\ pc = "batch" /\ n < config.batch
  /\ conv1d_params' = ParamsOf(config)
  /\ npu_output' = BatchOutput(config, conv1d_params', n, npu_output)
  /\ n' = n + 1
  /\ pc' = IF n + 1 = config.batch THEN "compare" ELSE "batch"
  /\ UNCHANGED <<config, status>>

(* The end of a case: its buffers are freed.                               *)
FreeLocals == pc' = "idle" /\ n' = 0 /\ npu_output' = <<>>

(* An image fails after its parameters were set, or nothing can be         *)
(* allocated: the batch is given up.                                       *)
ImageFails ==
  /\ pc = "batch"
  /\ conv1d_params' \in {conv1d_params, ParamsOf(config)}
  /\ status' = -1
  /\ FreeLocals
  /\ UNCHANGED config

Compare ==
  /\ pc = "compare"
  /\ status' = IF \A e \in Elements(config) :
                    npu_output[e] = CpuOutput(config, e[1], e[2], e[3]) THEN 0 ELSE -1
  /\ FreeLocals
  /\ UNCHANGED <<config, conv1d_params>>

Next ==
  \/ \E s \in Configs : StartCase(s) \/ Refuse(s)
  \/ Image \/ ImageFails \/ Compare

Spec == Init /\ [][Next]_vars

-----------------------------------------------------------------------------
(* The images run so far are those of the batch; the global has the last   *)
(* shape that reached float16_conv.                                        *)
TypeOK ==
  /\ pc \in {"idle", "batch", "compare"}
  /\ config \in Configs
  /\ n \in 0..config.batch
  /\ DOMAIN npu_output = IF pc = "idle" THEN {} ELSE Elements(config)
  /\ status \in {0, -1}
  /\ \A f \in DOMAIN conv1d_params : conv1d_params[f] \in Nat

(***************************************************************************)
(* When every image went through, each element is the sum of exactly the   *)
(* products the convolution of that image has there: packing, expansion of *)
(* the groups, the NPU's order of the weights and the unpacking agree.     *)
(***************************************************************************)
AnswerIsConvolution ==
  pc = "compare" =>
    \A e \in Elements(config) : npu_output[e] = CpuOutput(config, e[1], e[2], e[3])

(***************************************************************************)
(* Nothing float16_conv packs, the NPU writes or the case reads back lies  *)
(* outside the buffer float16_conv asked for, and the registers describe   *)
(* just that packing.                                                      *)
(***************************************************************************)
BuffersMatch ==
  n > 0 =>
    LET s == config
        p == conv1d_params
    IN  /\ RegistersAgree(s, p)
        /\ InputIndex(s, s.in_channels - 1, s.input_size - 1) < InputElems(s)
        /\ WeightIndex(s, s.out_channels - 1, s.in_channels - 1, s.kernel_size - 1)
             < WeightElems(s)
        /\ \A oc \in 0..(s.out_channels - 1) :
             /\ OutputIndex(p, oc, OutputSize(s) - 1) < OutputElems(s, p)
             /\ ReadIndex(s, oc, OutputSize(s) - 1) < OutputElems(s, p)
=============================================================================
