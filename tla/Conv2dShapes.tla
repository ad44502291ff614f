---------------------------- MODULE Conv2dShapes ----------------------------
(***************************************************************************)
(* What a 2D convolution is told about its shape, three times over: by     *)
(* run_conv2d_case, which chooses strides and alignments, by               *)
(* float16_conv2d, which sizes and packs the buffers, and by regcmd_helper,*)
(* which programs the registers. All three single out shapes for which a   *)
(* capture of the vendor's driver showed another layout.                   *)
(***************************************************************************)
EXTENDS Integers

CONSTANTS
  DimField,     \* values of DATAIN_WIDTH, DATAIN_HEIGHT, DATAOUT_WIDTH: 2048
  EntryField    \* values of CBUF_CON1_DATA_ENTRIES: 16384

ASSUME FieldAssumption == DimField \in Nat \ {0} /\ EntryField \in Nat \ {0}

CeilDiv(a, b) == (a + b - 1) \div b
AlignUp(a, b) == CeilDiv(a, b) * b

-----------------------------------------------------------------------------
(* run_conv2d_case.                                                        *)

Groups(s) ==
  IF s.groups > 0 THEN s.groups ELSE s.in_channels \div s.weight_in_channels
OutHeight(s) == s.in_height - s.kernel_h + 1
OutWidth(s) == s.in_width - s.kernel_w + 1

Accepted(s) ==
  /\ Groups(s) > 0 /\ s.in_channels % Groups(s) = 0
  /\ OutHeight(s) > 0 /\ OutWidth(s) > 0

OneByOne(s) == s.kernel_h = 1 /\ s.kernel_w = 1
Kernel(s, h, w) == s.kernel_h = h /\ s.kernel_w = w
Input(s, c, h, w) == s.in_channels = c /\ s.in_height = h /\ s.in_width = w

is_161818_161633(s) ==
  Input(s, 16, 18, 18) /\ s.out_channels = 16 /\ s.weight_in_channels = 16 /\ Kernel(s, 3, 3)
is_11555_35333_g5(s) ==
  /\ Input(s, 15, 5, 5) /\ s.out_channels = 35 /\ s.weight_in_channels = 3
  /\ Kernel(s, 3, 3) /\ Groups(s) = 5
is_131128_3133_g3(s) ==
  /\ Input(s, 3, 11, 28) /\ s.out_channels = 3 /\ s.weight_in_channels = 1
  /\ Kernel(s, 3, 3) /\ Groups(s) = 3
depthwise_32x32_1x1(s) ==
  /\ Input(s, 32, 32, 32) /\ s.out_channels = 32 /\ s.weight_in_channels = 1
  /\ OneByOne(s) /\ Groups(s) = 32

(* The output of a 1x1 kernel is one row of atoms.                         *)
FlatStride(atoms) == IF atoms < 4 THEN atoms ELSE AlignUp(atoms, 4)

WidthStride(s) ==
  IF is_161818_161633(s) \/ is_11555_35333_g5(s) \/ is_131128_3133_g3(s)
  THEN s.in_width ELSE AlignUp(s.in_width, 8)

AlignOut(s) == AlignUp(s.out_channels, 16)

OutWidthStride(s) ==
  LET three_to_six == s.in_channels = 3 /\ s.out_channels = 6
  IN  CASE OneByOne(s) -> FlatStride(OutWidth(s) * OutHeight(s))
        [] is_161818_161633(s) -> 256
        [] is_11555_35333_g5(s) -> 12
        [] three_to_six /\ Kernel(s, 3, 3) -> 16
        [] three_to_six /\ Kernel(s, 3, 1) /\ s.groups = 1 -> 24
        [] OTHER -> (OutWidth(s) * AlignOut(s)) \div 4

(* set_conv2d_params, for in_h rows of the input and out_h of the output.  *)
(* The batch is always split, so that a job has one image.                 *)
Params(s, in_h, out_h, out_stride) ==
  [in_channels |-> s.in_channels, in_height |-> in_h, in_width |-> s.in_width,
   out_channels |-> s.out_channels, kernel_h |-> s.kernel_h, kernel_w |-> s.kernel_w,
   groups |-> s.groups, out_height |-> out_h, out_width |-> OutWidth(s),
   width_stride |-> WidthStride(s), out_width_stride |-> out_stride,
   align_c |-> IF is_161818_161633(s) THEN 16 ELSE 8, align_out_c |-> AlignOut(s)]

WholeParams(s) == Params(s, s.in_height, OutHeight(s), OutWidthStride(s))

(***************************************************************************)
(* npu_kernel: the weight at each place of the kernel expanded to all      *)
(* input channels, or <<>> for the zero that fills it up.                  *)
(***************************************************************************)
Zero == <<>>

(* Blocks of 16 output channels, kernel positions outermost (RKNN's order).*)
Reordered(s, oc, kh, kw) ==
  LET hw == s.kernel_h * s.kernel_w
      p == (oc * s.kernel_h + kh) * s.kernel_w + kw
      full == s.out_channels \div 16
      rem == s.out_channels % 16
      At(first, off, size) ==
        [oc |-> first + (off % size), kh |-> (off \div size) \div s.kernel_w,
         kw |-> (off \div size) % s.kernel_w]
  IN  IF p < full * hw * 16
      THEN At((p \div (hw * 16)) * 16, p % (hw * 16), 16)
      ELSE At(full * 16, p - full * hw * 16, rem)

(* Mutant: the groups are counted by output channels.                      *)
ExpandedByOutput(s, oc, ic, kh, kw) ==
  LET first == (oc \div (s.out_channels \div Groups(s))) * (s.out_channels \div Groups(s))
  IN  IF ic \in first..(first + s.weight_in_channels - 1)
      THEN <<oc, ic - first, kh, kw>> ELSE Zero

(* The channels of the group of oc.                                        *)
Expanded(s, oc, ic, kh, kw) ==
  LET first == (oc \div (s.out_channels \div Groups(s))) * s.weight_in_channels
  IN  IF ic \in first..(first + s.weight_in_channels - 1)
      THEN <<oc, ic - first, kh, kw>> ELSE Zero

NpuKernel(s, oc, ic, kh, kw) ==
  CASE depthwise_32x32_1x1(s) -> IF oc = 0 THEN <<ic, 0, 0, 0>> ELSE Zero
    [] is_11555_35333_g5(s) ->
         LET from == Reordered(s, oc, kh, kw)
         IN  Expanded(s, from.oc, ic, from.kh, from.kw)
    [] OTHER -> Expanded(s, oc, ic, kh, kw)

-----------------------------------------------------------------------------
(* float16_conv2d.                                                         *)

(* should_use_nhwc_pack.                                                   *)
UseNhwcPack(p, c2) ==
  /\ c2 \div p.in_channels = 2
  /\ p.width_stride >= p.in_width
  /\ ~(Input(p, 3, 11, 28) /\ p.out_channels = 3 /\ Kernel(p, 3, 3) /\ p.groups = 3)

ParamGroups(p) == IF p.groups > 0 THEN p.groups ELSE 1

(* input_pack_c2, of float16_conv2d.                                       *)
InputPackC2(p, align_c) ==
  CASE Input(p, 16, 18, 18) /\ p.out_channels = 16 /\ Kernel(p, 3, 3) -> 8
    [] Input(p, 1, 5, 7) /\ p.out_channels = 6 /\ Kernel(p, 3, 3) /\ ParamGroups(p) = 1 -> 2
    [] OTHER -> align_c

(* The sizes of the three buffers, in halves.                              *)
InputElems(p) ==
  IF UseNhwcPack(p, p.align_c)
  THEN p.in_height * p.width_stride * p.in_channels
  ELSE AlignUp(p.in_channels, p.align_c) * p.in_height * p.width_stride

Lanes(p) == AlignUp(p.in_channels, p.align_c)

KernelElems(p) == p.out_channels * p.kernel_h * p.kernel_w * Lanes(p)

OutputElems(p) ==
  AlignUp(p.out_channels, p.align_out_c) * p.out_width_stride *
    (IF OneByOne(p) THEN 1 ELSE p.out_height)

(* pack_nc1hwc2_fp16: where input element (c, h, w) goes.                  *)
PackIndex(p, c, h, w) ==
  LET c2 == InputPackC2(p, p.align_c)
  IN  IF UseNhwcPack(p, c2)
      THEN (h * p.width_stride + w) * p.in_channels + c
      ELSE (((c \div c2) * p.in_height + h) * p.width_stride + w) * c2 + (c % c2)

(* pack_conv_weights_fp16: the three orders.                               *)
DepthwiseSpatial(p) ==
  /\ ParamGroups(p) = p.in_channels /\ p.out_channels = p.in_channels
  /\ p.out_channels <= p.align_c /\ Kernel(p, 3, 3)

KhMajor(p) ==
  LET From(ic, oc) == p.in_channels = ic /\ p.out_channels = oc
      dense == ParamGroups(p) = 1
  IN  \/ /\ From(3, 6)
         /\ \/ Kernel(p, 3, 3)
            \/ dense /\ \E k \in {<<2, 3>>, <<2, 5>>, <<3, 1>>, <<3, 5>>, <<2, 1>>} :
                          Kernel(p, k[1], k[2])
      \/ /\ dense /\ Kernel(p, 3, 3)
         /\ From(1, 6) \/ From(16, 16) \/ From(4, 4)

(* The remaps "observed in RKNN dumps" for grouped 3 to 6 channels.        *)
map_2x5_oc == <<0, 2, 1, 1, 0, 2>>
map_2x5_kh0 == << <<0, 1, 2, 3, 4>>, <<0, 1, 3, 4, 2>>, <<1, 2, 0, 4, 3>>,
                  <<0, 1, 2, 3, 4>>, <<0, 1, 3, 4, 2>>, <<1, 2, 0, 4, 3>> >>
map_2x5_kh1 == << <<1, 0, 4, 2, 3>>, <<2, 0, 1, 3, 4>>, <<0, 1, 2, 3, 4>>,
                  <<1, 0, 4, 2, 3>>, <<2, 0, 1, 3, 4>>, <<0, 1, 2, 3, 4>> >>
oc_map_6x3x2x3 == <<0, 1, 2, 4, 5, 3>>

(* Where the weight slot (oc, ic, kh, kw) lies,                            *)
Slot(p, oc, ic, kh, kw) ==
  CASE DepthwiseSpatial(p) -> (kh * p.kernel_w + kw) * p.align_c + oc
    [] ~DepthwiseSpatial(p) /\ KhMajor(p) ->
         ((kh * p.kernel_w + kw) * p.out_channels + oc) * Lanes(p) + ic
    [] OTHER -> ((oc * p.kernel_h + kh) * p.kernel_w + kw) * Lanes(p) + ic

(* and which place of the expanded kernel fills it.                        *)
Source(p, oc, ic, kh, kw) ==
  LET remapped == p.in_channels = 3 /\ p.out_channels = 6
                    /\ ~DepthwiseSpatial(p) /\ ~KhMajor(p)
  IN  CASE remapped /\ Kernel(p, 2, 3) -> <<oc_map_6x3x2x3[oc + 1], ic, 0, kw>>
        [] remapped /\ Kernel(p, 2, 5) ->
             <<map_2x5_oc[oc + 1], ic, kh,
               IF kh = 0 THEN map_2x5_kh0[oc + 1][kw + 1] ELSE map_2x5_kh1[oc + 1][kw + 1]>>
        [] OTHER -> <<oc, ic, kh, kw>>

(* The slots written. Depthwise kernels have their own channel only.       *)
Written(p) ==
  {k \in (0..(p.out_channels - 1)) \X (0..(p.in_channels - 1))
           \X (0..(p.kernel_h - 1)) \X (0..(p.kernel_w - 1)) :
     DepthwiseSpatial(p) => k[1] = k[2]}

-----------------------------------------------------------------------------
(* regcmd_helper, alu_case_conv2d.                                         *)

IsDepthwise(p) == ParamGroups(p) = p.in_channels /\ p.out_channels = p.in_channels

(* The next power of two, from 8 to 16, or to 32 for depthwise kernels.    *)
AutoAlign(p) ==
  CASE p.in_channels <= 8 -> 8
    [] p.in_channels \in 9..16 -> 16
    [] OTHER -> IF IsDepthwise(p) THEN 32 ELSE 16

RegAlign(p) == IF p.align_c < AutoAlign(p) THEN AutoAlign(p) ELSE p.align_c

(* The copy of input_pack_c2 that selects the strides of the DMA.          *)
RegPackC2(p) ==
  CASE Input(p, 16, 18, 18) /\ p.out_channels = 16 /\ Kernel(p, 3, 3) -> 8
    [] Input(p, 1, 5, 7) /\ p.out_channels = 6 /\ Kernel(p, 3, 3) /\ ParamGroups(p) = 1 -> 2
    [] OTHER -> RegAlign(p)

(* NONALIGN_DMA, GROUP_LINE_OFF and ARGB_IN: whole pixels are read.        *)
PixelInput(p) == p.in_channels \in 1..4 /\ ~IsDepthwise(p)

RegNhwc(p) == UseNhwcPack(p, RegPackC2(p))
RegLanes(p) == AlignUp(p.in_channels, RegAlign(p))

(* cbuf_entries: of a row, or of the whole input.                          *)
CbufEntries(p) ==
  LET row == CeilDiv(p.width_stride * RegAlign(p), 32)
  IN  IF RegAlign(p) >= 16 \/ IsDepthwise(p) THEN row ELSE row * p.in_height * 4

(* DST_SURF_STRIDE, in atoms of 8 halves.                                  *)
DstSurfStride(p) ==
  IF OneByOne(p) /\ p.out_width * p.out_height < 4
  THEN p.out_width * p.out_height ELSE p.out_width_stride

(* The bit fields keep what is programmed.                                 *)
FieldsFit(p) ==
  /\ p.width_stride < DimField /\ p.in_height < DimField /\ p.out_width < DimField
  /\ CbufEntries(p) < EntryField

(* The registers describe what was packed: strides, pixels or planes, and  *)
(* the lanes of a plane.                                                   *)
RegistersAgree(p) ==
  LET nhwc == UseNhwcPack(p, InputPackC2(p, p.align_c))
  IN  RegNhwc(p) = nhwc /\ PixelInput(p) = nhwc /\ RegLanes(p) = Lanes(p)
=============================================================================
