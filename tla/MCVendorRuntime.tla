-------------------------- MODULE MCVendorRuntime --------------------------
(***************************************************************************)
(* The programs on the vendor runtime. One process is started: "program"   *)
(* is any of RuntimePrograms, "native" the walk of conv1d_simple.cpp over  *)
(* the output as it lies in memory, "pool" the reference of pool.cpp. The  *)
(* variables of the processes that do not run keep an initial or an idle   *)
(* value.                                                                  *)
(***************************************************************************)
EXTENDS RuntimeProgram

CONSTANTS
  Processes,       \* those a run starts
  Shapes,          \* of NativeLayout
  Configs          \* of PoolWindows

VARIABLES process, shape, idx, dst, cfg, o, k, valid, read

nativeVars == <<shape, idx, dst>>
poolVars == <<cfg, o, k, valid, read>>

Native == INSTANCE NativeLayout
Pool == INSTANCE PoolWindows

ASSUME CasesAssumption == Native!ShapesAssumption /\ Pool!ConfigsAssumption

Idle == "idle"
NoProgram ==
  /\ Init
  /\ name = (CHOOSE n \in Programs : TRUE) /\ alone
NoNative == shape = Idle /\ idx = Idle /\ dst = Idle
NoPool == cfg = Idle /\ o = Idle /\ k = Idle /\ valid = Idle /\ read = Idle

RuntimeInit ==
  /\ process \in Processes
  /\ IF process = "program" THEN Init ELSE NoProgram
  /\ IF process = "native" THEN Native!Init ELSE NoNative
  /\ IF process = "pool" THEN Pool!Init ELSE NoPool

RuntimeNext ==
  \/ /\ process = "program" /\ Next
     /\ UNCHANGED <<process, nativeVars, poolVars>>
  \/ /\ process = "native" /\ Native!Next
     /\ UNCHANGED <<process, vars, poolVars>>
  \/ /\ process = "pool" /\ Pool!Next
     /\ UNCHANGED <<process, vars, nativeVars>>

RuntimeSpec ==
  RuntimeInit /\ [][RuntimeNext]_<<process, vars, nativeVars, poolVars>>

(* The programs that look for values that are no numbers before or while   *)
(* they compare.                                                           *)
Finite ==
  {"neg", "cast", "idiv", "abs", "ceil", "floor", "recip", "div", "matmul_api_int8"}

(***************************************************************************)
(* A program gives back all it took of the runtime, by whichever branch it *)
(* returns, and reads nothing beyond the output of the model it picked.    *)
(***************************************************************************)
BuffersRespected == TypeOK /\ NothingKept /\ ReadsInside

(***************************************************************************)
(* "YES" is printed of right values only, by the programs that look for    *)
(* what is no number, and an exit status of 0 means that all matched.      *)
(***************************************************************************)
VerdictsTrue ==
  /\ OkMeansMatched
  /\ name \in Finite => YesMeansRight

(***************************************************************************)
(* The walk of conv1d_simple.cpp fills the result slice by slice, writes   *)
(* each element once and never one outside.                                *)
(***************************************************************************)
NativeWalkSound ==
  /\ [](process = "native" => Native!TypeOK /\ Native!SlicesInOrder)
  /\ [][process = "native" => Native!WriteOnceInside]_nativeVars

(***************************************************************************)
(* The windows of pool.cpp: none is made of padding alone, together they   *)
(* leave nothing of the image out, and the size without ceil_mode is the   *)
(* largest that needs no more than the image.                              *)
(***************************************************************************)
PoolingSound ==
  process = "pool" =>
    /\ Pool!TypeOK
    /\ Pool!WindowMeetsInput
    /\ Pool!EveryInputRead
    /\ Pool!FloorIsTight

-----------------------------------------------------------------------------
(* What the constants are given. First the programs.                       *)

(* Programs whose failing branches return with something of the runtime.   *)
Leaky == {"conv2d_simple", "reference_int8add"}

(* Programs that may pick a model of one element for a larger case and     *)
(* read the whole case from its output.                                    *)
Overreading == {"ops_float16", "ops_float16_relu", "xor"}

Tidy == DOMAIN Program \ (Leaky \cup Overreading)

(***************************************************************************)
(* NativeLayout: the shape README.md of src/ops_rknn shows (8,2,1,12,8 for *)
(* 8,6,11), a single batch, and small ones of which some have more lanes   *)
(* than slices, rows longer than the stride, two rows, or a buffer that    *)
(* ends early.                                                             *)
(***************************************************************************)
Shape(n, c1, h, w, c2, stride, ln, lc, lw, elems) ==
    [native_batch |-> n, c1 |-> c1, height |-> h, native_width |-> w,
     c2 |-> c2, stride_w |-> stride, logical_batch |-> ln, channels |-> lc,
     valid_width |-> lw, src_elems |-> elems]

MCShapes ==
    {Shape(8, 2, 1, 12, 8, 12, 8, 6, 11, 1536),
     Shape(1, 1, 1, 12, 8, 12, 1, 6, 11, 96),
     Shape(1, 1, 1, 11, 8, 0, 1, 6, 7, 88)}
    \cup {Shape(n, 2, h, 3, 2, 4, ln, 3, w, e) :
             n \in 1 .. 3, h \in 1 .. 2, ln \in 1 .. 3, w \in {2, 3},
             e \in {17, 100}}

(***************************************************************************)
(* PoolWindows: every image of up to 7 elements, kernel of up to 4,        *)
(* stride, padding and dilation its assumption allows, and every adaptive  *)
(* output of up to 5 elements, which may be more than the image has.       *)
(***************************************************************************)
Case(in, kernel, step, pad, dilation, ceil_mode) ==
    [in |-> in, kernel |-> kernel, stride |-> step, pad |-> pad,
     dilation |-> dilation, ceil_mode |-> ceil_mode, adaptive |-> FALSE,
     out |-> 1]

Adaptive(in, out) ==
    [Case(in, 1, 0, 0, 1, FALSE) EXCEPT !.adaptive = TRUE, !.out = out]

MCConfigs ==
    {c \in {Case(in, kernel, step, pad, dilation, ceil_mode) :
               in \in 1 .. 7, kernel \in 1 .. 4, step \in 0 .. 5,
               pad \in 0 .. 2, dilation \in 1 .. 2, ceil_mode \in BOOLEAN} :
        /\ 2 * c.pad <= c.kernel
        /\ c.in + 2 * c.pad >= c.dilation * (c.kernel - 1) + 1}
    \cup {Adaptive(in, out) : in \in 1 .. 7, out \in 1 .. 5}
=============================================================================
