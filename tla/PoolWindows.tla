---------------------------- MODULE PoolWindows ----------------------------
(***************************************************************************)
(* The reference pool.cpp compares the NPU with: pool_cpu_standard and     *)
(* pool_cpu_adaptive, in one dimension of the image. The two dimensions    *)
(* are treated alike and apart, a window being the product of a window in  *)
(* each. What is kept of the values is which elements went into which      *)
(* output; dividing by a zero count, or the infinity a window without an   *)
(* element leaves behind, shows as valid = 0.                              *)
(***************************************************************************)
EXTENDS Integers, FiniteSets

CONSTANT Configs    \* the cases: one dimension of a PoolConfig and its input

(* in: the input's size. PyTorch, which exports the models, accepts a      *)
(* padding of at most half a kernel and an image a kernel fits in.         *)
ConfigsAssumption ==
    \A c \in Configs :
        /\ {c.in, c.kernel, c.dilation, c.out} \subseteq Nat \ {0}
        /\ {c.stride, c.pad} \subseteq Nat
        /\ 2 * c.pad <= c.kernel
        /\ c.in + 2 * c.pad >= c.dilation * (c.kernel - 1) + 1
        /\ {c.ceil_mode, c.adaptive} \subseteq BOOLEAN

VARIABLES
    cfg,    \* the case
    o,      \* the output at hand
    k,      \* where in its window the loop is
    valid,  \* the elements of the window so far
    read    \* for each output, the elements that went into it

vars == <<cfg, o, k, valid, read>>

----------------------------------------------------------------------------
Ceiling(a, b) == -((-a) \div b)

kernel_extent == cfg.dilation * (cfg.kernel - 1) + 1

stride == IF cfg.stride > 0 THEN cfg.stride ELSE cfg.kernel

span == cfg.in + 2 * cfg.pad - kernel_extent

\* Mutant: no mode rounds up.
AlwaysFloor == (span \div stride) + 1

(* A window of ceil_mode that would begin in the padding on the right is   *)
(* given up.                                                               *)
compute_out_dim ==
    LET out == (IF cfg.ceil_mode THEN Ceiling(span, stride)
                                 ELSE span \div stride) + 1
    IN  IF cfg.ceil_mode /\ (out - 1) * stride >= cfg.in + cfg.pad
        THEN out - 1 ELSE out

OutDim == IF cfg.adaptive THEN cfg.out ELSE compute_out_dim

Start(i) == IF cfg.adaptive THEN (i * cfg.in) \div cfg.out
                            ELSE i * stride - cfg.pad

(* The turns of the loop over a window.                                    *)
Length(i) ==
    IF cfg.adaptive THEN Ceiling((i + 1) * cfg.in, cfg.out) - Start(i)
                    ELSE cfg.kernel

Step == IF cfg.adaptive THEN 1 ELSE cfg.dilation

Element == Start(o) + k * Step

Inputs == 0 .. cfg.in - 1

----------------------------------------------------------------------------
Init ==
    /\ cfg \in Configs
    /\ o = 0 /\ k = 0 /\ valid = 0
    /\ read = [i \in 0 .. OutDim - 1 |-> {}]

(* One turn of the inner loop; an element of the padding is passed over.   *)
Look ==
    /\ o < OutDim /\ k < Length(o)
    /\ k' = k + 1
    /\ IF Element \in Inputs
       THEN /\ valid' = valid + 1
            /\ read' = [read EXCEPT ![o] = @ \cup {Element}]
       ELSE UNCHANGED <<valid, read>>
    /\ UNCHANGED <<cfg, o>>

(* The output is written.                                                  *)
Close ==
    /\ o < OutDim /\ k = Length(o)
    /\ o' = o + 1 /\ k' = 0 /\ valid' = 0
    /\ UNCHANGED <<cfg, read>>

Next == Look \/ Close

Spec == Init /\ [][Next]_vars

Done == o = OutDim

----------------------------------------------------------------------------
(* valid is the number of different elements of the window read so far,    *)
(* which is what an average divides by.                                    *)
TypeOK ==
    /\ cfg \in Configs
    /\ o \in 0 .. OutDim /\ k \in 0 .. cfg.in + cfg.kernel
    /\ DOMAIN read = 0 .. OutDim - 1
    /\ \A i \in DOMAIN read : read[i] \subseteq Inputs
    /\ valid = IF Done THEN 0 ELSE Cardinality(read[o])

(* A window without dilation meets the image: no output is the infinity a  *)
(* maximum or minimum begins with, no average is one over a made-up count. *)
WindowMeetsInput ==
    cfg.dilation = 1 \/ cfg.adaptive =>
        \A i \in DOMAIN read : i < o => read[i] # {}

(* Windows without gaps in them or between them, up to the end.            *)
Covering ==
    \/ cfg.adaptive
    \/ cfg.ceil_mode /\ cfg.dilation = 1 /\ stride <= cfg.kernel

(* Adaptive windows and, when they do not leave gaps between them, those   *)
(* of ceil_mode take in the whole image.                                   *)
EveryInputRead ==
    Done /\ Covering => UNION {read[i] : i \in DOMAIN read} = Inputs

(* Without ceil_mode every window lies whole in the padded image, and one  *)
(* window more would not.                                                  *)
FloorIsTight ==
    ~cfg.adaptive /\ ~cfg.ceil_mode =>
        /\ Start(OutDim - 1) + kernel_extent <= cfg.in + cfg.pad
        /\ Start(OutDim) + kernel_extent > cfg.in + cfg.pad
=============================================================================
