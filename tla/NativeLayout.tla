---------------------------- MODULE NativeLayout ----------------------------
(***************************************************************************)
(* conv1d_simple.cpp reads the output of the NPU as it lies in memory:     *)
(* nc1hwc2_fp16_to_nchw walks the native buffer lane by lane, each lane    *)
(* (c1, c2) with native_batch slices of height rows of padded_w elements,  *)
(* and puts slice k of all lanes at batch k / channels and channel         *)
(* k % channels of the result.  An element of the result is shown here as  *)
(* the index of the native element it was read from.                       *)
(***************************************************************************)
EXTENDS Integers, Sequences, FiniteSets

CONSTANT Shapes     \* the native and logical shapes of the cases

ShapesAssumption ==
    \A s \in Shapes :
        /\ {s.native_batch, s.c1, s.height, s.native_width, s.c2,
            s.logical_batch, s.channels, s.valid_width} \subseteq Nat \ {0}
        /\ {s.stride_w, s.src_elems} \subseteq Nat

VARIABLES
    shape,  \* the case
    idx,    \* the native element the walk reads next
    dst     \* what the walk has put where

vars == <<shape, idx, dst>>

unset == -1

padded_w == IF shape.stride_w > 0 THEN shape.stride_w ELSE shape.native_width

slice_elems == shape.height * padded_w

total_logical_slices == shape.logical_batch * shape.channels

walk_elems == shape.c1 * shape.c2 * shape.native_batch * slice_elems

(* An element of the result, by its logical place.                         *)
dst_idx(n, c, y, x) ==
    ((n * shape.channels + c) * shape.height + y) * shape.valid_width + x

result_elems == shape.logical_batch * shape.channels * shape.height
                * shape.valid_width

Init ==
    /\ shape \in Shapes
    /\ idx = 0
    /\ dst = [i \in 0 .. result_elems - 1 |-> unset]

(* Where the nested loops are when they read element idx.                  *)
logical_slice(i) ==
    LET lane_id == i \div (shape.native_batch * slice_elems)
        lane_batch == (i \div slice_elems) % shape.native_batch
    IN  lane_id * shape.native_batch + lane_batch

row(i) == (i \div padded_w) % shape.height

column(i) == i % padded_w

\* Mutant: the padding of a row is not left out.
KeptWithPadding(i) == logical_slice(i) < total_logical_slices

Kept(i) == /\ logical_slice(i) < total_logical_slices
           /\ column(i) < shape.valid_width

Target(i) == dst_idx(logical_slice(i) \div shape.channels,
                     logical_slice(i) % shape.channels, row(i), column(i))

Done == idx >= walk_elems \/ idx >= shape.src_elems

Read ==
    /\ ~Done
    /\ idx' = idx + 1
    /\ dst' = IF Kept(idx) THEN [dst EXCEPT ![Target(idx)] = idx] ELSE dst
    /\ UNCHANGED shape

Next == Read

Spec == Init /\ [][Next]_vars

----------------------------------------------------------------------------
(* main prints, for the worst element of a case that does not match, the   *)
(* NC1HWC2 offset it was read from.                                        *)
native_offset(n, c, x) ==
    (((n * shape.c1 + (c \div shape.c2)) * shape.height) * padded_w + x)
    * shape.c2 + (c % shape.c2)

(* The native buffer has room for the logical tensor and is read whole.    *)
Fits ==
    /\ total_logical_slices <= shape.c1 * shape.c2 * shape.native_batch
    /\ shape.valid_width <= padded_w
    /\ walk_elems <= shape.src_elems

Places == [n : 0 .. shape.logical_batch - 1, c : 0 .. shape.channels - 1,
           y : 0 .. shape.height - 1, x : 0 .. shape.valid_width - 1]

At(p) == dst[dst_idx(p.n, p.c, p.y, p.x)]

TypeOK ==
    /\ shape \in Shapes
    /\ idx \in 0 .. walk_elems
    /\ DOMAIN dst = 0 .. result_elems - 1
    /\ \A i \in DOMAIN dst : dst[i] \in {unset} \cup 0 .. idx - 1

(* Whatever the shapes are, no element is written outside the result, and  *)
(* none is written twice: what a step writes was unset before it.          *)
WriteOnceInside ==
    Kept(idx) => Target(idx) \in DOMAIN dst /\ dst[Target(idx)] = unset

(* When the native buffer has room, the walk fills the whole result: every *)
(* logical element is read, rows stay rows, and the elements of one batch  *)
(* follow each other slice by slice whatever lanes they fall in.           *)
SlicesInOrder ==
    Done /\ Fits =>
        \A p \in Places :
            /\ At(p) # unset
            /\ At(p) = At([p EXCEPT !.x = 0, !.y = 0]) + p.y * padded_w + p.x
            /\ p.c > 0 => At([p EXCEPT !.c = @ - 1]) = At(p) - slice_elems
            /\ (p.c = 0 /\ p.n > 0) =>
                  At([p EXCEPT !.n = @ - 1, !.c = shape.channels - 1])
                      = At(p) - slice_elems

(* The offset main prints beside a wrong element is where that element was *)
(* read.                                                                   *)
OffsetNamesElement ==
    Done /\ Fits =>
        \A p \in Places : p.y = 0 => At(p) = native_offset(p.n, p.c, p.x)
=============================================================================
