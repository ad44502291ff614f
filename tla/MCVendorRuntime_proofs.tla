------------------------ MODULE MCVendorRuntime_proofs ------------------------
(***************************************************************************)
(* The walk of conv1d_simple.cpp over the output as it lies in memory, for *)
(* every native and logical shape; the windows of pool.cpp, for every      *)
(* case; and the programs, for every number of cases and elements: what    *)
(* RuntimePrograms_proofs says of their scripts holds of a run.            *)
(***************************************************************************)
EXTENDS RuntimePrograms_proofs, FiniteSetTheorems

(* What a shape says of the native buffer and the result.                  *)
Width(s) == IF s.stride_w > 0 THEN s.stride_w ELSE s.native_width
WalkLength(s) == s.c1 * s.c2 * s.native_batch * (s.height * Width(s))
ResultLength(s) == s.logical_batch * s.channels * s.height * s.valid_width

LEMMA ShapeFields ==
  ASSUME NEW s \in Shapes
  PROVE  /\ s.native_batch \in Nat \ {0} /\ s.c1 \in Nat \ {0} /\ s.c2 \in Nat \ {0}
         /\ s.height \in Nat \ {0} /\ s.valid_width \in Nat \ {0}
         /\ s.logical_batch \in Nat \ {0} /\ s.channels \in Nat \ {0}
         /\ Width(s) \in Nat \ {0}
         /\ s.src_elems \in Nat
  BY CasesAssumption DEF Native!ShapesAssumption, Width

(* The walk goes row by row: an element of the buffer is in a row and a    *)
(* column; the rows of the result follow each other in the same order.     *)
RowAt(s, i) == i \div Width(s)
ColumnAt(s, i) == i % Width(s)
KeptAt(s, i) ==
  /\ RowAt(s, i) \div s.height < s.logical_batch * s.channels
  /\ ColumnAt(s, i) < s.valid_width
PutAt(s, i) == RowAt(s, i) * s.valid_width + ColumnAt(s, i)

LEMMA RowAndColumn ==
  ASSUME NEW s \in Shapes, NEW i \in Nat
  PROVE  /\ RowAt(s, i) \in Nat /\ ColumnAt(s, i) \in Nat /\ ColumnAt(s, i) < Width(s)
         /\ i = RowAt(s, i) * Width(s) + ColumnAt(s, i)
<1> DEFINE w == Width(s)
<1>1. w \in Nat \ {0}
  BY ShapeFields
<1> HIDE DEF w
<1>2. i \div w \in Nat /\ i % w \in 0..(w - 1) /\ i = (i \div w) * w + (i % w)
  BY <1>1, DivMod
<1>3. i % w \in Nat /\ i % w < w
  BY <1>1, <1>2
<1> QED BY <1>2, <1>3 DEF RowAt, ColumnAt, w

(* Lanes and batches cancel out: the slices are numbered as they follow.   *)
SliceNumber(nb, h, w, i) ==
  (i \div (nb * (h * w))) * nb + ((i \div (h * w)) % nb)

LEMMA SlicesFollow ==
  ASSUME NEW nb \in Nat \ {0}, NEW h \in Nat \ {0}, NEW w \in Nat \ {0}, NEW i \in Nat
  PROVE  SliceNumber(nb, h, w, i) = (i \div w) \div h
<1> DEFINE slice == i \div (h * w)
<1>1. h * w \in Nat \ {0}
  OBVIOUS
<1>2. slice \in Nat
  BY <1>1, DivMod
<1>3. i \div (nb * (h * w)) = slice \div nb
  BY <1>1, DivDiv
<1>4. slice = (i \div w) \div h
  BY DivDiv
<1> HIDE DEF slice
<1>5. slice = (slice \div nb) * nb + (slice % nb)
  BY <1>2, DivMod
<1> QED BY <1>3, <1>4, <1>5 DEF SliceNumber, slice

LEMMA SliceOfRow ==
  ASSUME NEW s \in Shapes, NEW i \in Nat
  PROVE  SliceNumber(s.native_batch, s.height, Width(s), i) = RowAt(s, i) \div s.height
<1>1. s.native_batch \in Nat \ {0} /\ s.height \in Nat \ {0} /\ Width(s) \in Nat \ {0}
  BY ShapeFields
<1> QED BY <1>1, SlicesFollow DEF RowAt

LEMMA WalkByRows ==
  ASSUME shape \in Shapes, NEW i \in Nat
  PROVE  /\ Native!Kept(i) <=> KeptAt(shape, i)
         /\ Native!Target(i) = PutAt(shape, i)
         /\ RowAt(shape, i) \in Nat /\ ColumnAt(shape, i) \in 0..(Width(shape) - 1)
         /\ i = RowAt(shape, i) * Width(shape) + ColumnAt(shape, i)
<1> DEFINE w == Width(shape)
           h == shape.height
           ch == shape.channels
           R == RowAt(shape, i)
           C == ColumnAt(shape, i)
           S == R \div h
<1>1. /\ shape.native_batch \in Nat \ {0} /\ h \in Nat \ {0} /\ ch \in Nat \ {0}
      /\ w \in Nat \ {0} /\ shape.valid_width \in Nat \ {0}
  BY ShapeFields
<1>2. R \in Nat /\ C \in 0..(w - 1) /\ i = R * w + C
  BY <1>1, DivMod DEF RowAt, ColumnAt
<1>3. S \in Nat /\ R % h \in 0..(h - 1) /\ R = S * h + (R % h)
  BY <1>1, <1>2, DivMod
<1>4. Native!padded_w = w
  BY DEF Native!padded_w, Width
<1>5. Native!logical_slice(i) = S
  <2>1. Native!logical_slice(i) = SliceNumber(shape.native_batch, h, w, i)
    BY <1>4 DEF Native!logical_slice, Native!slice_elems, SliceNumber
  <2> QED BY <2>1, SliceOfRow
<1>6. Native!row(i) = R % h /\ Native!column(i) = C
  BY <1>4 DEF Native!row, Native!column, RowAt, ColumnAt
<1>7. Native!Kept(i) <=> KeptAt(shape, i)
  BY <1>5, <1>6 DEF Native!Kept, KeptAt, Native!total_logical_slices
<1>8. S = (S \div ch) * ch + (S % ch)
  BY <1>1, <1>3, DivMod
<1>9. Native!Target(i) = (((S \div ch) * ch + (S % ch)) * h + (R % h)) * shape.valid_width + C
  BY <1>5, <1>6, Zenon DEF Native!Target, Native!dst_idx
<1> HIDE DEF R, C, S, h, ch
<1>10. Native!Target(i) = R * shape.valid_width + C
  BY <1>3, <1>8, <1>9, Zenon
<1> QED BY <1>2, <1>7, <1>10 DEF PutAt, R, C

(* What is kept has a place in the result,                                 *)
LEMMA PlacesInside ==
  ASSUME NEW s \in Shapes, NEW i \in Nat, KeptAt(s, i)
  PROVE  PutAt(s, i) \in 0..(ResultLength(s) - 1)
<1> DEFINE slices == s.logical_batch * s.channels
           R == RowAt(s, i)
           C == ColumnAt(s, i)
           h == s.height
           w == s.valid_width
<1>1. /\ slices \in Nat /\ h \in Nat \ {0} /\ w \in Nat \ {0} /\ Width(s) \in Nat \ {0}
  <2>1. s.logical_batch \in Nat /\ s.channels \in Nat
    BY ShapeFields
  <2> QED BY <2>1, ShapeFields
<1>2. R \in Nat /\ C \in Nat
  BY <1>1, DivMod DEF RowAt, ColumnAt
<1>3. R \div h < slices /\ C < w
  BY DEF KeptAt
<1> HIDE DEF slices, R, C, h, w
<1> DEFINE q == R \div h
           r == R % h
<1>4. q \in Nat /\ r \in 0..(h - 1) /\ R = q * h + r
  BY <1>1, <1>2, DivMod
<1>5. q \in 0..(slices - 1) /\ C \in 0..(w - 1)
  BY <1>1, <1>2, <1>3, <1>4
<1> HIDE DEF q, r
<1>6. R \in 0..(slices * h - 1)
  BY <1>1, <1>4, <1>5, RowMajor
<1>7. slices * h \in Nat
  BY <1>1
<1>8. R * w + C \in 0..(slices * h * w - 1)
  BY <1>1, <1>5, <1>6, <1>7, RowMajor
<1> QED BY <1>8 DEF PutAt, ResultLength, slices, R, C, h, w

(* which it shares with nothing else.                                      *)
LEMMA PlacesApart ==
  ASSUME NEW s \in Shapes, NEW i \in Nat, NEW j \in Nat, KeptAt(s, i), KeptAt(s, j),
         PutAt(s, i) = PutAt(s, j)
  PROVE  i = j
<1> DEFINE Ri == RowAt(s, i)
           Ci == ColumnAt(s, i)
           Rj == RowAt(s, j)
           Cj == ColumnAt(s, j)
           w == s.valid_width
           u == Width(s)
<1>1. w \in Nat \ {0} /\ u \in Nat \ {0}
  BY ShapeFields
<1>2. /\ Ri \in Nat /\ Ci \in Nat /\ i = Ri * u + Ci
      /\ Rj \in Nat /\ Cj \in Nat /\ j = Rj * u + Cj
  BY RowAndColumn
<1>3. Ci < w /\ Cj < w /\ Ri * w + Ci = Rj * w + Cj
  BY DEF KeptAt, PutAt
<1> HIDE DEF Ri, Ci, Rj, Cj, w, u
<1>4. Ci \in 0..(w - 1) /\ Cj \in 0..(w - 1)
  BY <1>1, <1>2, <1>3
<1>5. (Ri * w + Ci) \div w = Ri /\ (Ri * w + Ci) % w = Ci
  BY <1>1, <1>2, <1>4, DivModUnique
<1>6. (Rj * w + Cj) \div w = Rj /\ (Rj * w + Cj) % w = Cj
  BY <1>1, <1>2, <1>4, DivModUnique
<1>7. Ri = Rj
  BY <1>3, <1>5, <1>6, Zenon
<1>8. Ci = Cj
  BY <1>3, <1>5, <1>6, Zenon
<1> QED BY <1>2, <1>7, <1>8, Zenon

-----------------------------------------------------------------------------
(* The inductive invariant: the walk has put what it keeps of the elements *)
(* so far into its places, and nothing else anywhere.                      *)
NativeInv ==
  process = "native" =>
    /\ shape \in Shapes
    /\ idx \in 0..WalkLength(shape)
    /\ dst \in [0..(ResultLength(shape) - 1) -> {-1} \cup 0..(idx - 1)]
    /\ \A i \in 0..(idx - 1) : KeptAt(shape, i) => dst[PutAt(shape, i)] = i
    /\ \A place \in DOMAIN dst :
         dst[place] # -1 => KeptAt(shape, dst[place]) /\ PutAt(shape, dst[place]) = place

LEMMA Lengths ==
  ASSUME NEW s \in Shapes
  PROVE  WalkLength(s) \in Nat /\ ResultLength(s) \in Nat
<1>1. /\ s.native_batch \in Nat /\ s.c1 \in Nat /\ s.c2 \in Nat /\ s.height \in Nat
      /\ s.valid_width \in Nat /\ s.logical_batch \in Nat /\ s.channels \in Nat
      /\ Width(s) \in Nat
  BY ShapeFields
<1>2. s.c1 * s.c2 * s.native_batch \in Nat /\ s.height * Width(s) \in Nat
  BY <1>1
<1>3. s.logical_batch * s.channels * s.height \in Nat
  BY <1>1
<1> QED BY <1>1, <1>2, <1>3 DEF WalkLength, ResultLength

LEMMA LengthsOfShape ==
  /\ Native!walk_elems = WalkLength(shape)
  /\ Native!result_elems = ResultLength(shape)
BY DEF Native!walk_elems, Native!result_elems, Native!slice_elems, Native!padded_w,
       WalkLength, ResultLength, Width

LEMMA NativeInitHolds == RuntimeInit => NativeInv
<1> SUFFICES ASSUME RuntimeInit, process = "native" PROVE NativeInv
  BY DEF NativeInv
<1>1. /\ shape \in Shapes /\ idx = 0
      /\ dst = [i \in 0..(ResultLength(shape) - 1) |-> -1]
  BY LengthsOfShape DEF RuntimeInit, Native!Init, Native!unset
<1>2. WalkLength(shape) \in Nat
  BY <1>1, Lengths
<1>3. idx \in 0..WalkLength(shape)
  BY <1>1, <1>2
<1>4. dst \in [0..(ResultLength(shape) - 1) -> {-1} \cup 0..(idx - 1)]
  BY <1>1
<1>5. \A place \in DOMAIN dst : dst[place] = -1
  BY <1>1
<1>6. 0..(idx - 1) = {}
  BY <1>1
<1> QED BY <1>1, <1>3, <1>4, <1>5, <1>6 DEF NativeInv

(* What is written was unset: nothing else has its place.                  *)
LEMMA WrittenOnce ==
  ASSUME NativeInv, process = "native", KeptAt(shape, idx)
  PROVE  PutAt(shape, idx) \in DOMAIN dst /\ dst[PutAt(shape, idx)] = -1
<1>1. /\ shape \in Shapes /\ idx \in Nat
      /\ dst \in [0..(ResultLength(shape) - 1) -> {-1} \cup 0..(idx - 1)]
  BY DEF NativeInv
<1> DEFINE place == PutAt(shape, idx)
<1>2. place \in DOMAIN dst
  BY <1>1, PlacesInside
<1>3. ASSUME dst[place] # -1 PROVE FALSE
  <2>1. dst[place] \in 0..(idx - 1)
    BY <1>1, <1>2, <1>3
  <2>2. KeptAt(shape, dst[place]) /\ PutAt(shape, dst[place]) = PutAt(shape, idx)
    BY <1>2, <1>3 DEF NativeInv
  <2>3. dst[place] \in Nat /\ dst[place] # idx
    BY <1>1, <2>1
  <2> HIDE DEF place
  <2> QED BY <1>1, <2>2, <2>3, PlacesApart
<1> QED BY <1>2, <1>3

LEMMA NativeStepKeeps ==
  NativeInv /\ [RuntimeNext]_<<process, vars, nativeVars, poolVars>> => NativeInv'
<1> SUFFICES ASSUME NativeInv, [RuntimeNext]_<<process, vars, nativeVars, poolVars>>,
                    process' = "native"
             PROVE  NativeInv'
  BY DEF NativeInv
<1>1. CASE UNCHANGED <<process, nativeVars>>
  BY <1>1 DEF NativeInv, nativeVars
<1>2. CASE process = "native" /\ Native!Next /\ process' = process
  <2>1. /\ ~Native!Done /\ idx' = idx + 1 /\ shape' = shape
        /\ dst' = IF Native!Kept(idx) THEN [dst EXCEPT ![Native!Target(idx)] = idx] ELSE dst
    BY <1>2 DEF Native!Next, Native!Read
  <2>2. /\ shape \in Shapes /\ idx \in Nat
        /\ dst \in [0..(ResultLength(shape) - 1) -> {-1} \cup 0..(idx - 1)]
    BY <1>2 DEF NativeInv
  <2>3. idx' \in 0..WalkLength(shape)
    <3>1. idx < WalkLength(shape)
      <4>1. WalkLength(shape) \in Nat /\ ~(idx >= WalkLength(shape))
        BY <2>1, <2>2, Lengths, LengthsOfShape DEF Native!Done
      <4> QED BY <2>2, <4>1
    <3>2. WalkLength(shape) \in Nat
      BY <2>2, Lengths
    <3> QED BY <2>1, <2>2, <3>1, <3>2
  <2>4. dst' = IF KeptAt(shape, idx) THEN [dst EXCEPT ![PutAt(shape, idx)] = idx] ELSE dst
    BY <2>1, <2>2, WalkByRows
  <2>5. 0..(idx' - 1) = 0..(idx - 1) \cup {idx}
    BY <2>1, <2>2
  <2>6. CASE KeptAt(shape, idx)
    <3> DEFINE put == PutAt(shape, idx)
    <3>1. put \in DOMAIN dst /\ dst[put] = -1
      BY <1>2, <2>6, WrittenOnce
    <3>2. dst' = [dst EXCEPT ![put] = idx]
      BY <2>4, <2>6
    <3>3. dst' \in [0..(ResultLength(shape) - 1) -> {-1} \cup 0..(idx' - 1)]
      BY <2>2, <2>5, <3>1, <3>2
    <3>4. ASSUME NEW i \in 0..(idx - 1), KeptAt(shape, i)
          PROVE  dst'[PutAt(shape, i)] = i
      <4>1. i \in Nat /\ i # -1 /\ dst[PutAt(shape, i)] = i
        BY <1>2, <2>2, <3>4 DEF NativeInv
      <4>2. PutAt(shape, i) \in DOMAIN dst
        BY <2>2, <3>4, <4>1, PlacesInside
      <4>3. PutAt(shape, i) # put
        BY <3>1, <4>1
      <4> QED BY <2>2, <3>1, <3>2, <4>1, <4>2, <4>3
    <3>5. dst'[put] = idx
      BY <2>2, <3>1, <3>2
    <3>6. \A i \in 0..(idx' - 1) : KeptAt(shape, i) => dst'[PutAt(shape, i)] = i
      BY <2>5, <3>4, <3>5
    <3>7. ASSUME NEW place \in DOMAIN dst', dst'[place] # -1
          PROVE  KeptAt(shape, dst'[place]) /\ PutAt(shape, dst'[place]) = place
      <4>1. CASE place = put
        BY <2>6, <3>5, <4>1
      <4>2. CASE place # put
        <5>1. place \in DOMAIN dst /\ dst'[place] = dst[place]
          BY <2>2, <3>2, <3>7, <4>2
        <5> QED BY <1>2, <3>7, <5>1 DEF NativeInv
      <4> QED BY <4>1, <4>2
    <3> QED BY <2>1, <2>2, <2>3, <3>3, <3>6, <3>7 DEF NativeInv
  <2>7. CASE ~KeptAt(shape, idx)
    <3>1. dst' = dst
      BY <2>4, <2>7
    <3>2. dst' \in [0..(ResultLength(shape) - 1) -> {-1} \cup 0..(idx' - 1)]
      BY <2>2, <2>5, <3>1
    <3>3. \A i \in 0..(idx' - 1) : KeptAt(shape, i) => dst'[PutAt(shape, i)] = i
      BY <1>2, <2>5, <2>7, <3>1 DEF NativeInv
    <3> QED BY <1>2, <2>1, <2>2, <2>3, <3>1, <3>2, <3>3 DEF NativeInv
  <2> QED BY <2>6, <2>7
<1> QED BY <1>1, <1>2 DEF RuntimeNext

-----------------------------------------------------------------------------
(* Where the walk reads an element of a slice of the result.               *)
SourceOf(s, slice, y, x) == (slice * s.height + y) * Width(s) + x
SliceOf(s, n, c) == n * s.channels + c

LEMMA SliceInside ==
  ASSUME NEW s \in Shapes, NEW n \in 0..(s.logical_batch - 1), NEW c \in 0..(s.channels - 1)
  PROVE  SliceOf(s, n, c) \in Nat /\ SliceOf(s, n, c) < s.logical_batch * s.channels
<1>1. s.logical_batch \in Nat /\ s.channels \in Nat \ {0}
  BY ShapeFields
<1>2. s.logical_batch * s.channels \in Nat
  BY <1>1
<1>3. n * s.channels + c \in 0..(s.logical_batch * s.channels - 1)
  BY <1>1, RowMajor
<1> QED BY <1>2, <1>3 DEF SliceOf

LEMMA SourceInside ==
  ASSUME NEW s \in Shapes, NEW slice \in Nat, NEW y \in 0..(s.height - 1),
         NEW x \in 0..(s.valid_width - 1),
         slice < s.logical_batch * s.channels,
         s.logical_batch * s.channels <= s.c1 * s.c2 * s.native_batch,
         s.valid_width <= Width(s)
  PROVE  /\ SourceOf(s, slice, y, x) \in 0..(WalkLength(s) - 1)
         /\ KeptAt(s, SourceOf(s, slice, y, x))
         /\ PutAt(s, SourceOf(s, slice, y, x)) = (slice * s.height + y) * s.valid_width + x
<1> DEFINE h == s.height
           w == Width(s)
           lanes == s.c1 * s.c2 * s.native_batch
           R == slice * h + y
           i == R * w + x
<1>1. h \in Nat \ {0} /\ w \in Nat \ {0} /\ s.valid_width \in Nat
      /\ s.logical_batch \in Nat /\ s.channels \in Nat
      /\ s.c1 \in Nat /\ s.c2 \in Nat /\ s.native_batch \in Nat
  BY ShapeFields
<1>2. lanes \in Nat /\ s.logical_batch * s.channels \in Nat
  BY <1>1
<1>3. slice \in 0..(lanes - 1) /\ y \in 0..(h - 1) /\ x \in 0..(w - 1) /\ x < s.valid_width
  BY <1>1, <1>2
<1> HIDE DEF h, w, lanes
<1>4. R \in 0..(lanes * h - 1) /\ R \div h = slice
  BY <1>1, <1>2, <1>3, RowMajor
<1> DEFINE rows == lanes * h
<1>5. rows \in Nat /\ rows * w = lanes * (h * w)
  BY <1>1, <1>2
<1> HIDE DEF R
<1>13. R \in 0..(rows - 1)
  BY <1>4
<1> HIDE DEF rows
<1>6. i \in 0..(rows * w - 1) /\ i \div w = R /\ i % w = x
  BY <1>1, <1>3, <1>5, <1>13, RowMajor
<1> HIDE DEF i
<1>7. RowAt(s, i) = R /\ ColumnAt(s, i) = x
  BY <1>6 DEF RowAt, ColumnAt, w
<1>8. KeptAt(s, i)
  BY <1>3, <1>4, <1>7 DEF KeptAt, h
<1>9. PutAt(s, i) = R * s.valid_width + x
  BY <1>7, Zenon DEF PutAt
<1>10. i \in 0..(WalkLength(s) - 1)
  BY <1>5, <1>6 DEF WalkLength, lanes, h, w
<1>11. SourceOf(s, slice, y, x) = i
  BY Zenon DEF SourceOf, i, R, h, w
<1>12. PutAt(s, i) = (slice * s.height + y) * s.valid_width + x
  BY <1>9, Zenon DEF R, h
<1> QED BY <1>8, <1>10, <1>11, <1>12

(* Rows stay rows, and slices follow each other.                           *)
LEMMA SourceSteps ==
  ASSUME NEW s \in Shapes, NEW slice \in Nat, NEW y \in Nat, NEW x \in Nat
  PROVE  /\ SourceOf(s, slice, y, x) = SourceOf(s, slice, 0, 0) + y * Width(s) + x
         /\ slice > 0 => SourceOf(s, slice - 1, y, x)
                           = SourceOf(s, slice, y, x) - s.height * Width(s)
<1> DEFINE h == s.height
           w == Width(s)
           a == slice * h
<1>1. h \in Nat /\ w \in Nat
  BY ShapeFields
<1> HIDE DEF h, w
<1>2. a \in Nat /\ (slice - 1) * h = a - h
  BY <1>1
<1> HIDE DEF a
<1>3. (a + y) * w + x = (a + 0) * w + 0 + y * w + x
  BY <1>1, <1>2
<1> DEFINE here == (a + y) * w + x
           step == h * w
<1>4. (a - h + y) * w + x = here - step
  BY <1>1, <1>2
<1>5. SourceOf(s, slice, y, x) = (a + y) * w + x /\ SourceOf(s, slice, 0, 0) = (a + 0) * w + 0
  BY Zenon DEF SourceOf, a, h, w
<1>6. SourceOf(s, slice - 1, y, x) = ((slice - 1) * h + y) * w + x
  BY Zenon DEF SourceOf, h, w
<1>7. SourceOf(s, slice - 1, y, x) = (a - h + y) * w + x
  BY <1>2, <1>6, Zenon
<1>8. SourceOf(s, slice, y, x) = SourceOf(s, slice, 0, 0) + y * w + x
  BY <1>3, <1>5, Zenon
<1>9. SourceOf(s, slice - 1, y, x) = here - step
  BY <1>4, <1>7, Zenon
<1>10. SourceOf(s, slice, y, x) = here
  BY <1>5
<1> HIDE DEF here
<1> QED BY <1>8, <1>9, <1>10 DEF step, h, w

(* At the end each logical element is the one read from its source.        *)
LEMMA AllRead ==
  ASSUME NativeInv, process = "native", Native!Done, Native!Fits, NEW p \in Native!Places
  PROVE  /\ Native!At(p) = SourceOf(shape, SliceOf(shape, p.n, p.c), p.y, p.x)
         /\ Native!At(p) \in Nat
<1>1. shape \in Shapes /\ idx \in 0..WalkLength(shape)
  BY DEF NativeInv
<1> DEFINE slice == SliceOf(shape, p.n, p.c)
           i == SourceOf(shape, slice, p.y, p.x)
<1>2. /\ p.n \in 0..(shape.logical_batch - 1) /\ p.c \in 0..(shape.channels - 1)
      /\ p.y \in 0..(shape.height - 1) /\ p.x \in 0..(shape.valid_width - 1)
  BY DEF Native!Places
<1>3. slice \in Nat /\ slice < shape.logical_batch * shape.channels
  BY <1>1, <1>2, SliceInside
<1>4. /\ shape.logical_batch * shape.channels <= shape.c1 * shape.c2 * shape.native_batch
      /\ shape.valid_width <= Width(shape)
      /\ WalkLength(shape) <= shape.src_elems
  BY LengthsOfShape DEF Native!Fits, Native!total_logical_slices, Native!padded_w, Width
<1> HIDE DEF slice
<1>5. /\ i \in 0..(WalkLength(shape) - 1)
      /\ KeptAt(shape, i)
      /\ PutAt(shape, i) = (slice * shape.height + p.y) * shape.valid_width + p.x
  BY <1>1, <1>2, <1>3, <1>4, SourceInside
<1>6. idx = WalkLength(shape)
  <2>1. WalkLength(shape) \in Nat /\ shape.src_elems \in Nat
    BY <1>1, Lengths, ShapeFields
  <2>2. idx >= WalkLength(shape) \/ idx >= shape.src_elems
    BY LengthsOfShape DEF Native!Done
  <2> QED BY <1>1, <1>4, <2>1, <2>2
<1> HIDE DEF i
<1>7. dst[PutAt(shape, i)] = i
  BY <1>5, <1>6 DEF NativeInv
<1>8. Native!At(p) = dst[PutAt(shape, i)]
  BY <1>5, Zenon DEF Native!At, Native!dst_idx, slice, SliceOf
<1>9. i \in Nat
  BY <1>1, <1>5
<1> QED BY <1>7, <1>8, <1>9 DEF i, slice

LEMMA NativeInvOrdered ==
  ASSUME NativeInv, process = "native"
  PROVE  Native!TypeOK /\ Native!SlicesInOrder
<1>1. shape \in Shapes /\ idx \in 0..WalkLength(shape) /\ idx \in Nat
      /\ dst \in [0..(ResultLength(shape) - 1) -> {-1} \cup 0..(idx - 1)]
  BY DEF NativeInv
<1>2. Native!TypeOK
  BY <1>1, LengthsOfShape DEF Native!TypeOK, Native!unset
<1>3. Native!SlicesInOrder
  <2> SUFFICES ASSUME Native!Done, Native!Fits, NEW p \in Native!Places
               PROVE
                 /\ Native!At(p) # Native!unset
                 /\ Native!At(p) = Native!At([p EXCEPT !.x = 0, !.y = 0])
                                     + p.y * Native!padded_w + p.x
                 /\ p.c > 0 => Native!At([p EXCEPT !.c = @ - 1])
                                 = Native!At(p) - Native!slice_elems
                 /\ (p.c = 0 /\ p.n > 0) =>
                      Native!At([p EXCEPT !.n = @ - 1, !.c = shape.channels - 1])
                        = Native!At(p) - Native!slice_elems
    BY DEF Native!SlicesInOrder
  <2> DEFINE slice == SliceOf(shape, p.n, p.c)
             first == [p EXCEPT !.x = 0, !.y = 0]
             previous == [p EXCEPT !.c = @ - 1]
             before == [p EXCEPT !.n = @ - 1, !.c = shape.channels - 1]
  <2>1. /\ p.n \in 0..(shape.logical_batch - 1) /\ p.c \in 0..(shape.channels - 1)
        /\ p.y \in 0..(shape.height - 1) /\ p.x \in 0..(shape.valid_width - 1)
        /\ p.n \in Nat /\ p.c \in Nat /\ p.y \in Nat /\ p.x \in Nat
    BY DEF Native!Places
  <2>2. /\ shape.height \in Nat \ {0} /\ shape.valid_width \in Nat \ {0}
        /\ shape.channels \in Nat \ {0} /\ shape.logical_batch \in Nat \ {0}
    BY <1>1, ShapeFields
  <2>3. Native!padded_w = Width(shape) /\ Native!slice_elems = shape.height * Width(shape)
    BY DEF Native!padded_w, Native!slice_elems, Width
  <2>4. slice \in Nat
    BY <1>1, <2>1, SliceInside
  <2>5. Native!At(p) = SourceOf(shape, slice, p.y, p.x) /\ Native!At(p) \in Nat
    BY AllRead
  <2>6. Native!At(first) = SourceOf(shape, slice, 0, 0)
    <3>0. first = [n |-> p.n, c |-> p.c, y |-> 0, x |-> 0]
      <4>1. first = [[p EXCEPT !.x = 0] EXCEPT !.y = 0]
        BY Zenon
      <4>2. [p EXCEPT !.x = 0] = [n |-> p.n, c |-> p.c, y |-> p.y, x |-> 0]
        BY DEF Native!Places
      <4> HIDE DEF first
      <4> QED BY <4>1, <4>2
    <3>1. first \in Native!Places
      <4>1. 0 \in 0..(shape.height - 1) /\ 0 \in 0..(shape.valid_width - 1)
        BY <2>2
      <4> QED BY <2>1, <3>0, <4>1 DEF Native!Places
    <3>2. first.n = p.n /\ first.c = p.c /\ first.y = 0 /\ first.x = 0
      <4> HIDE DEF first
      <4> QED BY <3>0
    <3>3. Native!At(first) = SourceOf(shape, SliceOf(shape, first.n, first.c), first.y, first.x)
      BY <3>1, AllRead
    <3> QED BY <3>2, <3>3
  <2>7. Native!At(p) = Native!At(first) + p.y * Width(shape) + p.x
    <3> HIDE DEF slice, first
    <3>1. SourceOf(shape, slice, p.y, p.x)
            = SourceOf(shape, slice, 0, 0) + p.y * Width(shape) + p.x
      BY <1>1, <2>1, <2>4, SourceSteps
    <3> QED BY <2>5, <2>6, <3>1
  <2>8. slice > 0 => SourceOf(shape, slice - 1, p.y, p.x)
                       = Native!At(p) - shape.height * Width(shape)
    <3> HIDE DEF slice
    <3> QED BY <1>1, <2>1, <2>4, <2>5, SourceSteps
  <2>9. ASSUME p.c > 0
        PROVE  Native!At(previous) = Native!At(p) - shape.height * Width(shape)
    <3>0. previous = [n |-> p.n, c |-> p.c - 1, y |-> p.y, x |-> p.x]
      BY DEF Native!Places
    <3>1. previous \in Native!Places
      <4>1. p.c - 1 \in 0..(shape.channels - 1)
        BY <2>1, <2>2, <2>9
      <4> QED BY <2>1, <3>0, <4>1 DEF Native!Places
    <3>2. /\ previous.n = p.n /\ previous.c = p.c - 1
          /\ previous.y = p.y /\ previous.x = p.x
      BY <2>1 DEF Native!Places
    <3>3. Native!At(previous)
            = SourceOf(shape, SliceOf(shape, previous.n, previous.c), previous.y, previous.x)
      BY <3>1, AllRead
    <3>4. SliceOf(shape, p.n, p.c - 1) = slice - 1 /\ slice > 0
      <4>1. p.n * shape.channels \in Nat
        BY <2>1, <2>2
      <4> QED BY <2>1, <2>9, <4>1 DEF SliceOf
    <3> QED BY <2>8, <3>2, <3>3, <3>4
  <2>10. ASSUME p.c = 0, p.n > 0
         PROVE  Native!At(before) = Native!At(p) - shape.height * Width(shape)
    <3>0. before = [n |-> p.n - 1, c |-> shape.channels - 1, y |-> p.y, x |-> p.x]
      <4>1. before = [[p EXCEPT !.n = @ - 1] EXCEPT !.c = shape.channels - 1]
        BY Zenon
      <4>2. [p EXCEPT !.n = @ - 1] = [n |-> p.n - 1, c |-> p.c, y |-> p.y, x |-> p.x]
        BY DEF Native!Places
      <4> HIDE DEF before
      <4> QED BY <4>1, <4>2
    <3>1. before \in Native!Places
      <4>1. p.n - 1 \in 0..(shape.logical_batch - 1)
            /\ shape.channels - 1 \in 0..(shape.channels - 1)
        BY <2>1, <2>2, <2>10
      <4> QED BY <2>1, <3>0, <4>1 DEF Native!Places
    <3>2. /\ before.n = p.n - 1 /\ before.c = shape.channels - 1
          /\ before.y = p.y /\ before.x = p.x
      <4> HIDE DEF before
      <4> QED BY <3>0
    <3>3. Native!At(before)
            = SourceOf(shape, SliceOf(shape, before.n, before.c), before.y, before.x)
      BY <3>1, AllRead
    <3>4. SliceOf(shape, p.n - 1, shape.channels - 1) = slice - 1 /\ slice > 0
      <4>1. p.n - 1 \in Nat /\ p.n = (p.n - 1) + 1
        BY <2>1, <2>10
      <4>2. /\ (p.n - 1) * shape.channels \in Nat
            /\ ((p.n - 1) + 1) * shape.channels = (p.n - 1) * shape.channels + shape.channels
        BY <2>2, <4>1, MulNext
      <4> QED BY <2>2, <2>10, <4>1, <4>2 DEF SliceOf
    <3> QED BY <2>8, <3>2, <3>3, <3>4
  <2>11. Native!At(p) # Native!unset
    BY <2>5 DEF Native!unset
  <2> QED BY <2>3, <2>7, <2>9, <2>10, <2>11
<1> QED BY <1>2, <1>3

(* For every native and logical shape: the walk of conv1d_simple.cpp       *)
(* writes nothing outside the result and no element twice, and where the   *)
(* buffer has room for the tensor, it fills the result slice by slice, in  *)
(* rows, whatever lanes the slices lie in.                                 *)
THEOREM WalkIsSound == RuntimeSpec => NativeWalkSound
<1>1. NativeInv => (process = "native" => Native!TypeOK /\ Native!SlicesInOrder)
  BY NativeInvOrdered
<1>2. NativeInv => (process = "native" => Native!WriteOnceInside)
  <2> SUFFICES ASSUME NativeInv, process = "native", Native!Kept(idx)
               PROVE  Native!Target(idx) \in DOMAIN dst /\ dst[Native!Target(idx)] = Native!unset
    BY DEF Native!WriteOnceInside
  <2>1. shape \in Shapes /\ idx \in Nat
    BY DEF NativeInv
  <2>2. KeptAt(shape, idx) /\ Native!Target(idx) = PutAt(shape, idx)
    BY <2>1, WalkByRows
  <2> QED BY <2>2, WrittenOnce DEF Native!unset
<1>3. NativeInv /\ [RuntimeNext]_<<process, vars, nativeVars, poolVars>>
        => [process = "native" => Native!WriteOnceInside]_nativeVars
  BY <1>2
<1> QED BY <1>1, <1>3, NativeInitHolds, NativeStepKeeps, PTL DEF RuntimeSpec, NativeWalkSound

-----------------------------------------------------------------------------
(* Rounding up.                                                            *)
LEMMA RoundedUp ==
  ASSUME NEW x \in Nat, NEW d \in Nat \ {0}
  PROVE  /\ Pool!Ceiling(x, d) \in Nat
         /\ x <= Pool!Ceiling(x, d) * d
         /\ (Pool!Ceiling(x, d) - 1) * d < x
<1> DEFINE q == (-x) \div d
           r == (-x) % d
           up == -q
<1>1. -x \in Int /\ x \in Nat /\ d \in Nat \ {0}
  OBVIOUS
<1>2. q \in Int /\ r \in 0..(d - 1) /\ -x = q * d + r
  BY <1>1, DivModInt
<1> HIDE DEF q, r
<1>3. q * d \in Int /\ up * d = -(q * d) /\ (up - 1) * d = -(q * d) - d /\ up \in Int
  BY <1>1, <1>2
<1>4. x <= up * d /\ (up - 1) * d < x
  BY <1>1, <1>2, <1>3
<1>5. up >= 0
  <2> SUFFICES ASSUME q >= 1 PROVE FALSE
    BY <1>2
  <2>1. 1 * d <= q * d
    BY <1>2, MulMonotone
  <2> QED BY <1>1, <1>2, <1>3, <2>1
<1>6. Pool!Ceiling(x, d) = up
  BY DEF Pool!Ceiling, up, q
<1> QED BY <1>3, <1>4, <1>5, <1>6

-----------------------------------------------------------------------------
(* What one case says of its windows.                                      *)
ExtentOf(c) == c.dilation * (c.kernel - 1) + 1
StrideOf(c) == IF c.stride > 0 THEN c.stride ELSE c.kernel
SpanOf(c) == c.in + 2 * c.pad - ExtentOf(c)
Rounded(c) ==
  IF c.ceil_mode THEN Pool!Ceiling(SpanOf(c), StrideOf(c)) ELSE SpanOf(c) \div StrideOf(c)
Clipped(c, out) ==
  IF c.ceil_mode /\ (out - 1) * StrideOf(c) >= c.in + c.pad THEN out - 1 ELSE out
Windows(c) == IF c.adaptive THEN c.out ELSE Clipped(c, Rounded(c) + 1)
FirstOf(c, i) ==
  IF c.adaptive THEN (i * c.in) \div c.out ELSE i * StrideOf(c) - c.pad
Turns(c, i) ==
  IF c.adaptive THEN Pool!Ceiling((i + 1) * c.in, c.out) - FirstOf(c, i) ELSE c.kernel
StepOf(c) == IF c.adaptive THEN 1 ELSE c.dilation

LEMMA CaseFields ==
  ASSUME NEW c \in Configs
  PROVE  /\ c.in \in Nat \ {0} /\ c.kernel \in Nat \ {0} /\ c.dilation \in Nat \ {0}
         /\ c.out \in Nat \ {0} /\ c.stride \in Nat /\ c.pad \in Nat
         /\ c.ceil_mode \in BOOLEAN /\ c.adaptive \in BOOLEAN
         /\ StrideOf(c) \in Nat \ {0} /\ StepOf(c) \in Nat \ {0}
         /\ ExtentOf(c) \in Nat /\ SpanOf(c) \in Nat
         /\ 2 * c.pad <= c.kernel /\ c.kernel <= ExtentOf(c)
         /\ c.dilation = 1 => ExtentOf(c) = c.kernel
<1>1. /\ c.in \in Nat \ {0} /\ c.kernel \in Nat \ {0} /\ c.dilation \in Nat \ {0}
      /\ c.out \in Nat \ {0} /\ c.stride \in Nat /\ c.pad \in Nat
      /\ c.ceil_mode \in BOOLEAN /\ c.adaptive \in BOOLEAN
      /\ 2 * c.pad <= c.kernel
      /\ c.in + 2 * c.pad >= ExtentOf(c)
  BY CasesAssumption DEF Pool!ConfigsAssumption, ExtentOf
<1>2. StrideOf(c) \in Nat \ {0} /\ StepOf(c) \in Nat \ {0}
  BY <1>1 DEF StrideOf, StepOf
<1>3. ExtentOf(c) \in Nat /\ c.kernel <= ExtentOf(c) /\ (c.dilation = 1 => ExtentOf(c) = c.kernel)
  <2> DEFINE last == c.kernel - 1
  <2>1. last \in Nat
    BY <1>1
  <2>2. 1 * last <= c.dilation * last /\ c.dilation * last \in Nat
    BY <1>1, <2>1, MulMonotone
  <2> QED BY <1>1, <2>1, <2>2 DEF ExtentOf
<1> QED BY <1>1, <1>2, <1>3 DEF SpanOf

LEMMA WindowsOfCase ==
  /\ Pool!OutDim = Windows(cfg) /\ Pool!Step = StepOf(cfg)
  /\ Pool!stride = StrideOf(cfg) /\ Pool!kernel_extent = ExtentOf(cfg)
  /\ \A i : Pool!Start(i) = FirstOf(cfg, i) /\ Pool!Length(i) = Turns(cfg, i)
<1>1. Pool!stride = StrideOf(cfg) /\ Pool!kernel_extent = ExtentOf(cfg)
  BY DEF Pool!stride, Pool!kernel_extent, StrideOf, ExtentOf
<1>2. Pool!span = SpanOf(cfg)
  BY <1>1 DEF Pool!span, SpanOf
<1>3. \A i : Pool!Start(i) = FirstOf(cfg, i)
  BY <1>1 DEF Pool!Start, FirstOf
<1>4. \A i : Pool!Length(i) = Turns(cfg, i)
  BY <1>3 DEF Pool!Length, Turns
<1>5. Pool!OutDim = Windows(cfg)
  BY <1>1, <1>2 DEF Pool!OutDim, Pool!compute_out_dim, Windows, Rounded, Clipped
<1> QED BY <1>1, <1>3, <1>4, <1>5 DEF Pool!Step, StepOf

(* Without ceil_mode the windows end before the padding does, and one more *)
(* would not.                                                              *)
LEMMA FlooredWindows ==
  ASSUME NEW c \in Configs, ~c.adaptive, ~c.ceil_mode
  PROVE  /\ Windows(c) \in Nat \ {0}
         /\ (Windows(c) - 1) * StrideOf(c) <= SpanOf(c)
         /\ SpanOf(c) < Windows(c) * StrideOf(c)
<1> DEFINE q == SpanOf(c) \div StrideOf(c)
<1>1. SpanOf(c) \in Nat /\ StrideOf(c) \in Nat \ {0}
  BY CaseFields
<1>2. q \in Nat /\ q * StrideOf(c) <= SpanOf(c) /\ SpanOf(c) < (q + 1) * StrideOf(c)
  BY <1>1, RoundedDown
<1>3. Windows(c) = q + 1
  BY DEF Windows, Rounded, Clipped
<1> HIDE DEF q
<1>4. Windows(c) - 1 = q /\ Windows(c) \in Nat \ {0}
  BY <1>2, <1>3
<1> QED BY <1>2, <1>3, <1>4

(* With ceil_mode the last window begins in the image or the padding on    *)
(* the left, and ends past the image or leaves it to a window given up.    *)
LEMMA CeiledWindows ==
  ASSUME NEW c \in Configs, ~c.adaptive, c.ceil_mode
  PROVE  /\ Windows(c) \in Nat \ {0}
         /\ (Windows(c) - 1) * StrideOf(c) < c.in + c.pad
         /\ \/ SpanOf(c) <= (Windows(c) - 1) * StrideOf(c)
            \/ c.in + c.pad <= Windows(c) * StrideOf(c)
<1> DEFINE q == Pool!Ceiling(SpanOf(c), StrideOf(c))
           st == StrideOf(c)
<1>1. /\ SpanOf(c) \in Nat /\ st \in Nat \ {0} /\ c.in \in Nat \ {0} /\ c.pad \in Nat
      /\ ExtentOf(c) \in Nat /\ 2 * c.pad <= c.kernel /\ c.kernel <= ExtentOf(c)
      /\ c.kernel \in Nat
  BY CaseFields
<1>2. q \in Nat /\ SpanOf(c) <= q * st /\ (q - 1) * st < SpanOf(c)
  BY <1>1, RoundedUp
<1>3. SpanOf(c) <= c.in + c.pad
  BY <1>1 DEF SpanOf
<1>4. Windows(c) = IF q * st >= c.in + c.pad THEN q ELSE q + 1
  <2>1. Windows(c) = Clipped(c, q + 1)
    BY DEF Windows, Rounded
  <2> HIDE DEF q
  <2>2. (q + 1) - 1 = q
    BY <1>2
  <2> QED BY <2>1, <2>2 DEF Clipped
<1> HIDE DEF q, st
<1>5. CASE q * st >= c.in + c.pad
  <2>1. q # 0
    <3>1. 0 * st = 0
      BY <1>1
    <3> QED BY <1>1, <1>5, <3>1
  <2>2. Windows(c) = q /\ (q - 1) * st \in Int
    BY <1>1, <1>2, <1>4, <1>5
  <2>3. (q - 1) * st < c.in + c.pad
    BY <1>1, <1>2, <1>3, <2>2
  <2> QED BY <1>2, <1>5, <2>1, <2>2, <2>3 DEF st
<1>6. CASE ~(q * st >= c.in + c.pad)
  <2>1. Windows(c) = q + 1 /\ Windows(c) - 1 = q /\ q * st \in Int
    BY <1>1, <1>2, <1>4, <1>6
  <2>2. q * st < c.in + c.pad
    BY <1>1, <1>6, <2>1
  <2> QED BY <1>2, <2>1, <2>2 DEF st
<1> QED BY <1>5, <1>6

(* Adaptive windows lie in the image, are not empty, and each begins where *)
(* the one before it ends, or earlier.                                     *)
LEMMA AdaptiveWindows ==
  ASSUME NEW c \in Configs, c.adaptive, NEW i \in 0..(c.out - 1)
  PROVE  /\ FirstOf(c, i) \in 0..(c.in - 1)
         /\ Turns(c, i) \in 1..c.in
         /\ FirstOf(c, i) * c.out <= i * c.in
         /\ (i + 1) * c.in <= (FirstOf(c, i) + Turns(c, i)) * c.out
<1> DEFINE f == FirstOf(c, i)
           end == Pool!Ceiling((i + 1) * c.in, c.out)
           n == c.in
           d == c.out
<1>1. n \in Nat \ {0} /\ d \in Nat \ {0} /\ i \in Nat /\ i + 1 \in Nat /\ i + 1 <= d
  BY CaseFields
<1>2. f = (i * n) \div d /\ Turns(c, i) = end - f
  BY DEF FirstOf, Turns
<1> HIDE DEF f, n, d
<1>3. i * n \in Nat /\ (i + 1) * n = i * n + n /\ (i + 1) * n <= d * n /\ d * n = n * d
  BY <1>1, MulMonotone, MulNext
<1>4. f \in Nat /\ f * d <= i * n
  BY <1>1, <1>2, <1>3, RoundedDown
<1>5. (i + 1) * n \in Nat
  BY <1>1
<1>6. end \in Nat /\ (i + 1) * n <= end * d /\ (end - 1) * d < (i + 1) * n
  BY <1>1, <1>5, RoundedUp DEF n, d
<1> HIDE DEF end
<1>7. f * d < end * d /\ f * d \in Int /\ end * d \in Int
  BY <1>1, <1>3, <1>4, <1>6
<1>8. f < end
  BY <1>1, <1>4, <1>6, <1>7, Cancel
<1>9. (end - 1) * d < n * d
  <2>1. (end - 1) * d \in Int /\ n * d \in Int
    BY <1>1, <1>6
  <2> QED BY <1>3, <1>5, <1>6, <2>1
<1>10. end - 1 < n
  BY <1>1, <1>6, <1>9, Cancel
<1>11. f \in 0..(n - 1) /\ end - f \in 1..n /\ f + (end - f) = end
  BY <1>1, <1>4, <1>6, <1>8, <1>10
<1> QED BY <1>2, <1>4, <1>6, <1>11 DEF f, n, d

LEMMA WindowsFit ==
  ASSUME NEW c \in Configs
  PROVE  /\ Windows(c) \in Nat \ {0}
         /\ \A i \in 0..(Windows(c) - 1) :
              /\ FirstOf(c, i) \in Int /\ Turns(c, i) \in Nat \ {0}
              /\ Turns(c, i) <= c.in + c.kernel
<1>1. /\ c.in \in Nat \ {0} /\ c.out \in Nat \ {0} /\ c.kernel \in Nat \ {0}
      /\ c.pad \in Nat /\ StrideOf(c) \in Nat /\ c.adaptive \in BOOLEAN
  BY CaseFields
<1>2. CASE c.adaptive
  <2>1. Windows(c) = c.out
    BY <1>2 DEF Windows
  <2>2. ASSUME NEW i \in 0..(c.out - 1)
        PROVE  /\ FirstOf(c, i) \in Int /\ Turns(c, i) \in Nat \ {0}
               /\ Turns(c, i) <= c.in + c.kernel
    <3>1. FirstOf(c, i) \in 0..(c.in - 1) /\ Turns(c, i) \in 1..c.in
      BY <1>2, AdaptiveWindows
    <3> QED BY <1>1, <3>1
  <2> QED BY <1>1, <2>1, <2>2
<1>3. CASE ~c.adaptive
  <2>1. Windows(c) \in Nat \ {0}
    BY <1>3, FlooredWindows, CeiledWindows
  <2>2. ASSUME NEW i \in 0..(Windows(c) - 1)
        PROVE  /\ FirstOf(c, i) \in Int /\ Turns(c, i) \in Nat \ {0}
               /\ Turns(c, i) <= c.in + c.kernel
    <3>1. FirstOf(c, i) = i * StrideOf(c) - c.pad /\ Turns(c, i) = c.kernel
      BY <1>3 DEF FirstOf, Turns
    <3>2. i * StrideOf(c) \in Int
      BY <1>1
    <3> QED BY <1>1, <3>1, <3>2
  <2> QED BY <2>1, <2>2
<1> QED BY <1>2, <1>3

(* The elements of the image a window meets in its first n turns.          *)
WindowOf(c, i, n) ==
  {e \in 0..(c.in - 1) : \E j \in 0..(n - 1) : e = FirstOf(c, i) + j * StepOf(c)}

LEMMA WindowBegins ==
  ASSUME NEW c, NEW i
  PROVE  WindowOf(c, i, 0) = {}
<1>1. 0..(0 - 1) = {}
  OBVIOUS
<1> QED BY <1>1 DEF WindowOf

(* Each turn adds an element of its own, unless it is padding.             *)
LEMMA WindowGrows ==
  ASSUME NEW c \in Configs, NEW i \in 0..(Windows(c) - 1), NEW n \in Nat,
         NEW e, e = FirstOf(c, i) + n * StepOf(c)
  PROVE  /\ e \notin WindowOf(c, i, n)
         /\ WindowOf(c, i, n + 1)
              = IF e \in 0..(c.in - 1) THEN WindowOf(c, i, n) \cup {e} ELSE WindowOf(c, i, n)
<1> DEFINE f == FirstOf(c, i)
           st == StepOf(c)
<1>1. f \in Int /\ st \in Nat \ {0}
  BY WindowsFit, CaseFields
<1> HIDE DEF f, st
<1>2. 0..((n + 1) - 1) = 0..(n - 1) \cup {n}
  OBVIOUS
<1>3. ASSUME NEW j \in 0..(n - 1) PROVE f + j * st # f + n * st
  <2>1. j \in Nat /\ j + 1 <= n
    OBVIOUS
  <2>2. (j + 1) * st <= n * st /\ (j + 1) * st = j * st + st /\ j * st \in Nat /\ n * st \in Nat
    BY <1>1, <2>1, MulMonotone, MulNext
  <2> QED BY <1>1, <2>2
<1>4. e = f + n * st
  BY DEF f, st
<1>5. WindowOf(c, i, n) = {x \in 0..(c.in - 1) : \E j \in 0..(n - 1) : x = f + j * st}
  BY DEF WindowOf, f, st
<1>6. WindowOf(c, i, n + 1)
        = {x \in 0..(c.in - 1) : \E j \in 0..(n - 1) \cup {n} : x = f + j * st}
  BY <1>2 DEF WindowOf, f, st
<1>7. e \notin WindowOf(c, i, n)
  BY <1>3, <1>4, <1>5
<1>8. \A x : (\E j \in 0..(n - 1) \cup {n} : x = f + j * st)
                 <=> (\E j \in 0..(n - 1) : x = f + j * st) \/ x = e
  BY <1>4, Zenon
<1>9. \A x : x \in WindowOf(c, i, n + 1)
                 <=> x \in WindowOf(c, i, n) \/ (x = e /\ e \in 0..(c.in - 1))
  BY <1>5, <1>6, <1>8, Zenon
<1> DEFINE W == WindowOf(c, i, n)
           W1 == WindowOf(c, i, n + 1)
<1> HIDE DEF W, W1
<1>10. e \in 0..(c.in - 1) => W1 = W \cup {e}
  BY <1>9 DEF W, W1
<1>11. e \notin 0..(c.in - 1) => W1 = W
  BY <1>9 DEF W, W1
<1> QED BY <1>7, <1>10, <1>11 DEF W, W1

LEMMA WindowsFinite ==
  ASSUME NEW c \in Configs, NEW i, NEW n
  PROVE  WindowOf(c, i, n) \subseteq 0..(c.in - 1) /\ IsFiniteSet(WindowOf(c, i, n))
<1>1. WindowOf(c, i, n) \subseteq 0..(c.in - 1)
  BY DEF WindowOf
<1>2. c.in - 1 \in Int
  BY CaseFields
<1>3. IsFiniteSet(0..(c.in - 1))
  BY <1>2, FS_Interval
<1> QED BY <1>1, <1>3, FS_Subset

LEMMA PoolCardinality == ASSUME NEW S PROVE Pool!Cardinality(S) = Cardinality(S)
  BY DEF Pool!Cardinality, Cardinality

(* The inductive invariant: windows closed are read whole, the one at hand *)
(* as far as the loop is, and valid counts what it has read.               *)
PoolInv ==
  process = "pool" =>
    /\ cfg \in Configs
    /\ o \in 0..Windows(cfg)
    /\ k \in Nat
    /\ IF o = Windows(cfg) THEN k = 0 /\ valid = 0
       ELSE k <= Turns(cfg, o) /\ valid = Cardinality(WindowOf(cfg, o, k))
    /\ read = [i \in 0..(Windows(cfg) - 1) |->
                 WindowOf(cfg, i, IF i < o THEN Turns(cfg, i) ELSE IF i = o THEN k ELSE 0)]

LEMMA PoolInitHolds == RuntimeInit => PoolInv
<1> SUFFICES ASSUME RuntimeInit, process = "pool" PROVE PoolInv
  BY DEF PoolInv
<1>1. /\ cfg \in Configs /\ o = 0 /\ k = 0 /\ valid = 0
      /\ read = [i \in 0..(Windows(cfg) - 1) |-> {}]
  BY WindowsOfCase DEF RuntimeInit, Pool!Init
<1>2. /\ Windows(cfg) \in Nat \ {0}
      /\ Turns(cfg, 0) \in Nat
  BY <1>1, WindowsFit
<1>3. \A i \in 0..(Windows(cfg) - 1) :
        (IF i < o THEN Turns(cfg, i) ELSE IF i = o THEN k ELSE 0) = 0
  BY <1>1
<1>4. \A i : WindowOf(cfg, i, 0) = {}
  BY WindowBegins
<1>5. Cardinality({}) = 0
  BY FS_EmptySet
<1>6. valid = Cardinality(WindowOf(cfg, o, k))
  BY <1>1, <1>4, <1>5
<1>7. read = [i \in 0..(Windows(cfg) - 1) |->
                WindowOf(cfg, i, IF i < o THEN Turns(cfg, i) ELSE IF i = o THEN k ELSE 0)]
  BY <1>1, <1>3, <1>4
<1> QED BY <1>1, <1>2, <1>6, <1>7 DEF PoolInv

LEMMA LookKeeps ==
  ASSUME PoolInv, process = "pool", process' = process, Pool!Look
  PROVE  PoolInv'
<1>1. /\ cfg \in Configs /\ o \in 0..Windows(cfg) /\ k \in Nat
      /\ o < Windows(cfg) /\ k < Turns(cfg, o)
      /\ k' = k + 1 /\ cfg' = cfg /\ o' = o
  BY WindowsOfCase DEF PoolInv, Pool!Look
<1>2. Windows(cfg) \in Nat \ {0} /\ Turns(cfg, o) \in Nat /\ o \in 0..(Windows(cfg) - 1)
  <2>1. Windows(cfg) \in Nat \ {0}
    BY <1>1, WindowsFit
  <2>2. o \in 0..(Windows(cfg) - 1)
    BY <1>1, <2>1
  <2> QED BY <1>1, <2>1, <2>2, WindowsFit
<1> DEFINE e == FirstOf(cfg, o) + k * StepOf(cfg)
           W == WindowOf(cfg, o, k)
           W1 == WindowOf(cfg, o, k + 1)
<1>3. Pool!Element = e /\ Pool!Inputs = 0..(cfg.in - 1)
  BY WindowsOfCase DEF Pool!Element, Pool!Inputs
<1>4. /\ valid = Cardinality(W) /\ k <= Turns(cfg, o)
      /\ read = [i \in 0..(Windows(cfg) - 1) |->
                   WindowOf(cfg, i, IF i < o THEN Turns(cfg, i) ELSE IF i = o THEN k ELSE 0)]
  BY <1>1 DEF PoolInv
<1>5. /\ e \notin W
      /\ W1 = IF e \in 0..(cfg.in - 1) THEN W \cup {e} ELSE W
  BY <1>1, <1>2, WindowGrows
<1>6. IF e \in 0..(cfg.in - 1)
      THEN valid' = valid + 1 /\ read' = [read EXCEPT ![o] = @ \cup {e}]
      ELSE valid' = valid /\ read' = read
  BY <1>3 DEF Pool!Look
<1>7. IsFiniteSet(W)
  BY <1>1, WindowsFinite
<1> HIDE DEF e, W, W1
<1>8. valid' = Cardinality(W1)
  <2>1. Cardinality(W \cup {e}) = Cardinality(W) + 1
    BY <1>5, <1>7, FS_AddElement
  <2> QED BY <1>4, <1>5, <1>6, <2>1
<1>9. read[o] = W
  BY <1>1, <1>2, <1>4 DEF W
<1>10. read' = [read EXCEPT ![o] = W1]
  <2>1. CASE e \in 0..(cfg.in - 1)
    BY <1>5, <1>6, <1>9, <2>1
  <2>2. CASE e \notin 0..(cfg.in - 1)
    <3>1. read' = read /\ W1 = read[o]
      BY <1>5, <1>6, <1>9, <2>2
    <3>2. read = [read EXCEPT ![o] = read[o]]
      BY <1>4
    <3> QED BY <3>1, <3>2
  <2> QED BY <2>1, <2>2
<1>11. read' = [i \in 0..(Windows(cfg) - 1) |->
                  WindowOf(cfg, i, IF i < o THEN Turns(cfg, i) ELSE IF i = o THEN k + 1 ELSE 0)]
  BY <1>1, <1>2, <1>4, <1>10 DEF W1
<1>12. k + 1 \in Nat /\ k + 1 <= Turns(cfg, o) /\ o # Windows(cfg)
  BY <1>1, <1>2
<1> QED BY <1>1, <1>8, <1>11, <1>12 DEF PoolInv, W1

LEMMA CloseKeeps ==
  ASSUME PoolInv, process = "pool", process' = process, Pool!Close
  PROVE  PoolInv'
<1>1. /\ cfg \in Configs /\ o \in 0..Windows(cfg)
      /\ o < Windows(cfg) /\ k = Turns(cfg, o)
      /\ k' = 0 /\ cfg' = cfg /\ o' = o + 1 /\ valid' = 0 /\ read' = read
  BY WindowsOfCase DEF PoolInv, Pool!Close
<1>2. Windows(cfg) \in Nat \ {0}
  BY <1>1, WindowsFit
<1>3. o + 1 \in 0..Windows(cfg) /\ o \in 0..(Windows(cfg) - 1)
  BY <1>1, <1>2
<1>4. read = [i \in 0..(Windows(cfg) - 1) |->
                WindowOf(cfg, i, IF i < o THEN Turns(cfg, i) ELSE IF i = o THEN k ELSE 0)]
  BY <1>1 DEF PoolInv
<1>5. \A i \in 0..(Windows(cfg) - 1) :
        (IF i < o THEN Turns(cfg, i) ELSE IF i = o THEN k ELSE 0)
          = IF i < o + 1 THEN Turns(cfg, i) ELSE IF i = o + 1 THEN 0 ELSE 0
  BY <1>1, <1>3
<1>6. read' = [i \in 0..(Windows(cfg) - 1) |->
                 WindowOf(cfg, i, IF i < o + 1 THEN Turns(cfg, i)
                                  ELSE IF i = o + 1 THEN 0 ELSE 0)]
  BY <1>1, <1>4, <1>5
<1>7. Cardinality(WindowOf(cfg, o + 1, 0)) = 0
  BY WindowBegins, FS_EmptySet
<1>8. o + 1 # Windows(cfg) => Turns(cfg, o + 1) \in Nat
  <2>1. o + 1 # Windows(cfg) => o + 1 \in 0..(Windows(cfg) - 1)
    BY <1>2, <1>3
  <2> QED BY <1>1, <2>1, WindowsFit
<1>9. o + 1 # Windows(cfg) => 0 <= Turns(cfg, o + 1)
  BY <1>8
<1> QED BY <1>1, <1>3, <1>6, <1>7, <1>9 DEF PoolInv

LEMMA PoolStepKeeps ==
  PoolInv /\ [RuntimeNext]_<<process, vars, nativeVars, poolVars>> => PoolInv'
<1> SUFFICES ASSUME PoolInv, [RuntimeNext]_<<process, vars, nativeVars, poolVars>>,
                    process' = "pool"
             PROVE  PoolInv'
  BY DEF PoolInv
<1>1. CASE UNCHANGED <<process, poolVars>>
  BY <1>1 DEF PoolInv, poolVars
<1>2. CASE process = "pool" /\ Pool!Next /\ process' = process
  BY <1>2, LookKeeps, CloseKeeps DEF Pool!Next
<1> QED BY <1>1, <1>2 DEF RuntimeNext

-----------------------------------------------------------------------------
(* A case that does not adapt: its last window begins before the image     *)
(* ends.                                                                   *)
LEMMA LastWindowBegins ==
  ASSUME NEW c \in Configs, ~c.adaptive
  PROVE  (Windows(c) - 1) * StrideOf(c) < c.in + c.pad
<1>1. CASE c.ceil_mode
  BY <1>1, CeiledWindows
<1>2. CASE ~c.ceil_mode
  <2>1. /\ c.in \in Nat \ {0} /\ c.pad \in Nat /\ c.kernel \in Nat \ {0}
        /\ ExtentOf(c) \in Nat /\ 2 * c.pad <= c.kernel /\ c.kernel <= ExtentOf(c)
    BY CaseFields
  <2>2. SpanOf(c) < c.in + c.pad /\ SpanOf(c) \in Int
    BY <2>1 DEF SpanOf
  <2>3. (Windows(c) - 1) * StrideOf(c) <= SpanOf(c)
    BY <1>2, FlooredWindows
  <2>4. (Windows(c) - 1) * StrideOf(c) \in Int
    BY <1>2, FlooredWindows, CaseFields
  <2> QED BY <2>1, <2>2, <2>3, <2>4
<1> QED BY <1>1, <1>2

(* No window without dilation is padding alone.                            *)
LEMMA WindowMeetsImage ==
  ASSUME NEW c \in Configs, c.dilation = 1 \/ c.adaptive, NEW i \in 0..(Windows(c) - 1)
  PROVE  WindowOf(c, i, Turns(c, i)) # {}
<1> DEFINE f == FirstOf(c, i)
           n == Turns(c, i)
<1>1. /\ c.in \in Nat \ {0} /\ c.kernel \in Nat \ {0} /\ c.pad \in Nat
      /\ StrideOf(c) \in Nat \ {0} /\ 2 * c.pad <= c.kernel /\ c.out \in Nat \ {0}
  BY CaseFields
<1>2. f \in Int /\ n \in Nat \ {0} /\ i \in Nat /\ Windows(c) \in Nat \ {0}
  BY WindowsFit
<1>3. StepOf(c) = 1
  BY DEF StepOf
<1>4. f < c.in /\ f + n > 0
  <2>1. CASE c.adaptive
    <3>1. Windows(c) = c.out
      BY <2>1 DEF Windows
    <3>2. f \in 0..(c.in - 1)
      BY <2>1, <3>1, AdaptiveWindows
    <3> QED BY <1>1, <1>2, <3>2
  <2>2. CASE ~c.adaptive
    <3> DEFINE last == Windows(c) - 1
    <3>1. last * StrideOf(c) < c.in + c.pad
      BY <2>2, LastWindowBegins
    <3>2. last \in Nat /\ i <= last
      BY <1>2
    <3> HIDE DEF last
    <3>3. i * StrideOf(c) <= last * StrideOf(c) /\ i * StrideOf(c) \in Nat
          /\ last * StrideOf(c) \in Nat
      BY <1>1, <1>2, <3>2, MulMonotone
    <3>4. f = i * StrideOf(c) - c.pad /\ n = c.kernel
      BY <2>2 DEF FirstOf, Turns
    <3> HIDE DEF f, n
    <3> QED BY <1>1, <3>1, <3>3, <3>4
  <2> QED BY <2>1, <2>2
<1> HIDE DEF f, n
<1>5. CASE f >= 0
  <2>1. f \in 0..(c.in - 1) /\ 0 \in 0..(n - 1) /\ f = f + 0 * 1
    BY <1>1, <1>2, <1>4, <1>5
  <2> QED BY <1>3, <2>1 DEF WindowOf, f, n
<1>6. CASE f < 0
  <2>1. 0 \in 0..(c.in - 1) /\ -f \in 0..(n - 1) /\ 0 = f + (-f) * 1
    BY <1>1, <1>2, <1>4, <1>6
  <2> QED BY <1>3, <2>1 DEF WindowOf, f, n
<1> QED BY <1>2, <1>5, <1>6

(* An element between the first of a window without gaps and its end is in *)
(* the window.                                                             *)
LEMMA BetweenIsIn ==
  ASSUME NEW c \in Configs, c.dilation = 1 \/ c.adaptive, NEW i \in 0..(Windows(c) - 1),
         NEW e \in 0..(c.in - 1), FirstOf(c, i) <= e, e < FirstOf(c, i) + Turns(c, i)
  PROVE  e \in WindowOf(c, i, Turns(c, i))
<1> DEFINE f == FirstOf(c, i)
           n == Turns(c, i)
<1>1. f \in Int /\ n \in Nat /\ e \in Int
  BY WindowsFit
<1>2. StepOf(c) = 1
  BY DEF StepOf
<1>3. f <= e /\ e < f + n
  OBVIOUS
<1> HIDE DEF f, n
<1>4. e - f \in 0..(n - 1) /\ e = f + (e - f) * 1
  BY <1>1, <1>3
<1> QED BY <1>2, <1>4 DEF WindowOf, f, n

LEMMA AdaptiveMeetsAll ==
  ASSUME NEW c \in Configs, c.adaptive, NEW e \in 0..(c.in - 1)
  PROVE  \E i \in 0..(Windows(c) - 1) : e \in WindowOf(c, i, Turns(c, i))
<1> DEFINE n == c.in
           d == c.out
           i == (e * d) \div n
           f == FirstOf(c, i)
           end == f + Turns(c, i)
<1>1. n \in Nat \ {0} /\ d \in Nat \ {0} /\ e \in Nat /\ e + 1 <= n
  BY CaseFields
<1>2. Windows(c) = d
  BY DEF Windows
<1> HIDE DEF n, d
<1>3. e * d \in Nat /\ (e + 1) * d = e * d + d /\ (e + 1) * d <= n * d /\ n * d = d * n
  BY <1>1, MulMonotone, MulNext
<1>4. i \in Nat /\ i * n <= e * d /\ e * d < (i + 1) * n
  BY <1>1, <1>3, RoundedDown
<1> HIDE DEF i
<1>5. i * n \in Int /\ d * n \in Int /\ (i + 1) * n \in Int
  BY <1>1, <1>4
<1>6. i * n < d * n
  BY <1>1, <1>3, <1>4, <1>5
<1>7. i < d
  BY <1>1, <1>4, <1>6, Cancel
<1>8. i \in 0..(d - 1)
  BY <1>1, <1>4, <1>7
<1>9. f \in Nat /\ Turns(c, i) \in Nat /\ f * d <= i * n /\ (i + 1) * n <= end * d
  <2>1. /\ f \in 0..(n - 1) /\ Turns(c, i) \in 1..n
        /\ f * d <= i * n /\ (i + 1) * n <= end * d
    BY <1>8, AdaptiveWindows DEF n, d
  <2> QED BY <1>1, <2>1
<1> HIDE DEF f
<1>10. end \in Nat
  BY <1>9
<1> HIDE DEF end
<1>11. f * d < (e + 1) * d /\ e * d < end * d
  <2>1. f * d \in Int /\ end * d \in Int
    BY <1>1, <1>9, <1>10
  <2> QED BY <1>1, <1>3, <1>4, <1>5, <1>9, <2>1
<1>12. f < e + 1 /\ e < end
  <2>1. e + 1 \in Int
    BY <1>1
  <2> QED BY <1>1, <1>9, <1>10, <1>11, <2>1, Cancel
<1>13. FirstOf(c, i) <= e /\ e < FirstOf(c, i) + Turns(c, i)
  BY <1>1, <1>9, <1>12 DEF f, end
<1> QED BY <1>2, <1>8, <1>13, BetweenIsIn

LEMMA CeiledMeetsAll ==
  ASSUME NEW c \in Configs, ~c.adaptive, c.ceil_mode, c.dilation = 1,
         StrideOf(c) <= c.kernel, NEW e \in 0..(c.in - 1)
  PROVE  \E i \in 0..(Windows(c) - 1) : e \in WindowOf(c, i, Turns(c, i))
<1> DEFINE st == StrideOf(c)
           i == (e + c.pad) \div st
           last == Windows(c) - 1
<1>1. /\ c.in \in Nat \ {0} /\ c.kernel \in Nat \ {0} /\ c.pad \in Nat
      /\ st \in Nat \ {0} /\ ExtentOf(c) = c.kernel /\ st <= c.kernel
      /\ e \in Nat /\ e < c.in
  BY CaseFields
<1>2. e + c.pad \in Nat
  BY <1>1
<1>3. i \in Nat /\ i * st <= e + c.pad /\ e + c.pad < (i + 1) * st
  BY <1>1, <1>2, RoundedDown
<1>4. \A x : FirstOf(c, x) = x * st - c.pad /\ Turns(c, x) = c.kernel
  BY DEF FirstOf, Turns
<1>5. Windows(c) \in Nat \ {0} /\ last \in Nat /\ Windows(c) = last + 1
  BY WindowsFit
<1>6. SpanOf(c) <= last * st \/ c.in + c.pad <= Windows(c) * st
  BY CeiledWindows
<1>7. SpanOf(c) = c.in + 2 * c.pad - c.kernel
  BY <1>1 DEF SpanOf
<1> HIDE DEF i, last, st
<1>8. CASE i <= last
  <2>1. i \in 0..(Windows(c) - 1)
    BY <1>3, <1>5, <1>8
  <2>2. (i + 1) * st = i * st + st /\ i * st \in Nat
    BY <1>1, <1>3, MulNext
  <2>3. FirstOf(c, i) <= e /\ e < FirstOf(c, i) + Turns(c, i)
    BY <1>1, <1>3, <1>4, <2>2
  <2> QED BY <2>1, <2>3, BetweenIsIn
<1>9. CASE last < i
  <2>1. last \in 0..(Windows(c) - 1)
    BY <1>5
  <2>2. last * st <= i * st /\ last * st \in Nat /\ i * st \in Nat
        /\ (last + 1) * st = last * st + st
    BY <1>1, <1>3, <1>5, <1>9, MulMonotone, MulNext
  <2>3. FirstOf(c, last) <= e
    BY <1>1, <1>3, <1>4, <2>2
  <2>4. c.in + c.pad <= last * st + c.kernel
    BY <1>1, <1>5, <1>6, <1>7, <2>2
  <2>5. e < FirstOf(c, last) + Turns(c, last)
    BY <1>1, <1>4, <2>2, <2>4
  <2> QED BY <2>1, <2>3, <2>5, BetweenIsIn
<1> QED BY <1>3, <1>5, <1>8, <1>9

-----------------------------------------------------------------------------
LEMMA PoolInvSound ==
  ASSUME PoolInv, process = "pool"
  PROVE  Pool!TypeOK /\ Pool!WindowMeetsInput /\ Pool!EveryInputRead /\ Pool!FloorIsTight
<1>1. cfg \in Configs /\ o \in 0..Windows(cfg) /\ k \in Nat
  BY DEF PoolInv
<1>2. Windows(cfg) \in Nat \ {0}
  BY <1>1, WindowsFit
<1>3. read = [i \in 0..(Windows(cfg) - 1) |->
                WindowOf(cfg, i, IF i < o THEN Turns(cfg, i) ELSE IF i = o THEN k ELSE 0)]
  BY DEF PoolInv
<1>4. DOMAIN read = 0..(Windows(cfg) - 1)
  BY <1>3
<1>5. \A i \in DOMAIN read : i < o => read[i] = WindowOf(cfg, i, Turns(cfg, i))
  BY <1>3
<1>6. Pool!OutDim = Windows(cfg) /\ Pool!Inputs = 0..(cfg.in - 1)
  BY WindowsOfCase DEF Pool!Inputs
<1>7. \A i \in DOMAIN read : read[i] \subseteq Pool!Inputs
  BY <1>1, <1>3, <1>6, WindowsFinite
<1>8. Pool!TypeOK
  <2>1. k \in 0..(cfg.in + cfg.kernel)
    <3>1. cfg.in \in Nat /\ cfg.kernel \in Nat
      BY <1>1, CaseFields
    <3>2. CASE o = Windows(cfg)
      <4>1. k = 0
        BY <3>2 DEF PoolInv
      <4> QED BY <3>1, <4>1
    <3>3. CASE o # Windows(cfg)
      <4>1. k <= Turns(cfg, o)
        BY <3>3 DEF PoolInv
      <4>2. o \in 0..(Windows(cfg) - 1)
        BY <1>1, <1>2, <3>3
      <4>3. Turns(cfg, o) \in Nat /\ Turns(cfg, o) <= cfg.in + cfg.kernel
        BY <1>1, <4>2, WindowsFit
      <4> QED BY <1>1, <3>1, <4>1, <4>3
    <3> QED BY <3>2, <3>3
  <2>2. valid = IF o = Windows(cfg) THEN 0 ELSE Cardinality(read[o])
    <3>1. CASE o = Windows(cfg)
      BY <3>1 DEF PoolInv
    <3>2. CASE o # Windows(cfg)
      <4>1. o \in 0..(Windows(cfg) - 1)
        BY <1>1, <1>2, <3>2
      <4>2. read[o] = WindowOf(cfg, o, k)
        BY <1>3, <4>1
      <4> QED BY <3>2, <4>2 DEF PoolInv
    <3> QED BY <3>1, <3>2
  <2> QED BY <1>1, <1>4, <1>6, <1>7, <2>1, <2>2, PoolCardinality DEF Pool!TypeOK, Pool!Done
<1>9. Pool!WindowMeetsInput
  BY <1>1, <1>4, <1>5, WindowMeetsImage DEF Pool!WindowMeetsInput
<1>10. Pool!EveryInputRead
  <2> SUFFICES ASSUME Pool!Done, Pool!Covering
               PROVE  UNION {read[i] : i \in DOMAIN read} = Pool!Inputs
    BY DEF Pool!EveryInputRead
  <2>1. o = Windows(cfg)
    BY <1>6 DEF Pool!Done
  <2>2. \A i \in DOMAIN read : read[i] = WindowOf(cfg, i, Turns(cfg, i))
    BY <1>2, <1>4, <1>5, <2>1
  <2>3. ASSUME NEW e \in 0..(cfg.in - 1)
        PROVE  \E i \in 0..(Windows(cfg) - 1) : e \in WindowOf(cfg, i, Turns(cfg, i))
    <3>1. CASE cfg.adaptive
      BY <1>1, <3>1, AdaptiveMeetsAll
    <3>2. CASE ~cfg.adaptive
      BY <1>1, <3>2, CeiledMeetsAll, WindowsOfCase DEF Pool!Covering
    <3> QED BY <3>1, <3>2
  <2> QED BY <1>4, <1>6, <1>7, <2>2, <2>3
<1>11. Pool!FloorIsTight
  <2> SUFFICES ASSUME ~cfg.adaptive, ~cfg.ceil_mode
               PROVE
                 /\ Pool!Start(Pool!OutDim - 1) + Pool!kernel_extent <= cfg.in + cfg.pad
                 /\ Pool!Start(Pool!OutDim) + Pool!kernel_extent > cfg.in + cfg.pad
    BY DEF Pool!FloorIsTight
  <2> DEFINE before == (Windows(cfg) - 1) * StrideOf(cfg)
             after == Windows(cfg) * StrideOf(cfg)
  <2>1. before <= SpanOf(cfg) /\ SpanOf(cfg) < after
    BY <1>1, FlooredWindows
  <2>2. /\ Pool!Start(Pool!OutDim - 1) = before - cfg.pad
        /\ Pool!Start(Pool!OutDim) = after - cfg.pad
    BY <1>6, WindowsOfCase DEF FirstOf
  <2>3. /\ cfg.in \in Nat /\ cfg.pad \in Nat /\ ExtentOf(cfg) \in Nat
        /\ SpanOf(cfg) = cfg.in + 2 * cfg.pad - ExtentOf(cfg)
        /\ Pool!kernel_extent = ExtentOf(cfg)
    BY <1>1, CaseFields, WindowsOfCase DEF SpanOf
  <2>4. before \in Int /\ after \in Int
    BY <1>1, <1>2, CaseFields
  <2> HIDE DEF before, after
  <2> QED BY <2>1, <2>2, <2>3, <2>4
<1> QED BY <1>8, <1>9, <1>10, <1>11

(* For every image, kernel, stride, padding of at most half a kernel and   *)
(* dilation, and every adaptive output: no window of pool.cpp without      *)
(* dilation is padding alone, valid counts the elements read, adaptive     *)
(* windows and gapless ones of ceil_mode take in the whole image, and      *)
(* without ceil_mode the number of windows is the largest that fits.       *)
THEOREM PoolingIsSound == RuntimeSpec => []PoolingSound
<1>1. PoolInv => PoolingSound
  BY PoolInvSound DEF PoolingSound
<1> QED BY <1>1, PoolInitHolds, PoolStepKeeps, PTL DEF RuntimeSpec

-----------------------------------------------------------------------------
(* What is left of a case: the calls still to make lead to its end, or,    *)
(* once one failed, give everything back.                                  *)
Course(m, calls, lost, s, goal) ==
  IF lost
  THEN \E st : /\ Walk(m, calls, st) /\ st[1] = s /\ Given(st[Len(calls) + 1])
               /\ \A i \in 1..Len(calls) : calls[i].call \in GiveBacks
  ELSE \E st : Conducts(m, calls, st) /\ st[1] = s /\ st[Len(calls) + 1] \in goal

LEMMA CourseStep ==
  ASSUME NEW m, NEW calls, calls # <<>>, NEW lost \in BOOLEAN, NEW s, NEW goal,
         Course(m, calls, lost, s, goal)
  PROVE  /\ Allowed(m, Head(calls).call, s)
         /\ s \in CaseState /\ After(Head(calls).call, s) \in CaseState
         /\ Head(calls).call \in Names
         /\ lost => Head(calls).call \in GiveBacks
         /\ ~lost /\ Head(calls).call \in MayFail => Course(m, Sure(Head(calls).undo), TRUE, s, goal)
         /\ Course(m, Tail(calls), lost, After(Head(calls).call, s), goal)
<1>1. CASE lost
  <2>1. PICK st : /\ Walk(m, calls, st) /\ st[1] = s /\ Given(st[Len(calls) + 1])
                  /\ \A i \in 1..Len(calls) : calls[i].call \in GiveBacks
    BY <1>1 DEF Course
  <2>2. PICK next : /\ Walk(m, Tail(calls), next)
                    /\ next[1] = After(Head(calls).call, st[1])
                    /\ next[Len(Tail(calls)) + 1] = st[Len(calls) + 1]
                    /\ \A i \in 1..Len(Tail(calls)) :
                         /\ Tail(calls)[i] = calls[i + 1] /\ next[i] = st[i + 1]
                         /\ i + 1 \in 1..Len(calls)
    BY <2>1, WalkTail
  <2>3. /\ Allowed(m, Head(calls).call, s)
        /\ s \in CaseState /\ After(Head(calls).call, s) \in CaseState
    BY <2>1, WalkTail
  <2>4. 1 \in 1..Len(calls) /\ Head(calls) = calls[1] /\ calls[1] \in Calls
    BY <2>1 DEF Walk, Scripts
  <2>5. Head(calls).call \in Names /\ Head(calls).call \in GiveBacks
    BY <2>1, <2>4 DEF Calls
  <2>6. \A i \in 1..Len(Tail(calls)) : Tail(calls)[i].call \in GiveBacks
    BY <2>1, <2>2
  <2>7. Course(m, Tail(calls), lost, After(Head(calls).call, s), goal)
    BY <1>1, <2>1, <2>2, <2>6 DEF Course
  <2> QED BY <1>1, <2>3, <2>5, <2>7
<1>2. CASE ~lost
  <2>1. PICK st : Conducts(m, calls, st) /\ st[1] = s /\ st[Len(calls) + 1] \in goal
    BY <1>2 DEF Course
  <2>2. /\ Allowed(m, Head(calls).call, s)
        /\ s \in CaseState /\ After(Head(calls).call, s) \in CaseState
    BY <2>1, WalkTail DEF Conducts
  <2>3. Head(calls) = calls[1] /\ calls[1] \in Calls
    BY <2>1 DEF Conducts, Walk, Scripts
  <2>4. Recovers(m, Head(calls), s)
        /\ \E next : /\ Conducts(m, Tail(calls), next)
                     /\ next[1] = After(Head(calls).call, s)
                     /\ next[Len(Tail(calls)) + 1] \in goal
    BY <2>1, ConductsTail
  <2>5. ASSUME Head(calls).call \in MayFail
        PROVE  Course(m, Sure(Head(calls).undo), TRUE, s, goal)
    <3> DEFINE undo == Head(calls).undo
    <3>1. Unwinds(m, undo, s)
      BY <2>4, <2>5 DEF Recovers
    <3>2. undo \in Seq(GiveBacks)
      BY <3>1 DEF Unwinds
    <3>3. PICK back : /\ Walk(m, Sure(undo), back) /\ back[1] = s
                      /\ Given(back[Len(Sure(undo)) + 1])
      BY <3>1 DEF Unwinds
    <3> HIDE DEF undo
    <3>4. undo \in Seq(Names) /\ \A i \in 1..Len(undo) : undo[i] \in GiveBacks
      <4>1. GiveBacks \subseteq Names
        BY SureCalls
      <4>2. undo \in Seq(Names)
        BY <3>2, <4>1, SeqMonotonic
      <4>3. \A i \in 1..Len(undo) : undo[i] \in GiveBacks
        BY <3>2, ElementOfSeq
      <4> QED BY <4>2, <4>3
    <3>5. /\ Len(Sure(undo)) = Len(undo)
          /\ \A i \in 1..Len(undo) : Sure(undo)[i] = Step(undo[i], <<>>)
      BY <3>4, UndoTyped, StepsAre DEF Sure
    <3>6. \A i \in 1..Len(Sure(undo)) : Sure(undo)[i].call \in GiveBacks
      <4> SUFFICES ASSUME NEW i \in 1..Len(Sure(undo))
                   PROVE  Sure(undo)[i].call \in GiveBacks
        OBVIOUS
      <4>1. i \in 1..Len(undo)
        BY <3>5
      <4>2. Sure(undo)[i] = Step(undo[i], <<>>) /\ undo[i] \in GiveBacks
        BY <3>4, <3>5, <4>1
      <4> QED BY <4>2 DEF Step
    <3>7. Course(m, Sure(undo), TRUE, s, goal)
      BY <3>3, <3>6 DEF Course
    <3> QED BY <3>7 DEF undo
  <2>6. Course(m, Tail(calls), lost, After(Head(calls).call, s), goal)
    BY <1>2, <2>4 DEF Course
  <2>7. Head(calls).call \in Names
    BY <2>3 DEF Calls
  <2> QED BY <1>2, <2>2, <2>5, <2>6, <2>7
<1> QED BY <1>1, <1>2

LEMMA CourseEnd ==
  ASSUME NEW m, NEW lost \in BOOLEAN, NEW s, NEW goal, Course(m, <<>>, lost, s, goal)
  PROVE  (lost => Given(s)) /\ (~lost => s \in goal)
<1>1. Len(<<>>) + 1 = 1
  OBVIOUS
<1> QED BY <1>1 DEF Course

LEMMA CourseBegins ==
  ASSUME NEW m, NEW calls, NEW goal, Leads(m, Unstarted(m), calls, goal), NEW s \in Unstarted(m)
  PROVE  Course(m, calls, FALSE, s, goal)
BY DEF Leads, Course

-----------------------------------------------------------------------------
(* The invariant of a program at work.                                     *)
Mode == [whole |-> Elements = size, strict |-> name \in Finite]

Matches(s) ==
  /\ s.ctx = ctx /\ s.fed = fed /\ s.ran = ran /\ s.held = held /\ s.mems = mems
  /\ s.out => output \in [1..Elements -> Values]
  /\ Len(result) <= s.taken
  /\ s.clean => \A i \in DOMAIN output : output[i] # "nan"
  /\ s.sure => \A i \in DOMAIN result : result[i] # "nan"
  /\ s.compared <=> verdict # "none"

ProgramTyped ==
  /\ name \in Programs /\ alone \in BOOLEAN /\ unmatched \in BOOLEAN /\ failed \in BOOLEAN
  /\ cases \in 0..MaxCases /\ size \in {0} \cup P.sizes
  /\ model \in {"exact", "generic", "absent"} /\ kind \in Kinds
  /\ output \in Seq(Values) /\ Len(output) <= Many
  /\ result \in Seq(Values) /\ Len(result) <= Many
  /\ verdict \in {"none", "yes", "no"} /\ status \in {"ok", "failed"}
  /\ exit \in {"running", "ok", "failed"}
  /\ ctx \in BOOLEAN /\ fed \in BOOLEAN /\ ran \in BOOLEAN /\ held \in BOOLEAN /\ mems \in 0..3

BetweenCases ==
  /\ exit # "running" => size = 0
  /\ size = 0 => rest = <<>> /\ ~ctx /\ ~fed /\ ~ran /\ ~held /\ mems = 0

StatusInv ==
  /\ cases = 0 => size = 0 /\ ~unmatched
  /\ unmatched /\ P.exit = "status" => status = "failed"
  /\ OkMeansMatched

OnCourse ==
  size # 0 => \E s \in CaseState : Matches(s) /\ Course(Mode, rest, failed, s, End(P))

RuntimeInv ==
  /\ ProgramTyped /\ BetweenCases /\ StatusInv /\ OnCourse
  /\ name \in Finite => YesMeansRight

-----------------------------------------------------------------------------
LEMMA SizesFit ==
  ASSUME Programs \subseteq Tidy, ProgramTyped
  PROVE  /\ Fit(P, name \in Finite) /\ P.sizes \subseteq Totals
         /\ size \in 0..Many /\ Elements \in 0..Many /\ Mode \in Modes
<1>1. Fit(P, name \in Finite)
  BY ProgramsFit DEF ProgramTyped, P
<1>2. P.sizes \subseteq Totals
  BY <1>1 DEF Fit
<1>3. size \in 0..Many /\ Elements \in 0..Many
  BY <1>2, ManyAssumption DEF ProgramTyped, Totals, Elements
<1>4. Mode \in Modes
  BY DEF Mode, Modes
<1> QED BY <1>1, <1>2, <1>3, <1>4

(* Where a program is at a call.                                           *)
LEMMA AtCall ==
  ASSUME RuntimeInv, NEW calls, Calling(calls)
  PROVE  /\ size # 0 /\ Head(rest).call \in calls
         /\ \E s \in CaseState :
              /\ Matches(s) /\ Allowed(Mode, Head(rest).call, s)
              /\ After(Head(rest).call, s) \in CaseState
              /\ failed => Head(rest).call \in GiveBacks
              /\ ~failed /\ Head(rest).call \in MayFail
                   => Course(Mode, Sure(Head(rest).undo), TRUE, s, End(P))
              /\ Course(Mode, Tail(rest), failed, After(Head(rest).call, s), End(P))
<1>1. size # 0 /\ rest # <<>> /\ Head(rest).call \in calls
  BY DEF RuntimeInv, BetweenCases, Calling
<1>2. PICK s \in CaseState : Matches(s) /\ Course(Mode, rest, failed, s, End(P))
  BY <1>1 DEF RuntimeInv, OnCourse
<1>3. failed \in BOOLEAN
  BY DEF RuntimeInv, ProgramTyped
<1> QED BY <1>1, <1>2, <1>3, CourseStep

LEMMA Advances ==
  ASSUME RuntimeInv, NEW calls, Calling(calls), Advance, UNCHANGED Rest,
         NEW c, c = Head(rest).call,
         \A s \in CaseState : Matches(s) /\ Allowed(Mode, c, s) => Matches(After(c, s))'
  PROVE  /\ OnCourse' /\ BetweenCases' /\ failed' = failed /\ size # 0
         /\ ctx' \in BOOLEAN /\ fed' \in BOOLEAN /\ ran' \in BOOLEAN /\ held' \in BOOLEAN
         /\ mems' \in 0..3
<1>1. PICK s \in CaseState :
        /\ Matches(s) /\ Allowed(Mode, c, s) /\ After(c, s) \in CaseState
        /\ Course(Mode, Tail(rest), failed, After(c, s), End(P))
  BY AtCall
<1>2. size # 0
  BY AtCall
<1>3. /\ rest' = Tail(rest) /\ failed' = failed /\ size' = size /\ exit' = exit
      /\ name' = name /\ model' = model
  BY DEF Advance, Rest, progress
<1>4. Mode' = Mode /\ P' = P
  BY <1>3 DEF Mode, P, Elements
<1> DEFINE t == After(c, s)
<1>5. t \in CaseState /\ Matches(t)'
  BY <1>1
<1> HIDE DEF t
<1>6. Course(Mode', rest', failed', t, End(P'))
  BY <1>1, <1>3, <1>4 DEF t
<1>7. OnCourse'
  BY <1>5, <1>6 DEF OnCourse
<1>8. BetweenCases'
  BY <1>2, <1>3 DEF BetweenCases, RuntimeInv
<1>9. /\ ctx' \in BOOLEAN /\ fed' \in BOOLEAN /\ ran' \in BOOLEAN /\ held' \in BOOLEAN
      /\ mems' \in 0..3
  BY <1>5 DEF Matches, CaseState
<1> QED BY <1>2, <1>3, <1>7, <1>8, <1>9

LEMMA GivesUp ==
  ASSUME RuntimeInv, NEW calls \in SUBSET MayFail, Calling(calls), Unwind,
         UNCHANGED <<output, result, verdict, Rest, session>>
  PROVE  RuntimeInv'
<1>1. /\ size # 0
      /\ \E s \in CaseState :
           /\ Matches(s)
           /\ failed => Head(rest).call \in GiveBacks
           /\ ~failed /\ Head(rest).call \in MayFail
                => Course(Mode, Sure(Head(rest).undo), TRUE, s, End(P))
  BY AtCall
<1>2. Head(rest).call \in MayFail /\ Head(rest).call \notin GiveBacks
  <2>1. Head(rest).call \in MayFail
    BY DEF Calling
  <2>2. \A c \in MayFail : c \notin GiveBacks
    BY SureCalls
  <2> QED BY <2>1, <2>2
<1>3. failed \in BOOLEAN
  BY DEF RuntimeInv, ProgramTyped
<1>4. PICK s \in CaseState : Matches(s) /\ Course(Mode, Sure(Head(rest).undo), TRUE, s, End(P))
  BY <1>1, <1>2, <1>3
<1>5. /\ rest' = Sure(Head(rest).undo) /\ failed' = TRUE /\ size' = size /\ exit' = exit
      /\ name' = name /\ model' = model /\ kind' = kind /\ alone' = alone /\ cases' = cases
      /\ status' = status /\ unmatched' = unmatched
      /\ output' = output /\ result' = result /\ verdict' = verdict
      /\ ctx' = ctx /\ fed' = fed /\ ran' = ran /\ held' = held /\ mems' = mems
  BY DEF Unwind, Rest, progress, session
<1>6. Mode' = Mode /\ P' = P /\ Elements' = Elements /\ Values' = Values
  BY <1>5 DEF Mode, P, Elements, Values
<1>7. ProgramTyped'
  BY <1>5, <1>6 DEF RuntimeInv, ProgramTyped
<1>8. BetweenCases'
  BY <1>1, <1>5 DEF RuntimeInv, BetweenCases
<1>9. StatusInv' /\ (name \in Finite => YesMeansRight)'
  BY <1>5, <1>6 DEF RuntimeInv, StatusInv, OkMeansMatched, YesMeansRight
<1>10. Matches(s)'
  BY <1>4, <1>5, <1>6 DEF Matches
<1>11. OnCourse'
  BY <1>4, <1>5, <1>6, <1>10 DEF OnCourse
<1> QED BY <1>7, <1>8, <1>9, <1>11 DEF RuntimeInv

LEMMA CallFailsKeeps ==
  ASSUME RuntimeInv, CallFails
  PROVE  RuntimeInv'
<1>1. Fallible \in SUBSET MayFail
  BY DEF MayFail
<1> QED BY <1>1, GivesUp DEF CallFails

(* The calls that touch neither output nor result.                         *)
Plain == {"load", "query", "check", "fill", "convert", "set_io_mem", "mem_sync", "init", "set",
          "bind", "run", "create_mem", "type", "size"}

LEMMA PlainAdvances ==
  ASSUME RuntimeInv, NEW calls \in SUBSET Plain, Calling(calls), Advance,
         UNCHANGED <<output, result, verdict, Rest>>,
         NEW c, c = Head(rest).call,
         /\ ctx' = (ctx \/ c = "init") /\ fed' = (fed \/ c \in {"set", "bind"})
         /\ ran' = ((ran /\ c \notin {"set", "bind"}) \/ c = "run") /\ held' = held
         /\ mems' = IF c = "create_mem" THEN mems + 1 ELSE mems
  PROVE  RuntimeInv'
<1>1. c \in Plain
  BY DEF Calling
<1>2. /\ name' = name /\ model' = model /\ kind' = kind /\ alone' = alone /\ cases' = cases
      /\ size' = size /\ exit' = exit /\ status' = status /\ unmatched' = unmatched
      /\ output' = output /\ result' = result /\ verdict' = verdict
  BY DEF Rest, progress
<1>3. P' = P /\ Elements' = Elements /\ Values' = Values
  BY <1>2 DEF P, Elements, Values
<1>4. ASSUME NEW s \in CaseState, Matches(s)
      PROVE  Matches(After(c, s))'
  <2> DEFINE t == After(c, s)
  <2>1. /\ t.ctx = (s.ctx \/ c = "init") /\ t.fed = (s.fed \/ c \in {"set", "bind"})
        /\ t.ran = ((s.ran /\ c \notin {"set", "bind"}) \/ c = "run") /\ t.held = s.held
        /\ t.mems = IF c = "create_mem" THEN s.mems + 1 ELSE s.mems
    BY <1>1 DEF Plain, After, CaseState
  <2>2. /\ t.out = s.out /\ t.taken = s.taken /\ t.clean = s.clean /\ t.sure = s.sure
        /\ t.compared = s.compared
    BY <1>1 DEF Plain, After
  <2> HIDE DEF t
  <2>3. t.ctx = ctx' /\ t.fed = fed' /\ t.ran = ran' /\ t.held = held' /\ t.mems = mems'
    BY <1>4, <2>1 DEF Matches
  <2>4. /\ t.out => output' \in [1..Elements' -> Values']
        /\ Len(result') <= t.taken
        /\ t.clean => \A i \in DOMAIN output' : output'[i] # "nan"
        /\ t.sure => \A i \in DOMAIN result' : result'[i] # "nan"
        /\ t.compared <=> verdict' # "none"
    BY <1>2, <1>3, <1>4, <2>2 DEF Matches
  <2>5. Matches(t)'
    BY <2>3, <2>4 DEF Matches
  <2> QED BY <2>5 DEF t
<1>5. /\ OnCourse' /\ BetweenCases' /\ failed' = failed
      /\ ctx' \in BOOLEAN /\ fed' \in BOOLEAN /\ ran' \in BOOLEAN /\ held' \in BOOLEAN
      /\ mems' \in 0..3
  BY <1>4, Advances
<1>6. ProgramTyped'
  BY <1>2, <1>3, <1>5 DEF RuntimeInv, ProgramTyped
<1>7. StatusInv' /\ (name \in Finite => YesMeansRight)'
  BY <1>2, <1>3 DEF RuntimeInv, StatusInv, OkMeansMatched, YesMeansRight
<1> QED BY <1>5, <1>6, <1>7 DEF RuntimeInv

LEMMA PlainCallsKeep ==
  ASSUME RuntimeInv, Asks \/ OpenContext \/ SetInputs \/ RunModel \/ CreateMem
  PROVE  RuntimeInv'
<1>1. ctx \in BOOLEAN /\ fed \in BOOLEAN /\ ran \in BOOLEAN
  BY DEF RuntimeInv, ProgramTyped
<1>2. CASE Asks
  <2> DEFINE c == Head(rest).call
             calls == {"load", "query", "check", "fill", "convert", "set_io_mem", "mem_sync"}
  <2>1. Calling(calls) /\ Advance /\ UNCHANGED <<output, result, verdict, Rest>>
        /\ UNCHANGED <<ctx, fed, ran, held, mems>>
    BY <1>2 DEF Asks, session
  <2>2. calls \in SUBSET Plain
    BY DEF Plain
  <2>3. c \in calls
    BY <2>1 DEF Calling
  <2>4. c \notin {"init", "set", "bind", "run", "create_mem"}
    BY <2>3
  <2> HIDE DEF c, calls
  <2> QED BY <1>1, <2>1, <2>2, <2>4, PlainAdvances DEF c
<1>3. CASE OpenContext
  <2> DEFINE c == Head(rest).call
             calls == {"init"}
  <2>1. Calling(calls) /\ Advance /\ UNCHANGED <<output, result, verdict, Rest>>
        /\ ctx' = TRUE /\ UNCHANGED <<fed, ran, held, mems>>
    BY <1>3 DEF OpenContext
  <2>2. calls \in SUBSET Plain
    BY DEF Plain
  <2>3. c = "init"
    BY <2>1 DEF Calling
  <2> HIDE DEF c, calls
  <2> QED BY <1>1, <2>1, <2>2, <2>3, PlainAdvances DEF c
<1>4. CASE SetInputs
  <2> DEFINE c == Head(rest).call
             calls == {"set", "bind"}
  <2>1. Calling(calls) /\ Advance /\ UNCHANGED <<output, result, verdict, Rest>>
        /\ fed' = TRUE /\ ran' = FALSE /\ UNCHANGED <<ctx, held, mems>>
    BY <1>4 DEF SetInputs
  <2>2. calls \in SUBSET Plain
    BY DEF Plain
  <2>3. c \in {"set", "bind"} /\ c # "init" /\ c # "run" /\ c # "create_mem"
    BY <2>1 DEF Calling
  <2> HIDE DEF c, calls
  <2> QED BY <1>1, <2>1, <2>2, <2>3, PlainAdvances DEF c
<1>5. CASE RunModel
  <2> DEFINE c == Head(rest).call
             calls == {"run"}
  <2>1. Calling(calls) /\ Advance /\ UNCHANGED <<output, result, verdict, Rest>>
        /\ ran' = TRUE /\ UNCHANGED <<ctx, fed, held, mems>>
    BY <1>5 DEF RunModel
  <2>2. calls \in SUBSET Plain
    BY DEF Plain
  <2>3. c = "run"
    BY <2>1 DEF Calling
  <2> HIDE DEF c, calls
  <2> QED BY <1>1, <2>1, <2>2, <2>3, PlainAdvances DEF c
<1>6. CASE CreateMem
  <2> DEFINE c == Head(rest).call
             calls == {"create_mem"}
  <2>1. Calling(calls) /\ Advance /\ UNCHANGED <<output, result, verdict, Rest>>
        /\ mems' = mems + 1 /\ UNCHANGED <<ctx, fed, ran, held>>
    BY <1>6 DEF CreateMem
  <2>2. calls \in SUBSET Plain
    BY DEF Plain
  <2>3. c = "create_mem"
    BY <2>1 DEF Calling
  <2> HIDE DEF c, calls
  <2> QED BY <1>1, <2>1, <2>2, <2>3, PlainAdvances DEF c
<1> QED BY <1>2, <1>3, <1>4, <1>5, <1>6

(* The parts of the invariant that calls which end up in Advances share.   *)
LEMMA AdvancesKeep ==
  ASSUME RuntimeInv, OnCourse', BetweenCases', failed' = failed, UNCHANGED Rest,
         ctx' \in BOOLEAN, fed' \in BOOLEAN, ran' \in BOOLEAN, held' \in BOOLEAN, mems' \in 0..3,
         output' \in Seq(Values), Len(output') <= Many,
         result' \in Seq(Values), Len(result') <= Many,
         verdict' \in {"none", "yes", "no"},
         name \in Finite /\ verdict' = "yes" => \A i \in DOMAIN result' : result'[i] = "right"
  PROVE  RuntimeInv'
<1>1. /\ name' = name /\ model' = model /\ kind' = kind /\ alone' = alone /\ cases' = cases
      /\ size' = size /\ exit' = exit /\ status' = status /\ unmatched' = unmatched
  BY DEF Rest, progress
<1>2. P' = P /\ Values' = Values
  BY <1>1 DEF P, Values
<1>3. ProgramTyped'
  BY <1>1, <1>2 DEF RuntimeInv, ProgramTyped
<1>4. StatusInv'
  BY <1>1, <1>2 DEF RuntimeInv, StatusInv, OkMeansMatched
<1>5. (name \in Finite => YesMeansRight)'
  BY <1>1 DEF YesMeansRight
<1> QED BY <1>3, <1>4, <1>5 DEF RuntimeInv

LEMMA TestOutputKeeps ==
  ASSUME RuntimeInv, TestOutput
  PROVE  RuntimeInv'
<1>0. PICK c : c = Head(rest).call
  OBVIOUS
<1>1. /\ Calling({"type", "size", "finite"}) /\ c \in {"type", "size", "finite"}
      /\ UNCHANGED <<output, result, verdict, Rest, session>>
      /\ IF Passes(c) THEN Advance ELSE Unwind
  BY <1>0 DEF TestOutput, Calling
<1>2. CASE ~Passes(c)
  <2>1. {"type", "size", "finite"} \in SUBSET MayFail
    BY DEF MayFail
  <2> QED BY <1>1, <1>2, <2>1, GivesUp
<1>3. CASE Passes(c)
  <2>1. c = "finite" => \A i \in DOMAIN output : output[i] # "nan"
    BY <1>3 DEF Passes
  <2>2. /\ name' = name /\ model' = model /\ kind' = kind /\ size' = size
        /\ output' = output /\ result' = result /\ verdict' = verdict
        /\ ctx' = ctx /\ fed' = fed /\ ran' = ran /\ held' = held /\ mems' = mems
    BY <1>1 DEF Rest, session
  <2>3. Elements' = Elements /\ Values' = Values
    BY <2>2 DEF Elements, Values
  <2>4. ASSUME NEW s \in CaseState, Matches(s)
        PROVE  Matches(After(c, s))'
    <3> DEFINE t == After(c, s)
    <3>1. /\ t.ctx = s.ctx /\ t.fed = s.fed /\ t.ran = s.ran /\ t.held = s.held /\ t.mems = s.mems
          /\ t.out = s.out /\ t.taken = s.taken /\ t.sure = s.sure /\ t.compared = s.compared
          /\ t.clean = IF c = "finite" THEN TRUE ELSE s.clean
      BY <1>1 DEF After
    <3> HIDE DEF t
    <3>2. Matches(t)'
      BY <2>1, <2>2, <2>3, <2>4, <3>1 DEF Matches
    <3> QED BY <3>2 DEF t
  <2>5. Advance /\ UNCHANGED Rest
    BY <1>1, <1>3
  <2>6. /\ OnCourse' /\ BetweenCases' /\ failed' = failed
        /\ ctx' \in BOOLEAN /\ fed' \in BOOLEAN /\ ran' \in BOOLEAN /\ held' \in BOOLEAN
        /\ mems' \in 0..3
    BY <1>0, <1>1, <2>4, <2>5, Advances
  <2>7. /\ output' \in Seq(Values) /\ Len(output') <= Many
        /\ result' \in Seq(Values) /\ Len(result') <= Many /\ verdict' \in {"none", "yes", "no"}
        /\ name \in Finite /\ verdict' = "yes" => \A i \in DOMAIN result' : result'[i] = "right"
    BY <2>2 DEF RuntimeInv, ProgramTyped, YesMeansRight
  <2> QED BY <2>5, <2>6, <2>7, AdvancesKeep
<1> QED BY <1>2, <1>3

LEMMA GetOutputKeeps ==
  ASSUME Programs \subseteq Tidy, RuntimeInv, GetOutput
  PROVE  RuntimeInv'
<1>0. PICK c : c = Head(rest).call
  OBVIOUS
<1>1. /\ Calling({"get", "read_mem"}) /\ c \in {"get", "read_mem"}
      /\ output' \in [1..Elements -> Values] /\ held' = (held \/ c = "get")
      /\ Advance /\ UNCHANGED <<result, verdict, Rest, ctx, fed, ran, mems>>
  BY <1>0 DEF GetOutput, Calling
<1>2. /\ name' = name /\ model' = model /\ kind' = kind /\ size' = size
      /\ result' = result /\ verdict' = verdict
      /\ ctx' = ctx /\ fed' = fed /\ ran' = ran /\ mems' = mems
  BY <1>1 DEF Rest
<1>3. Elements' = Elements /\ Values' = Values
  BY <1>2 DEF Elements, Values
<1>4. held \in BOOLEAN
  BY DEF RuntimeInv, ProgramTyped
<1>5. ASSUME NEW s \in CaseState, Matches(s)
      PROVE  Matches(After(c, s))'
  <2> DEFINE t == After(c, s)
  <2>1. /\ t.ctx = s.ctx /\ t.fed = s.fed /\ t.ran = s.ran /\ t.mems = s.mems
        /\ t.held = (IF c = "get" THEN TRUE ELSE s.held)
        /\ t.out = TRUE /\ t.clean = FALSE
        /\ t.taken = s.taken /\ t.sure = s.sure /\ t.compared = s.compared
    BY <1>1 DEF After
  <2> HIDE DEF t
  <2>2. t.held = held'
    BY <1>1, <1>4, <1>5, <2>1 DEF Matches
  <2>3. Matches(t)'
    BY <1>1, <1>2, <1>3, <1>5, <2>1, <2>2 DEF Matches
  <2> QED BY <2>3 DEF t
<1>6. Advance /\ UNCHANGED Rest
  BY <1>1
<1>7. /\ OnCourse' /\ BetweenCases' /\ failed' = failed
      /\ ctx' \in BOOLEAN /\ fed' \in BOOLEAN /\ ran' \in BOOLEAN /\ held' \in BOOLEAN
      /\ mems' \in 0..3
  BY <1>0, <1>1, <1>5, <1>6, Advances
<1>8. output' \in Seq(Values) /\ Len(output') <= Many
  <2>1. Elements \in Nat /\ Elements <= Many
    BY SizesFit, ManyAssumption DEF RuntimeInv
  <2> QED BY <1>1, <2>1
<1>9. /\ result' \in Seq(Values) /\ Len(result') <= Many /\ verdict' \in {"none", "yes", "no"}
      /\ name \in Finite /\ verdict' = "yes" => \A i \in DOMAIN result' : result'[i] = "right"
  BY <1>2 DEF RuntimeInv, ProgramTyped, YesMeansRight
<1> QED BY <1>6, <1>7, <1>8, <1>9, AdvancesKeep

(* The calls that give something back.                                     *)
LEMMA GivingBackKeeps ==
  ASSUME RuntimeInv, ReleaseOutput \/ DestroyMem \/ DestroyContext
  PROVE  RuntimeInv'
<1>0. PICK c : c = Head(rest).call
  OBVIOUS
<1>1. /\ Calling({"release", "destroy_mem", "destroy"})
      /\ c \in {"release", "destroy_mem", "destroy"}
      /\ output' = <<>> /\ Advance /\ UNCHANGED <<result, verdict, Rest>>
      /\ held' = (IF c = "release" THEN FALSE ELSE held)
      /\ mems' = (IF c = "destroy_mem" THEN mems - 1 ELSE mems)
      /\ ctx' = (IF c = "destroy" THEN FALSE ELSE ctx)
      /\ fed' = (IF c = "destroy" THEN FALSE ELSE fed)
      /\ ran' = (IF c = "destroy" THEN FALSE ELSE ran)
  BY <1>0 DEF ReleaseOutput, DestroyMem, DestroyContext, Calling
<1>2. /\ name' = name /\ model' = model /\ kind' = kind /\ size' = size
      /\ result' = result /\ verdict' = verdict
  BY <1>1 DEF Rest
<1>3. DOMAIN output' = {} /\ output' \in Seq(Values) /\ Len(output') = 0
  BY <1>1
<1>4. ASSUME NEW s \in CaseState, Matches(s)
      PROVE  Matches(After(c, s))'
  <2> DEFINE t == After(c, s)
  <2>1. /\ t.held = (IF c = "release" THEN FALSE ELSE s.held)
        /\ t.mems = (IF c = "destroy_mem" THEN s.mems - 1 ELSE s.mems)
        /\ t.ctx = (IF c = "destroy" THEN FALSE ELSE s.ctx)
        /\ t.fed = (IF c = "destroy" THEN FALSE ELSE s.fed)
        /\ t.ran = (IF c = "destroy" THEN FALSE ELSE s.ran)
        /\ t.out = FALSE /\ t.clean = s.clean
        /\ t.taken = s.taken /\ t.sure = s.sure /\ t.compared = s.compared
    BY <1>1 DEF After
  <2> HIDE DEF t
  <2>2. Matches(t)'
    BY <1>1, <1>2, <1>3, <1>4, <2>1 DEF Matches
  <2> QED BY <2>2 DEF t
<1>5. Advance /\ UNCHANGED Rest
  BY <1>1
<1>6. /\ OnCourse' /\ BetweenCases' /\ failed' = failed
      /\ ctx' \in BOOLEAN /\ fed' \in BOOLEAN /\ ran' \in BOOLEAN /\ held' \in BOOLEAN
      /\ mems' \in 0..3
  BY <1>0, <1>1, <1>4, <1>5, Advances
<1>7. /\ result' \in Seq(Values) /\ Len(result') <= Many /\ verdict' \in {"none", "yes", "no"}
      /\ name \in Finite /\ verdict' = "yes" => \A i \in DOMAIN result' : result'[i] = "right"
  BY <1>2 DEF RuntimeInv, ProgramTyped, YesMeansRight
<1>8. Len(output') <= Many
  BY <1>3, ManyAssumption
<1> QED BY <1>3, <1>5, <1>6, <1>7, <1>8, AdvancesKeep

(* What a read finds in the buffer.                                        *)
LEMMA FoundInside ==
  ASSUME output \in [1..Elements -> Values], NEW i \in 1..Elements
  PROVE  Found(i) = output[i] /\ Found(i) \in Values /\ i \in DOMAIN output
BY DEF Found

LEMMA ValuesAre ==
  Values \subseteq {"right", "wrong", "nan"} /\ "right" \in Values /\ "wrong" \in Values
BY DEF Values

LEMMA ReadOutputKeeps ==
  ASSUME Programs \subseteq Tidy, RuntimeInv, ReadOutput
  PROVE  RuntimeInv'
<1>0. PICK c : c = Head(rest).call
  OBVIOUS
<1> DEFINE reads == {"copy", "copy_int", "take"}
<1>1. /\ Calling(reads) /\ c \in reads /\ Advance /\ UNCHANGED <<output, verdict, Rest, session>>
      /\ c = "copy" => result' = [i \in 1..size |-> Found(i)]
      /\ c = "copy_int" => /\ result' \in [1..size -> {"right", "wrong", "stray"}]
                           /\ \A i \in 1..size : result'[i] \in AsInteger(Found(i))
      /\ c = "take" => result' = Append(result, Found(1))
  BY <1>0 DEF ReadOutput, Calling
<1> HIDE DEF reads
<1>2. /\ name' = name /\ model' = model /\ kind' = kind /\ size' = size
      /\ output' = output /\ verdict' = verdict
      /\ ctx' = ctx /\ fed' = fed /\ ran' = ran /\ held' = held /\ mems' = mems
  BY <1>1 DEF Rest, session
<1>3. Elements' = Elements /\ Values' = Values
  BY <1>2 DEF Elements, Values
<1>4. size # 0
  BY <1>1, AtCall
<1>5. size \in 1..Many /\ Elements \in 1..Many /\ Many \in Nat
  <2>1. size \in 0..Many
    BY SizesFit DEF RuntimeInv
  <2> QED BY <1>4, <2>1, ManyAssumption DEF Elements
<1>6. ASSUME NEW s \in CaseState, Matches(s), Allowed(Mode, c, s)
      PROVE  /\ Matches(After(c, s))' /\ verdict = "none"
             /\ result' \in Seq(Values) /\ Len(result') <= Many
  <2> DEFINE t == After(c, s)
  <2>1. s.out /\ ~s.compared /\ output \in [1..Elements -> Values] /\ verdict = "none"
    BY <1>1, <1>6 DEF Allowed, Matches, reads
  <2>2. /\ t.ctx = s.ctx /\ t.fed = s.fed /\ t.ran = s.ran /\ t.held = s.held /\ t.mems = s.mems
        /\ t.out = s.out /\ t.clean = s.clean /\ t.compared = s.compared
        /\ t.taken = (IF c = "take" THEN s.taken + 1 ELSE Many)
        /\ t.sure = (IF c = "take" THEN s.sure /\ s.clean ELSE s.clean)
    BY <1>1 DEF After, reads
  <2> HIDE DEF t
  <2>3. /\ result' \in Seq(Values) /\ Len(result') <= Many /\ Len(result') <= t.taken
        /\ t.sure => \A i \in DOMAIN result' : result'[i] # "nan"
    <3>1. CASE c = "copy"
      <4>1. Elements = size
        BY <1>6, <3>1 DEF Allowed, Mode
      <4>2. \A i \in 1..size : Found(i) = output[i] /\ Found(i) \in Values /\ i \in DOMAIN output
        BY <2>1, <4>1, FoundInside
      <4>3. result' \in [1..size -> Values] /\ \A i \in 1..size : result'[i] = output[i]
        BY <1>1, <3>1, <4>2
      <4>4. result' \in Seq(Values) /\ Len(result') = size /\ DOMAIN result' = 1..size
        BY <1>5, <4>3
      <4>5. s.clean => \A i \in 1..size : output[i] # "nan"
        BY <1>6, <4>2 DEF Matches
      <4>6. t.taken = Many /\ t.sure = s.clean
        BY <2>2, <3>1
      <4> QED BY <1>5, <4>3, <4>4, <4>5, <4>6
    <3>2. CASE c = "copy_int"
      <4>1. Elements = size
        BY <1>6, <3>2 DEF Allowed, Mode
      <4>2. \A i \in 1..size : Found(i) \in Values
        BY <2>1, <4>1, FoundInside
      <4>3. ASSUME NEW i \in 1..size
            PROVE  result'[i] \in Values /\ result'[i] # "nan"
        <5>1. result'[i] \in {"right", "wrong", "stray"} /\ result'[i] \in AsInteger(Found(i))
          BY <1>1, <3>2
        <5> QED BY <4>2, <5>1, ValuesAre DEF AsInteger
      <4>4. result' \in [1..size -> Values]
        BY <1>1, <3>2, <4>3
      <4>5. result' \in Seq(Values) /\ Len(result') = size /\ DOMAIN result' = 1..size
        BY <1>5, <4>4
      <4>6. t.taken = Many
        BY <2>2, <3>2
      <4> QED BY <1>5, <4>3, <4>5, <4>6
    <3>3. CASE c = "take"
      <4>1. /\ result' = Append(result, Found(1)) /\ result \in Seq(Values)
            /\ Len(result) <= s.taken /\ s.taken < Many /\ s.taken \in 0..Many
            /\ s.sure => \A i \in DOMAIN result : result[i] # "nan"
        BY <1>1, <1>6, <3>3 DEF RuntimeInv, ProgramTyped, Matches, Allowed, CaseState
      <4>2. 1 \in 1..Elements
        BY <1>5
      <4>3. Found(1) = output[1] /\ Found(1) \in Values /\ 1 \in DOMAIN output
        BY <2>1, <4>2, FoundInside
      <4>4. s.clean => Found(1) # "nan"
        BY <1>6, <4>3 DEF Matches
      <4>5. /\ result' \in Seq(Values) /\ Len(result') = Len(result) + 1 /\ Len(result) \in Nat
            /\ DOMAIN result = 1..Len(result) /\ DOMAIN result' = 1..(Len(result) + 1)
            /\ \A i \in 1..Len(result) : result'[i] = result[i]
            /\ result'[Len(result) + 1] = Found(1)
        BY <4>1, <4>3
      <4>6. t.sure => \A i \in DOMAIN result' : result'[i] # "nan"
        <5> SUFFICES ASSUME t.sure, NEW i \in DOMAIN result' PROVE result'[i] # "nan"
          OBVIOUS
        <5>1. s.sure /\ s.clean
          BY <2>2, <3>3
        <5>2. i \in 1..Len(result) \/ i = Len(result) + 1
          BY <4>5
        <5> QED BY <4>1, <4>4, <4>5, <5>1, <5>2
      <4>7. t.taken = s.taken + 1
        BY <2>2, <3>3
      <4> QED BY <1>5, <4>1, <4>5, <4>6, <4>7
    <3> QED BY <1>1, <3>1, <3>2, <3>3 DEF reads
  <2>4. Matches(t)'
    BY <1>2, <1>3, <1>6, <2>2, <2>3 DEF Matches
  <2> QED BY <2>1, <2>3, <2>4 DEF t
<1>7. Advance /\ UNCHANGED Rest
  BY <1>1
<1>8. /\ OnCourse' /\ BetweenCases' /\ failed' = failed
      /\ ctx' \in BOOLEAN /\ fed' \in BOOLEAN /\ ran' \in BOOLEAN /\ held' \in BOOLEAN
      /\ mems' \in 0..3
  BY <1>0, <1>1, <1>6, <1>7, Advances
<1>9. result' \in Seq(Values) /\ Len(result') <= Many /\ verdict' = "none"
  <2>1. \E s \in CaseState : Matches(s) /\ Allowed(Mode, c, s)
    BY <1>0, <1>1, AtCall
  <2> QED BY <1>2, <1>6, <2>1
<1>10. output' \in Seq(Values) /\ Len(output') <= Many
  BY <1>2 DEF RuntimeInv, ProgramTyped
<1> QED BY <1>7, <1>8, <1>9, <1>10, AdvancesKeep

LEMMA CompareKeeps ==
  ASSUME RuntimeInv, Compare
  PROVE  RuntimeInv'
<1>0. PICK c : c = Head(rest).call
  OBVIOUS
<1>1. /\ Calling(Compares) /\ c \in Compares /\ Advance
      /\ UNCHANGED <<output, result, Rest, session>>
      /\ verdict' = IF \E i \in DOMAIN result : result[i] \in Spoils(c) THEN "no" ELSE "yes"
  BY <1>0 DEF Compare, Calling, Compares
<1>2. /\ name' = name /\ model' = model /\ kind' = kind /\ size' = size
      /\ output' = output /\ result' = result
      /\ ctx' = ctx /\ fed' = fed /\ ran' = ran /\ held' = held /\ mems' = mems
  BY <1>1 DEF Rest, session
<1>3. Elements' = Elements /\ Values' = Values
  BY <1>2 DEF Elements, Values
<1>4. ASSUME NEW s \in CaseState, Matches(s)
      PROVE  Matches(After(c, s))'
  <2> DEFINE t == After(c, s)
  <2>1. /\ t.ctx = s.ctx /\ t.fed = s.fed /\ t.ran = s.ran /\ t.held = s.held /\ t.mems = s.mems
        /\ t.out = s.out /\ t.clean = s.clean /\ t.taken = s.taken /\ t.sure = s.sure
        /\ t.compared = TRUE
    BY <1>1 DEF After, Compares
  <2> HIDE DEF t
  <2>2. Matches(t)'
    BY <1>1, <1>2, <1>3, <1>4, <2>1 DEF Matches
  <2> QED BY <2>2 DEF t
<1>5. Advance /\ UNCHANGED Rest
  BY <1>1
<1>6. /\ OnCourse' /\ BetweenCases' /\ failed' = failed
      /\ ctx' \in BOOLEAN /\ fed' \in BOOLEAN /\ ran' \in BOOLEAN /\ held' \in BOOLEAN
      /\ mems' \in 0..3
  BY <1>0, <1>1, <1>4, <1>5, Advances
<1>7. /\ output' \in Seq(Values) /\ Len(output') <= Many
      /\ result' \in Seq(Values) /\ Len(result') <= Many /\ verdict' \in {"none", "yes", "no"}
  BY <1>1, <1>2 DEF RuntimeInv, ProgramTyped
<1>8. ASSUME name \in Finite, verdict' = "yes", NEW i \in DOMAIN result'
      PROVE  result'[i] = "right"
  <2>1. result[i] \notin Spoils(c) /\ result' = result /\ i \in DOMAIN result
    BY <1>1, <1>2, <1>8
  <2>2. result[i] \in {"right", "wrong", "nan"}
    <3>1. result \in Seq(Values)
      BY DEF RuntimeInv, ProgramTyped
    <3>2. result[i] \in Values
      BY <2>1, <3>1
    <3> QED BY <3>2, ValuesAre
  <2>3. c = "compare" => result[i] # "nan"
    <3>1. PICK s \in CaseState : Matches(s) /\ Allowed(Mode, c, s)
      BY <1>0, <1>1, AtCall
    <3>2. c = "compare" => s.sure
      BY <1>8, <3>1 DEF Allowed, Mode
    <3> QED BY <2>1, <3>1, <3>2 DEF Matches
  <2> QED BY <1>1, <2>1, <2>2, <2>3 DEF Spoils, Compares
<1> QED BY <1>5, <1>6, <1>7, <1>8, AdvancesKeep

(* Between two cases.                                                      *)
LEMMA EndCaseKeeps ==
  ASSUME RuntimeInv, EndCase
  PROVE  RuntimeInv'
<1>1. /\ exit = "running" /\ size # 0 /\ rest = <<>> /\ size' = 0
      /\ unmatched' = (unmatched \/ failed \/ verdict # "yes")
      /\ status' = (IF failed \/ (P.exit = "status" /\ verdict = "no") THEN "failed" ELSE status)
      /\ exit' = (IF alone \/ (failed /\ P.exit = "zero") THEN status' ELSE "running")
      /\ name' = name /\ alone' = alone /\ cases' = cases /\ model' = model /\ kind' = kind
      /\ rest' = rest /\ failed' = failed /\ output' = output /\ result' = result
      /\ verdict' = verdict
      /\ ctx' = ctx /\ fed' = fed /\ ran' = ran /\ held' = held /\ mems' = mems
  BY DEF EndCase, StatusAfter, session
<1>2. P' = P /\ Values' = Values
  BY <1>1 DEF P, Values
<1>3. ProgramTyped
  BY DEF RuntimeInv
<1>4. PICK s \in CaseState : Matches(s) /\ Course(Mode, <<>>, failed, s, End(P))
  BY <1>1 DEF RuntimeInv, OnCourse
<1>5. (failed => Given(s)) /\ (~failed => s \in End(P))
  BY <1>3, <1>4, CourseEnd DEF ProgramTyped
<1>6. /\ Given(s)
      /\ ~failed /\ P.exit = "status" => verdict # "none"
  BY <1>3, <1>4, <1>5 DEF End, Back, BackJudged, Matches
<1>7. BetweenCases'
  BY <1>1, <1>4, <1>6 DEF BetweenCases, Given, Matches
<1>8. ProgramTyped'
  BY <1>1, <1>2, <1>3 DEF ProgramTyped
<1>9. cases # 0
  BY <1>1 DEF RuntimeInv, StatusInv
<1>10. StatusInv'
  BY <1>1, <1>2, <1>3, <1>6, <1>9 DEF RuntimeInv, StatusInv, OkMeansMatched, ProgramTyped
<1>11. OnCourse' /\ (name \in Finite => YesMeansRight)'
  BY <1>1 DEF OnCourse, YesMeansRight, RuntimeInv
<1> QED BY <1>7, <1>8, <1>10, <1>11 DEF RuntimeInv

LEMMA ReturnKeeps ==
  ASSUME RuntimeInv, Return
  PROVE  RuntimeInv'
<1>1. /\ size = 0 /\ size' = size /\ exit' = status /\ status' = status /\ unmatched' = unmatched
      /\ name' = name /\ alone' = alone /\ cases' = cases /\ model' = model /\ kind' = kind
      /\ rest' = rest /\ failed' = failed /\ output' = output /\ result' = result
      /\ verdict' = verdict
      /\ ctx' = ctx /\ fed' = fed /\ ran' = ran /\ held' = held /\ mems' = mems
  BY DEF Return, case, session
<1>2. P' = P /\ Values' = Values
  BY <1>1 DEF P, Values
<1>3. ProgramTyped' /\ BetweenCases'
  BY <1>1, <1>2 DEF RuntimeInv, ProgramTyped, BetweenCases
<1>4. StatusInv'
  BY <1>1, <1>2 DEF RuntimeInv, StatusInv, OkMeansMatched
<1>5. OnCourse' /\ (name \in Finite => YesMeansRight)'
  BY <1>1 DEF OnCourse, YesMeansRight, RuntimeInv
<1> QED BY <1>3, <1>4, <1>5 DEF RuntimeInv

(* The state a case begins in.                                             *)
Blank ==
  [ctx |-> FALSE, fed |-> FALSE, ran |-> FALSE, held |-> FALSE, mems |-> 0,
   out |-> FALSE, taken |-> 0, clean |-> FALSE, sure |-> TRUE, compared |-> FALSE]

LEMMA BlankUnstarted ==
  ASSUME NEW m
  PROVE  /\ Blank \in CaseState /\ Blank \in Unstarted(m)
         /\ Blank.ctx = FALSE /\ Blank.fed = FALSE /\ Blank.ran = FALSE /\ Blank.held = FALSE
         /\ Blank.mems = 0 /\ ~Blank.out /\ Blank.taken = 0 /\ ~Blank.clean
         /\ ~Blank.compared
<1>1. 0 \in 0..Many /\ 0 \in 0..3
  BY ManyAssumption
<1>2. Blank \in CaseState
  BY <1>1 DEF Blank, CaseState
<1>3. /\ Blank.ctx = FALSE /\ Blank.fed = FALSE /\ Blank.ran = FALSE /\ Blank.held = FALSE
      /\ Blank.mems = 0 /\ ~Blank.out /\ Blank.taken = 0 /\ ~Blank.clean
      /\ ~Blank.compared /\ Blank.sure
  BY DEF Blank
<1> QED BY <1>2, <1>3 DEF Unstarted, Given

LEMMA BeginCaseKeeps ==
  ASSUME Programs \subseteq Tidy, RuntimeInv, BeginCase
  PROVE  RuntimeInv'
<1>1. /\ exit = "running" /\ size = 0 /\ cases < MaxCases /\ (alone => cases = 0)
      /\ cases' = cases + 1 /\ failed' = FALSE /\ output' = <<>> /\ result' = <<>>
      /\ verdict' = "none" /\ name' = name /\ alone' = alone /\ unmatched' = unmatched
      /\ ctx' = ctx /\ fed' = fed /\ ran' = ran /\ held' = held /\ mems' = mems
  BY DEF BeginCase, session
<1>2. P' = P
  BY <1>1 DEF P
<1>3. ProgramTyped /\ BetweenCases /\ StatusInv
  BY DEF RuntimeInv
<1>4. ctx' = FALSE /\ fed' = FALSE /\ ran' = FALSE /\ held' = FALSE /\ mems' = 0
  BY <1>1, <1>3 DEF BetweenCases, ProgramTyped
<1>5. cases' \in 0..MaxCases /\ cases' # 0
  BY <1>1, <1>3, ProgramsAssumption DEF ProgramTyped
<1>6. /\ output' \in Seq(Values') /\ Len(output') = 0 /\ result' \in Seq(Values')
      /\ Len(result') = 0 /\ DOMAIN output' = {} /\ DOMAIN result' = {} /\ 0 <= Many
  BY <1>1, ManyAssumption
<1>7. (name \in Finite => YesMeansRight)'
  BY <1>1 DEF YesMeansRight
<1>8. Fit(P, name \in Finite)
  BY <1>3, SizesFit
<1>9. ASSUME NEW n \in P.sizes, NEW files, Picked(n, files) # "none", size' = n,
             model' = Picked(n, files), kind' \in Kinds, rest' = ScriptFor(n, Picked(n, files)),
             status' = status, exit' = exit
      PROVE  RuntimeInv'
  <2>1. n \in {1, Many} /\ n # 0
    BY <1>8, ManyAssumption DEF Fit, Totals
  <2>2. model' \in {"exact", "generic", "absent"}
        /\ (n # 1 /\ model' = "generic" => P.pick.generic # "no")
    BY <1>9 DEF Picked
  <2>3. PICK m : m = Mode'
    OBVIOUS
  <2>4. m \in Modes /\ (m.strict => name \in Finite)
        /\ (n = 1 \/ model' # "generic" => m.whole)
    <3>1. Elements' = IF model' = "generic" THEN 1 ELSE n
      BY <1>9 DEF Elements
    <3>2. m = [whole |-> Elements' = n, strict |-> name \in Finite]
      BY <1>1, <1>9, <2>3 DEF Mode
    <3>3. m \in Modes
      BY <3>2 DEF Modes
    <3>4. m.strict => name \in Finite
      BY <3>2
    <3>5. n = 1 \/ model' # "generic" => m.whole
      BY <3>1, <3>2
    <3> QED BY <3>3, <3>4, <3>5
  <2>5. Leads(m, Unstarted(m), rest', End(P))
    <3>1. CASE n # 1 /\ model' = "generic"
      <4>1. rest' = P.scalar[n] /\ P.pick.generic # "no"
        BY <1>9, <2>2, <3>1 DEF ScriptFor
      <4> QED BY <1>8, <2>4, <4>1 DEF Fit
    <3>2. CASE ~(n # 1 /\ model' = "generic")
      <4>1. rest' = P.whole[n] /\ m.whole
        BY <1>9, <2>4, <3>2 DEF ScriptFor
      <4> QED BY <1>8, <2>4, <4>1 DEF Fit
    <3> QED BY <3>1, <3>2
  <2>6. Course(Mode', rest', failed', Blank, End(P'))
    <3>1. Course(m, rest', FALSE, Blank, End(P))
      BY <2>5, BlankUnstarted, CourseBegins
    <3> QED BY <1>1, <1>2, <2>3, <3>1
  <2>7. Matches(Blank)'
    <3>1. Len(result') <= Blank.taken
      <4>1. Len(result') = 0 /\ Blank.taken = 0
        BY <1>6, BlankUnstarted
      <4> QED BY <4>1
    <3>2. \A i \in DOMAIN result' : result'[i] # "nan"
      BY <1>6
    <3> QED BY <1>1, <1>4, <3>1, <3>2, BlankUnstarted DEF Matches
  <2>8. OnCourse'
    BY <2>6, <2>7, BlankUnstarted DEF OnCourse
  <2>9. ProgramTyped'
    <3>1. size' \in {0} \cup P'.sizes
      BY <1>2, <1>9
    <3>2. /\ name' \in Programs /\ alone' \in BOOLEAN /\ unmatched' \in BOOLEAN
          /\ failed' \in BOOLEAN /\ status' \in {"ok", "failed"}
          /\ exit' \in {"running", "ok", "failed"}
      BY <1>1, <1>3, <1>9 DEF ProgramTyped
    <3>3. /\ verdict' \in {"none", "yes", "no"} /\ ctx' \in BOOLEAN /\ fed' \in BOOLEAN
          /\ ran' \in BOOLEAN /\ held' \in BOOLEAN /\ mems' \in 0..3
      <4>1. verdict' \in {"none", "yes", "no"}
        BY <1>1
      <4>2. ctx' \in BOOLEAN /\ fed' \in BOOLEAN /\ ran' \in BOOLEAN /\ held' \in BOOLEAN
        BY <1>4
      <4>3. mems' \in 0..3
        BY <1>4
      <4> QED BY <4>1, <4>2, <4>3
    <3>4. /\ output' \in Seq(Values') /\ Len(output') <= Many
          /\ result' \in Seq(Values') /\ Len(result') <= Many
      BY <1>6
    <3>5. cases' \in 0..MaxCases /\ model' \in {"exact", "generic", "absent"} /\ kind' \in Kinds
      BY <1>5, <1>9, <2>2
    <3> QED BY <3>1, <3>2, <3>3, <3>4, <3>5 DEF ProgramTyped
  <2>10. BetweenCases' /\ StatusInv'
    BY <1>1, <1>2, <1>3, <1>5, <1>9, <2>1 DEF BetweenCases, StatusInv, OkMeansMatched
  <2> QED BY <1>7, <2>8, <2>9, <2>10 DEF RuntimeInv
<1>10. ASSUME IF P.missing = "skip"
              THEN status' = status /\ exit' = (IF alone THEN P.alone ELSE "running")
              ELSE status' = "failed" /\ exit' = "failed",
              rest' = <<>>, UNCHANGED <<size, model, kind>>
       PROVE  RuntimeInv'
  <2>1. P.alone \in {"ok", "failed"}
    BY <1>8 DEF Fit
  <2>2. OnCourse'
    BY <1>1, <1>10 DEF OnCourse
  <2>3. ProgramTyped'
    BY <1>1, <1>2, <1>3, <1>4, <1>5, <1>6, <1>10, <2>1 DEF ProgramTyped
  <2>4. BetweenCases'
    BY <1>1, <1>4, <1>10 DEF BetweenCases
  <2>5. StatusInv'
    BY <1>1, <1>2, <1>3, <1>5, <1>10 DEF StatusInv, OkMeansMatched
  <2> QED BY <1>7, <2>2, <2>3, <2>4, <2>5 DEF RuntimeInv
<1>11. PICK n \in P.sizes, files \in SUBSET {"exact", "generic"} :
          \/ /\ Picked(n, files) # "none"
             /\ size' = n
             /\ model' = Picked(n, files)
             /\ kind' \in Kinds
             /\ rest' = ScriptFor(n, Picked(n, files))
             /\ UNCHANGED <<status, exit>>
          \/ /\ Picked(n, files) = "none"
             /\ IF P.missing = "skip"
                THEN /\ status' = status
                     /\ exit' = IF alone THEN P.alone ELSE "running"
                ELSE /\ status' = "failed"
                     /\ exit' = "failed"
             /\ rest' = <<>>
             /\ UNCHANGED <<size, model, kind>>
  BY DEF BeginCase
<1>12. \/ /\ Picked(n, files) # "none" /\ size' = n /\ model' = Picked(n, files)
          /\ kind' \in Kinds /\ rest' = ScriptFor(n, Picked(n, files))
          /\ status' = status /\ exit' = exit
       \/ /\ IF P.missing = "skip"
             THEN status' = status /\ exit' = (IF alone THEN P.alone ELSE "running")
             ELSE status' = "failed" /\ exit' = "failed"
          /\ rest' = <<>> /\ UNCHANGED <<size, model, kind>>
  BY <1>11
<1>13. CASE /\ Picked(n, files) # "none" /\ size' = n /\ model' = Picked(n, files)
            /\ kind' \in Kinds /\ rest' = ScriptFor(n, Picked(n, files))
            /\ status' = status /\ exit' = exit
  BY <1>9, <1>13
<1>14. CASE ~(/\ Picked(n, files) # "none" /\ size' = n /\ model' = Picked(n, files)
              /\ kind' \in Kinds /\ rest' = ScriptFor(n, Picked(n, files))
              /\ status' = status /\ exit' = exit)
  BY <1>10, <1>12, <1>14
<1> QED BY <1>13, <1>14

(* Whatever the process, a step of the runs keeps the invariant.           *)
LEMMA RuntimeStart ==
  ASSUME RuntimeInit
  PROVE  RuntimeInv /\ Session!SessionInit
<1>1. Init
  BY DEF RuntimeInit, NoProgram
<1>2. /\ name \in Programs /\ alone \in BOOLEAN
      /\ cases = 0 /\ status = "ok" /\ unmatched = FALSE /\ exit = "running" /\ size = 0
      /\ model = "absent" /\ kind = "float" /\ rest = <<>> /\ failed = FALSE
      /\ output = <<>> /\ result = <<>> /\ verdict = "none"
  BY <1>1 DEF Init, Fresh
<1>3. Session!SessionInit
  BY <1>1 DEF Init
<1>4. ctx = FALSE /\ fed = FALSE /\ ran = FALSE /\ held = FALSE /\ mems = 0
  BY <1>3 DEF Session!SessionInit
<1>5. /\ output \in Seq(Values) /\ Len(output) <= Many /\ result \in Seq(Values)
      /\ Len(result) <= Many
  BY <1>2, ManyAssumption
<1>6. cases \in 0..MaxCases /\ mems \in 0..3
  BY <1>2, <1>4, ProgramsAssumption
<1>7. ProgramTyped
  BY <1>2, <1>4, <1>5, <1>6 DEF ProgramTyped, Kinds
<1>8. BetweenCases /\ StatusInv /\ OnCourse /\ (name \in Finite => YesMeansRight)
  BY <1>2, <1>4 DEF BetweenCases, StatusInv, OkMeansMatched, OnCourse, YesMeansRight
<1> QED BY <1>3, <1>7, <1>8 DEF RuntimeInv

LEMMA RuntimeStutters ==
  ASSUME RuntimeInv, UNCHANGED vars
  PROVE  RuntimeInv'
<1>1. /\ name' = name /\ alone' = alone /\ cases' = cases /\ status' = status
      /\ unmatched' = unmatched /\ exit' = exit /\ size' = size /\ model' = model
      /\ kind' = kind /\ rest' = rest /\ failed' = failed /\ output' = output
      /\ result' = result /\ verdict' = verdict
      /\ ctx' = ctx /\ fed' = fed /\ ran' = ran /\ held' = held /\ mems' = mems
  BY DEF vars, case, progress, session
<1>2. P' = P /\ Values' = Values /\ Elements' = Elements
  BY <1>1 DEF P, Values, Elements
<1>3. ProgramTyped' /\ BetweenCases'
  BY <1>1, <1>2 DEF RuntimeInv, ProgramTyped, BetweenCases
<1>4. StatusInv' /\ (name \in Finite => YesMeansRight)'
  BY <1>1, <1>2 DEF RuntimeInv, StatusInv, OkMeansMatched, YesMeansRight
<1>5. Mode' = Mode
  BY <1>1, <1>2 DEF Mode
<1>6. \A s \in CaseState : Matches(s) => Matches(s)'
  BY <1>1, <1>2 DEF Matches
<1>7. OnCourse'
  BY <1>1, <1>2, <1>5, <1>6 DEF RuntimeInv, OnCourse
<1> QED BY <1>3, <1>4, <1>7 DEF RuntimeInv

LEMMA ProgramKeeps ==
  ASSUME Programs \subseteq Tidy, RuntimeInv, Next
  PROVE  RuntimeInv'
<1>1. CASE BeginCase
  BY <1>1, BeginCaseKeeps
<1>2. CASE CallFails
  BY <1>2, CallFailsKeeps
<1>3. CASE Asks \/ OpenContext \/ SetInputs \/ RunModel \/ CreateMem
  BY <1>3, PlainCallsKeep
<1>4. CASE GetOutput
  BY <1>4, GetOutputKeeps
<1>5. CASE TestOutput
  BY <1>5, TestOutputKeeps
<1>6. CASE ReadOutput
  BY <1>6, ReadOutputKeeps
<1>7. CASE Compare
  BY <1>7, CompareKeeps
<1>8. CASE ReleaseOutput \/ DestroyMem \/ DestroyContext
  BY <1>8, GivingBackKeeps
<1>9. CASE EndCase
  BY <1>9, EndCaseKeeps
<1>10. CASE Return
  BY <1>10, ReturnKeeps
<1> QED BY <1>1, <1>2, <1>3, <1>4, <1>5, <1>6, <1>7, <1>8, <1>9, <1>10 DEF Next

-----------------------------------------------------------------------------
(* What the runtime allows of the call at hand.                            *)
LEMMA CallsInOrder ==
  ASSUME RuntimeInv, NEW calls, Calling(calls), NEW c, c = Head(rest).call
  PROVE  /\ c = "init" => ~ctx
         /\ c \in {"set", "bind", "run", "get", "release", "create_mem", "destroy_mem", "destroy"}
              => ctx
         /\ c = "run" => fed
         /\ c = "get" => ran /\ ~held
         /\ c = "release" => held
         /\ c = "destroy_mem" => mems > 0
         /\ c = "destroy" => ~held /\ mems = 0
<1>1. PICK s \in CaseState : Matches(s) /\ Allowed(Mode, c, s)
  BY AtCall
<1>2. s.ctx = ctx /\ s.fed = fed /\ s.ran = ran /\ s.held = held /\ s.mems = mems
  BY <1>1 DEF Matches
<1> QED BY <1>1, <1>2 DEF Allowed

LEMMA ProgramKeepsOrder ==
  ASSUME RuntimeInv, Next
  PROVE  [Session!SessionNext]_session
<1>0. held \in BOOLEAN
  BY DEF RuntimeInv, ProgramTyped
<1>1. CASE BeginCase \/ CallFails \/ Asks \/ TestOutput \/ ReadOutput \/ Compare \/ EndCase \/ Return
  BY <1>1 DEF BeginCase, CallFails, Asks, TestOutput, ReadOutput, Compare, EndCase, Return
<1>2. CASE OpenContext
  <2>1. Calling({"init"}) /\ Head(rest).call = "init"
    BY <1>2 DEF OpenContext, Calling
  <2>2. ~ctx
    BY <2>1, CallsInOrder
  <2>3. Session!Create
    BY <1>2, <2>2 DEF OpenContext, Session!Create
  <2> QED BY <2>3 DEF Session!SessionNext
<1>3. CASE SetInputs
  <2>1. Calling({"set", "bind"}) /\ Head(rest).call \in {"set", "bind"}
    BY <1>3 DEF SetInputs, Calling
  <2>2. ctx
    BY <2>1, CallsInOrder
  <2>3. Session!Feed
    BY <1>3, <2>2 DEF SetInputs, Session!Feed
  <2> QED BY <2>3 DEF Session!SessionNext
<1>4. CASE RunModel
  <2>1. Calling({"run"}) /\ Head(rest).call = "run"
    BY <1>4 DEF RunModel, Calling
  <2>2. ctx /\ fed
    BY <2>1, CallsInOrder
  <2>3. Session!Run
    BY <1>4, <2>2 DEF RunModel, Session!Run
  <2> QED BY <2>3 DEF Session!SessionNext
<1>5. CASE GetOutput
  <2>1. /\ Calling({"get", "read_mem"}) /\ Head(rest).call \in {"get", "read_mem"}
        /\ held' = (held \/ Head(rest).call = "get") /\ UNCHANGED <<ctx, fed, ran, mems>>
    BY <1>5 DEF GetOutput, Calling
  <2>2. CASE Head(rest).call = "get"
    <3>1. ctx /\ ran /\ ~held
      BY <2>1, <2>2, CallsInOrder
    <3>2. Session!GetOutput
      BY <2>1, <2>2, <3>1 DEF Session!GetOutput
    <3> QED BY <3>2 DEF Session!SessionNext
  <2>3. CASE Head(rest).call = "read_mem"
    <3>1. held' = held
      BY <1>0, <2>1, <2>3
    <3> QED BY <2>1, <3>1 DEF session
  <2> QED BY <2>1, <2>2, <2>3
<1>6. CASE ReleaseOutput
  <2>1. Calling({"release"}) /\ Head(rest).call = "release"
    BY <1>6 DEF ReleaseOutput, Calling
  <2>2. ctx /\ held
    BY <2>1, CallsInOrder
  <2>3. Session!ReleaseOutput
    BY <1>6, <2>2 DEF ReleaseOutput, Session!ReleaseOutput
  <2> QED BY <2>3 DEF Session!SessionNext
<1>7. CASE CreateMem
  <2>1. Calling({"create_mem"}) /\ Head(rest).call = "create_mem"
    BY <1>7 DEF CreateMem, Calling
  <2>2. ctx
    BY <2>1, CallsInOrder
  <2>3. Session!CreateMem
    BY <1>7, <2>2 DEF CreateMem, Session!CreateMem
  <2> QED BY <2>3 DEF Session!SessionNext
<1>8. CASE DestroyMem
  <2>1. Calling({"destroy_mem"}) /\ Head(rest).call = "destroy_mem"
    BY <1>8 DEF DestroyMem, Calling
  <2>2. ctx /\ mems > 0
    BY <2>1, CallsInOrder
  <2>3. Session!DestroyMem
    BY <1>8, <2>2 DEF DestroyMem, Session!DestroyMem
  <2> QED BY <2>3 DEF Session!SessionNext
<1>9. CASE DestroyContext
  <2>1. Calling({"destroy"}) /\ Head(rest).call = "destroy"
    BY <1>9 DEF DestroyContext, Calling
  <2>2. ctx /\ ~held /\ mems = 0
    BY <2>1, CallsInOrder
  <2>3. Session!Destroy
    BY <1>9, <2>2 DEF DestroyContext, Session!Destroy
  <2> QED BY <2>3 DEF Session!SessionNext
<1> QED BY <1>1, <1>2, <1>3, <1>4, <1>5, <1>6, <1>7, <1>8, <1>9 DEF Next

LEMMA RuntimeSteps ==
  ASSUME Programs \subseteq Tidy, RuntimeInv, [RuntimeNext]_<<process, vars, nativeVars, poolVars>>
  PROVE  RuntimeInv' /\ [Session!SessionNext]_session
<1>1. CASE Next
  BY <1>1, ProgramKeeps, ProgramKeepsOrder
<1>2. CASE UNCHANGED vars
  BY <1>2, RuntimeStutters DEF vars
<1> QED BY <1>1, <1>2 DEF RuntimeNext

-----------------------------------------------------------------------------
(* The invariant says what the runs check.                                 *)
LEMMA InBounded ==
  ASSUME NEW S, NEW s \in Seq(S), NEW n \in Nat, Len(s) <= n
  PROVE  s \in BoundedSeq(S, n)
<1>1. s \in [1..Len(s) -> S] /\ Len(s) \in 0..n
  OBVIOUS
<1> QED BY <1>1 DEF BoundedSeq, SeqOf

LEMMA RuntimeInvImplies ==
  ASSUME RuntimeInv
  PROVE  BuffersRespected /\ VerdictsTrue
<1>1. ProgramTyped /\ BetweenCases /\ StatusInv
  BY DEF RuntimeInv
<1>2. result \in Seq(Values) /\ Len(result) <= Many /\ output \in Seq(Values) /\ Len(output) <= Many
  BY <1>1 DEF ProgramTyped
<1>3. result \in Seq(Values \cup {"stray"})
  BY <1>2, SeqMonotonic
<1>4. output \in BoundedSeq(Values, Many) /\ result \in BoundedSeq(Values \cup {"stray"}, Many)
  BY <1>2, <1>3, InBounded, ManyAssumption
<1>5. TypeOK
  BY <1>1, <1>4 DEF TypeOK, ProgramTyped
<1>6. NothingKept
  BY <1>1 DEF NothingKept, BetweenCases
<1>7. ReadsInside
  <2>1. \A i \in DOMAIN result : result[i] \in Values
    BY <1>2
  <2> QED BY <2>1, ValuesAre DEF ReadsInside
<1>8. VerdictsTrue
  BY <1>1 DEF VerdictsTrue, RuntimeInv, StatusInv
<1> QED BY <1>5, <1>6, <1>7, <1>8 DEF BuffersRespected

-----------------------------------------------------------------------------
(* Whichever program but the five of Leaky and Overreading is run, over    *)
(* however many cases and sizes, and whatever fails: it gives back the     *)
(* context, the outputs and the memories it took before it returns, and    *)
(* reads nothing beyond the output of the model it picked.                 *)
THEOREM BuffersAreRespected ==
  ASSUME Programs \subseteq Tidy
  PROVE  RuntimeSpec => []BuffersRespected
<1>1. RuntimeInit => RuntimeInv
  BY RuntimeStart
<1>2. RuntimeInv /\ [RuntimeNext]_<<process, vars, nativeVars, poolVars>> => RuntimeInv'
  BY RuntimeSteps
<1>3. RuntimeInv => BuffersRespected
  BY RuntimeInvImplies
<1> QED BY <1>1, <1>2, <1>3, PTL DEF RuntimeSpec

(* Of the same programs: "YES" is printed of right values only where the   *)
(* program looks for what is no number, and an exit status of 0 means that *)
(* every case for which there was a model ran to its end and matched.      *)
THEOREM VerdictsAreTrue ==
  ASSUME Programs \subseteq Tidy
  PROVE  RuntimeSpec => []VerdictsTrue
<1>1. RuntimeInit => RuntimeInv
  BY RuntimeStart
<1>2. RuntimeInv /\ [RuntimeNext]_<<process, vars, nativeVars, poolVars>> => RuntimeInv'
  BY RuntimeSteps
<1>3. RuntimeInv => VerdictsTrue
  BY RuntimeInvImplies
<1> QED BY <1>1, <1>2, <1>3, PTL DEF RuntimeSpec

(* And they implement RuntimeSession: by whichever branch a case is left,  *)
(* the calls come in an order the runtime allows, so that nothing is       *)
(* released twice and no context is destroyed with something of it held.   *)
THEOREM SessionIsKept ==
  ASSUME Programs \subseteq Tidy
  PROVE  RuntimeSpec => KeepsSession
<1>1. RuntimeInit => RuntimeInv /\ Session!SessionInit
  BY RuntimeStart
<1>2. RuntimeInv /\ [RuntimeNext]_<<process, vars, nativeVars, poolVars>>
        => RuntimeInv' /\ [Session!SessionNext]_(Session!session)
  BY RuntimeSteps DEF session, Session!session
<1> QED BY <1>1, <1>2, PTL DEF RuntimeSpec, KeepsSession, Session!SessionSpec
=============================================================================
