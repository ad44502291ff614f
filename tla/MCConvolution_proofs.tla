------------------------ MODULE MCConvolution_proofs ------------------------
(***************************************************************************)
(* The convolutions of ops_reg for every shape, every number of images and *)
(* every size of the NPU's buffer: no packing, job or unpacking leaves its *)
(* buffer, and tiles and images put every element in its place. Then the   *)
(* recorder, for every set of algorithms and every size of its tables: the *)
(* task table describes the commands it is submitted with.                 *)
(***************************************************************************)
EXTENDS MCConvolution, IndexArithmetic, FiniteSetTheorems, SequenceTheorems

-----------------------------------------------------------------------------
(* Finite sets.                                                            *)

(* A set of as many indices as elements: no element lands on another.      *)
LEMMA InjectionCounts ==
  ASSUME NEW D, IsFiniteSet(D), NEW f,
         \A x, y \in D : f[x] = f[y] => x = y
  PROVE  /\ IsFiniteSet({f[x] : x \in D})
         /\ Cardinality({f[x] : x \in D}) = Cardinality(D)
<1> DEFINE T == {f[x] : x \in D}
           g == [x \in D |-> f[x]]
<1>1. g \in Bijection(D, T)
  <2>1. g \in [D -> T]
    OBVIOUS
  <2>2. \A x, y \in D : g[x] = g[y] => x = y
    OBVIOUS
  <2>3. \A t \in T : \E x \in D : g[x] = t
    OBVIOUS
  <2> QED BY <2>1, <2>2, <2>3 DEF Bijection, Injection, Surjection, IsInjective
<1>2. ExistsBijection(D, T)
  BY <1>1 DEF ExistsBijection
<1> HIDE DEF T
<1>3. IsFiniteSet(T) /\ Cardinality(T) = Cardinality(D)
  BY <1>2, FS_Bijection
<1> QED BY <1>3 DEF T

LEMMA FirstNumbers ==
  ASSUME NEW a \in Nat
  PROVE  IsFiniteSet(0..(a - 1)) /\ Cardinality(0..(a - 1)) = a
<1>1. 0 \in Int /\ a - 1 \in Int
  OBVIOUS
<1>2. /\ IsFiniteSet(0..(a - 1))
      /\ Cardinality(0..(a - 1)) = IF 0 > a - 1 THEN 0 ELSE (a - 1) - 0 + 1
  BY <1>1, FS_Interval
<1> QED BY <1>2

LEMMA BoxCounts ==
  ASSUME NEW a \in Nat, NEW b \in Nat, NEW c \in Nat
  PROVE  /\ IsFiniteSet((0..(a - 1)) \X (0..(b - 1)) \X (0..(c - 1)))
         /\ Cardinality((0..(a - 1)) \X (0..(b - 1)) \X (0..(c - 1))) = a * b * c
<1> DEFINE A == 0..(a - 1)
           B == 0..(b - 1)
           E == 0..(c - 1)
           D == (A \X B) \X E
           f == [x \in D |-> <<x[1][1], x[1][2], x[2]>>]
<1>1. /\ IsFiniteSet(A) /\ Cardinality(A) = a
      /\ IsFiniteSet(B) /\ Cardinality(B) = b
      /\ IsFiniteSet(E) /\ Cardinality(E) = c
  BY FirstNumbers
<1> HIDE DEF A, B, E
<1>2. IsFiniteSet(A \X B) /\ Cardinality(A \X B) = a * b
  BY <1>1, FS_Product
<1>3. IsFiniteSet(D) /\ Cardinality(D) = (a * b) * c
  BY <1>1, <1>2, FS_Product
<1>4. \A x, y \in D : f[x] = f[y] => x = y
  OBVIOUS
<1>5. {f[x] : x \in D} = A \X B \X E
  <2>1. ASSUME NEW t \in A \X B \X E
        PROVE  \E x \in D : f[x] = t
    <3>1. <<<<t[1], t[2]>>, t[3]>> \in D
      OBVIOUS
    <3>2. f[<<<<t[1], t[2]>>, t[3]>>] = t
      BY <3>1
    <3> QED BY <3>1, <3>2
  <2>2. \A x \in D : f[x] \in A \X B \X E
    OBVIOUS
  <2> QED BY <2>1, <2>2
<1> HIDE DEF D, f
<1>6. /\ IsFiniteSet({f[x] : x \in D})
      /\ Cardinality({f[x] : x \in D}) = Cardinality(D)
  BY <1>3, <1>4, InjectionCounts
<1>7. IsFiniteSet(A \X B \X E) /\ Cardinality(A \X B \X E) = (a * b) * c
  BY <1>3, <1>5, <1>6
<1> QED BY <1>7 DEF A, B, E

Box4(a, b, c, d) == (0..(a - 1)) \X (0..(b - 1)) \X (0..(c - 1)) \X (0..(d - 1))

LEMMA FourCounts ==
  ASSUME NEW a \in Nat, NEW b \in Nat, NEW c \in Nat, NEW d \in Nat
  PROVE  IsFiniteSet(Box4(a, b, c, d)) /\ Cardinality(Box4(a, b, c, d)) = a * b * c * d
<1> DEFINE A == 0..(a - 1)
           B == 0..(b - 1)
           E == 0..(c - 1)
           G == 0..(d - 1)
           D == (A \X B) \X (E \X G)
           f == [x \in D |-> <<x[1][1], x[1][2], x[2][1], x[2][2]>>]
<1>1. /\ IsFiniteSet(A) /\ Cardinality(A) = a
      /\ IsFiniteSet(B) /\ Cardinality(B) = b
      /\ IsFiniteSet(E) /\ Cardinality(E) = c
      /\ IsFiniteSet(G) /\ Cardinality(G) = d
  BY FirstNumbers
<1> HIDE DEF A, B, E, G
<1>2. /\ IsFiniteSet(A \X B) /\ Cardinality(A \X B) = a * b
      /\ IsFiniteSet(E \X G) /\ Cardinality(E \X G) = c * d
  BY <1>1, FS_Product
<1>3. IsFiniteSet(D) /\ Cardinality(D) = (a * b) * (c * d)
  <2> DEFINE P == A \X B
             Q == E \X G
  <2>1. D = P \X Q
    OBVIOUS
  <2>2. IsFiniteSet(P) /\ Cardinality(P) = a * b /\ IsFiniteSet(Q) /\ Cardinality(Q) = c * d
    BY <1>2
  <2> HIDE DEF D, P, Q
  <2>3. IsFiniteSet(P \X Q) /\ Cardinality(P \X Q) = Cardinality(P) * Cardinality(Q)
    BY <2>2, FS_Product
  <2> QED BY <2>1, <2>2, <2>3
<1>4. \A x, y \in D : f[x] = f[y] => x = y
  OBVIOUS
<1>5. {f[x] : x \in D} = A \X B \X E \X G
  <2>1. ASSUME NEW t \in A \X B \X E \X G
        PROVE  \E x \in D : f[x] = t
    <3>1. <<<<t[1], t[2]>>, <<t[3], t[4]>>>> \in D
      OBVIOUS
    <3>2. f[<<<<t[1], t[2]>>, <<t[3], t[4]>>>>] = t
      BY <3>1
    <3> QED BY <3>1, <3>2
  <2>2. \A x \in D : f[x] \in A \X B \X E \X G
    OBVIOUS
  <2> QED BY <2>1, <2>2
<1> HIDE DEF D, f
<1>6. /\ IsFiniteSet({f[x] : x \in D})
      /\ Cardinality({f[x] : x \in D}) = Cardinality(D)
  BY <1>3, <1>4, InjectionCounts
<1>7. (a * b) * (c * d) = a * b * c * d
  <2>1. a * b \in Nat
    OBVIOUS
  <2> QED BY <2>1, MulAssociates
<1>8. /\ IsFiniteSet(A \X B \X E \X G)
      /\ Cardinality(A \X B \X E \X G) = a * b * c * d
  BY <1>3, <1>5, <1>6, <1>7
<1> QED BY <1>8 DEF Box4, A, B, E, G

-----------------------------------------------------------------------------
(* The shapes, and what a job is told.                                     *)

LEMMA AlignUpFacts ==
  ASSUME NEW x \in Nat \ {0}, NEW b \in Nat \ {0}
  PROVE  /\ CeilDiv(x, b) \in Nat \ {0}
         /\ AlignUp(x, b) \in Nat \ {0} /\ AlignUp(x, b) = CeilDiv(x, b) * b
         /\ x <= AlignUp(x, b)
         /\ \A c \in 0..(x - 1) : c \div b \in 0..(CeilDiv(x, b) - 1)
<1> DEFINE q == (x + b - 1) \div b
<1>1. x + b - 1 \in Nat /\ x + b - 1 >= b
  OBVIOUS
<1>2. q \in Nat /\ q * b <= x + b - 1 /\ x + b - 1 < (q + 1) * b
  BY <1>1, RoundedDown
<1> HIDE DEF q
<1>3. q * b \in Nat /\ (q + 1) * b = q * b + b
  BY <1>2, MulNext
<1>4. x <= q * b
  BY <1>2, <1>3
<1>5. q # 0
  BY <1>3, <1>4
<1>6. q * b # 0
  BY <1>4, <1>3
<1>7. ASSUME NEW c \in 0..(x - 1)
      PROVE  c \div b \in 0..(q - 1)
  <2>1. c \in 0..(q * b - 1)
    BY <1>3, <1>4
  <2> QED BY <1>2, <2>1, RowMajorAll
<1>8. CeilDiv(x, b) = q /\ AlignUp(x, b) = q * b
  BY DEF CeilDiv, AlignUp, q
<1> QED BY <1>2, <1>3, <1>4, <1>5, <1>6, <1>7, <1>8

LEMMA ShapeType ==
  ASSUME NEW s \in Shapes
  PROVE  /\ s.batch \in Nat \ {0} /\ s.in_channels \in Nat \ {0}
         /\ s.in_height \in Nat \ {0} /\ s.in_width \in Nat \ {0}
         /\ s.out_channels \in Nat \ {0} /\ s.weight_in_channels \in Nat \ {0}
         /\ s.kernel_h \in Nat \ {0} /\ s.kernel_w \in Nat \ {0}
         /\ s.groups \in Nat
BY CaseAssumption

LEMMA OutputSize ==
  ASSUME NEW s \in Shapes, Accepted(s)
  PROVE  /\ OutHeight(s) \in Nat \ {0} /\ OutWidth(s) \in Nat \ {0}
         /\ OutHeight(s) <= s.in_height /\ OutWidth(s) <= s.in_width
         /\ OneByOne(s) => OutHeight(s) = s.in_height
BY ShapeType DEF Accepted, OutHeight, OutWidth, OneByOne

LEMMA RowStride ==
  ASSUME NEW s \in Shapes
  PROVE  WidthStride(s) \in Nat \ {0} /\ s.in_width <= WidthStride(s)
<1>1. s.in_width \in Nat \ {0} /\ 8 \in Nat \ {0}
  BY ShapeType
<1>2. AlignUp(s.in_width, 8) \in Nat \ {0} /\ s.in_width <= AlignUp(s.in_width, 8)
  BY <1>1, AlignUpFacts
<1> QED BY <1>1, <1>2 DEF WidthStride

LEMMA AlignOutFacts ==
  ASSUME NEW s \in Shapes
  PROVE  /\ AlignOut(s) \in Nat \ {0} /\ s.out_channels <= AlignOut(s)
         /\ \E m \in Nat \ {0} : AlignOut(s) = m * 16
<1>1. s.out_channels \in Nat \ {0} /\ 16 \in Nat \ {0}
  BY ShapeType
<1> QED BY <1>1, AlignUpFacts DEF AlignOut

LEMMA FlatStrideFacts ==
  ASSUME NEW atoms \in Nat \ {0}
  PROVE  /\ FlatStride(atoms) \in Nat \ {0} /\ atoms <= FlatStride(atoms)
         /\ atoms < 4 => FlatStride(atoms) = atoms
<1>1. 4 \in Nat \ {0}
  OBVIOUS
<1>2. AlignUp(atoms, 4) \in Nat \ {0} /\ atoms <= AlignUp(atoms, 4)
  BY <1>1, AlignUpFacts
<1> QED BY <1>2 DEF FlatStride

(***************************************************************************)
(* A kernel of 3 to 6 channels of 3x3 or 3x1 is given a fixed stride of    *)
(* the output, whatever the width: what that is enough for.                *)
(***************************************************************************)
RoomForRows(s) ==
  s.in_channels = 3 /\ s.out_channels = 6 =>
    /\ Kernel(s, 3, 3) => OutWidth(s) <= 32
    /\ Kernel(s, 3, 1) /\ s.groups = 1 => OutWidth(s) <= 48

RowFits(s) ==
  \/ OutWidth(s) <= OutWidthStride(s)
  \/ s.out_channels <= 8 /\ OutWidth(s) <= 2 * OutWidthStride(s)

LEMMA OutStrideFacts ==
  ASSUME NEW s \in Shapes, Accepted(s)
  PROVE  /\ OutWidthStride(s) \in Nat \ {0}
         /\ OneByOne(s) => OutWidthStride(s) = FlatStride(OutWidth(s) * OutHeight(s))
         /\ ~OneByOne(s) /\ RoomForRows(s) => RowFits(s)
<1> DEFINE W == OutWidth(s)
           w == OutWidthStride(s)
           three_to_six == s.in_channels = 3 /\ s.out_channels = 6
<1>1. W \in Nat \ {0} /\ OutHeight(s) \in Nat \ {0}
  BY OutputSize
<1>2. W * OutHeight(s) \in Nat \ {0}
  BY <1>1
<1>3. FlatStride(W * OutHeight(s)) \in Nat \ {0}
  BY <1>2, FlatStrideFacts
<1>4. PICK m \in Nat \ {0} : AlignOut(s) = m * 16
  BY AlignOutFacts
<1>5. (W * AlignOut(s)) \div 4 = 4 * (W * m) /\ W * m \in Nat /\ W <= W * m
  <2>1. W * m \in Nat /\ W <= W * m
    <3>1. 1 * W <= m * W /\ m * W \in Nat
      BY <1>1, MulMonotone
    <3> QED BY <1>1, <3>1
  <2>2. W * AlignOut(s) = (4 * (W * m)) * 4 + 0
    BY <1>1, <1>4
  <2>3. 4 * (W * m) \in Nat /\ 4 \in Nat \ {0} /\ 0 \in 0..(4 - 1)
    BY <2>1
  <2>4. ((4 * (W * m)) * 4 + 0) \div 4 = 4 * (W * m)
    BY <2>3, DivModUnique
  <2> QED BY <2>1, <2>2, <2>4
<1>6. CASE OneByOne(s)
  BY <1>3, <1>6 DEF OutWidthStride, is_161818_161633, is_11555_35333_g5, Input, Kernel, OneByOne
<1>7. CASE ~OneByOne(s) /\ is_161818_161633(s)
  <2>1. w = 256 /\ W = 16
    BY <1>7
    DEF OutWidth, OutWidthStride, is_161818_161633, is_11555_35333_g5, Input, Kernel, OneByOne
  <2> QED BY <1>7, <2>1 DEF RowFits
<1>8. CASE ~OneByOne(s) /\ ~is_161818_161633(s) /\ is_11555_35333_g5(s)
  <2>1. w = 12 /\ W = 3
    BY <1>8
    DEF OutWidth, OutWidthStride, is_161818_161633, is_11555_35333_g5, Input, Kernel, OneByOne
  <2> QED BY <1>8, <2>1 DEF RowFits
<1>9. CASE /\ ~OneByOne(s) /\ ~is_161818_161633(s) /\ ~is_11555_35333_g5(s)
           /\ three_to_six /\ Kernel(s, 3, 3)
  <2>1. w = 16
    BY <1>9 DEF OutWidthStride, is_161818_161633, is_11555_35333_g5, Input, Kernel, OneByOne
  <2> QED BY <1>1, <1>9, <2>1 DEF RowFits, RoomForRows
<1>10. CASE /\ ~OneByOne(s) /\ ~is_161818_161633(s) /\ ~is_11555_35333_g5(s)
            /\ ~(three_to_six /\ Kernel(s, 3, 3))
            /\ three_to_six /\ Kernel(s, 3, 1) /\ s.groups = 1
  <2>1. w = 24
    BY <1>10 DEF OutWidthStride, is_161818_161633, is_11555_35333_g5, Input, Kernel, OneByOne
  <2> QED BY <1>1, <1>10, <2>1 DEF RowFits, RoomForRows
<1>11. CASE /\ ~OneByOne(s) /\ ~is_161818_161633(s) /\ ~is_11555_35333_g5(s)
            /\ ~(three_to_six /\ Kernel(s, 3, 3))
            /\ ~(three_to_six /\ Kernel(s, 3, 1) /\ s.groups = 1)
  <2>1. w = (W * AlignOut(s)) \div 4
    BY <1>11 DEF OutWidthStride
  <2> HIDE DEF W, w
  <2>2. w = 4 * (W * m) /\ w \in Nat \ {0} /\ W <= w
    BY <1>1, <1>5, <2>1
  <2> QED BY <1>11, <2>2 DEF RowFits, W, w
<1> QED BY <1>6, <1>7, <1>8, <1>9, <1>10, <1>11

LEMMA TileFacts ==
  ASSUME NEW s \in Shapes
  PROVE  /\ TileMaxHeight(s) \in Nat \ {0}
         /\ TileMaxHeight(s) > 1 => TileMaxHeight(s) * WidthStride(s) <= TileElems
<1> DEFINE w == WidthStride(s)
           q == TileElems \div w
<1>1. w \in Nat \ {0} /\ TileElems \in Nat
  BY RowStride, CaseAssumption
<1> HIDE DEF w
<1>2. q \in Nat /\ q * w <= TileElems
  BY <1>1, RoundedDown
<1> HIDE DEF q
<1>3. TileMaxHeight(s) = IF q < 1 THEN 1 ELSE q
  BY DEF TileMaxHeight, q, w
<1> QED BY <1>2, <1>3 DEF w

(* What one job of a case is told.                                         *)
JobOf(s, p) ==
  \E rows \in 1..OutHeight(s) :
    /\ p = JobParams(s, rows)
    /\ IF UseTile(s) THEN rows <= TileMaxHeight(s) ELSE rows = OutHeight(s)

SameKernel(s, p) ==
  /\ p.in_channels = s.in_channels /\ p.in_width = s.in_width
  /\ p.out_channels = s.out_channels /\ p.groups = s.groups
  /\ p.kernel_h = s.kernel_h /\ p.kernel_w = s.kernel_w
  /\ p.out_width = OutWidth(s) /\ p.width_stride = WidthStride(s)
  /\ p.align_c = (IF is_161818_161633(s) THEN 16 ELSE 8) /\ p.align_out_c = AlignOut(s)

JobHeight(s, p) ==
  /\ p.out_height \in 1..OutHeight(s)
  /\ p.in_height = p.out_height + p.kernel_h - 1
  /\ p.out_height > 1 /\ OneByOne(s) => p.out_height * p.width_stride <= TileElems

Strides(s, p) ==
  /\ p.out_width_stride \in Nat \ {0}
  /\ OneByOne(s) => p.out_width_stride = FlatStride(OutWidth(s) * p.out_height)
  /\ ~OneByOne(s) => /\ p.out_width_stride = OutWidthStride(s)
                     /\ p.in_height = s.in_height /\ p.out_height = OutHeight(s)

LEMMA JobFields ==
  ASSUME NEW s \in Shapes, Accepted(s), NEW p, JobOf(s, p)
  PROVE  SameKernel(s, p) /\ JobHeight(s, p) /\ Strides(s, p)
<1> DEFINE H == OutHeight(s)
           W == OutWidth(s)
<1>1. H \in Nat \ {0} /\ W \in Nat \ {0} /\ (OneByOne(s) => H = s.in_height)
  BY OutputSize
<1>2. PICK rows \in 1..H :
        /\ p = JobParams(s, rows)
        /\ IF UseTile(s) THEN rows <= TileMaxHeight(s) ELSE rows = H
  BY DEF JobOf
<1>3. s.kernel_h \in Nat \ {0} /\ s.in_height = H + s.kernel_h - 1 /\ s.in_height \in Nat
  BY ShapeType DEF OutHeight
<1>4. OneByOne(s) => s.kernel_h = 1
  BY DEF OneByOne
<1>5. TileMaxHeight(s) \in Nat \ {0} /\ WidthStride(s) \in Nat \ {0} /\ TileElems \in Nat
  BY TileFacts, RowStride, CaseAssumption
<1>6. OneByOne(s) /\ rows > 1 => rows * WidthStride(s) <= TileElems
  <2> SUFFICES ASSUME OneByOne(s), rows > 1 PROVE rows * WidthStride(s) <= TileElems
    OBVIOUS
  <2>1. rows <= TileMaxHeight(s)
    BY <1>1, <1>2, <1>5 DEF UseTile
  <2>2. rows * WidthStride(s) <= TileMaxHeight(s) * WidthStride(s)
    BY <1>5, <2>1, MulMonotone
  <2>3. TileMaxHeight(s) * WidthStride(s) <= TileElems
    BY <1>5, <2>1, TileFacts
  <2> QED BY <1>5, <2>2, <2>3
<1>7. CASE UseTile(s)
  <2>1. p = Params(s, rows, rows, FlatStride(W * rows)) /\ OneByOne(s)
    BY <1>2, <1>7 DEF JobParams, TileParams, UseTile
  <2>2. W * rows \in Nat \ {0}
    BY <1>1
  <2>3. FlatStride(W * rows) \in Nat \ {0}
    BY <2>2, FlatStrideFacts
  <2>4. /\ p.out_width_stride = FlatStride(W * rows)
        /\ p.out_height = rows /\ p.in_height = rows /\ p.kernel_h = s.kernel_h
        /\ p.width_stride = WidthStride(s)
    BY <2>1 DEF Params
  <2>5. SameKernel(s, p)
    BY <2>1 DEF Params, SameKernel
  <2>6. JobHeight(s, p)
    BY <1>1, <1>2, <1>4, <1>6, <2>1, <2>4 DEF JobHeight
  <2>7. Strides(s, p)
    BY <2>1, <2>3, <2>4 DEF Strides
  <2> QED BY <2>5, <2>6, <2>7
<1>8. CASE ~UseTile(s)
  <2>1. p = Params(s, s.in_height, H, OutWidthStride(s)) /\ rows = H
    BY <1>2, <1>8 DEF JobParams, WholeParams
  <2>2. OutWidthStride(s) \in Nat \ {0}
    BY OutStrideFacts
  <2>3. OneByOne(s) => OutWidthStride(s) = FlatStride(W * H)
    BY OutStrideFacts
  <2>4. /\ p.out_width_stride = OutWidthStride(s)
        /\ p.out_height = H /\ p.in_height = s.in_height /\ p.kernel_h = s.kernel_h
        /\ p.width_stride = WidthStride(s)
    BY <2>1 DEF Params
  <2>5. SameKernel(s, p)
    BY <2>1 DEF Params, SameKernel
  <2>6. JobHeight(s, p)
    BY <1>1, <1>2, <1>3, <1>6, <2>1, <2>4 DEF JobHeight
  <2>7. Strides(s, p)
    BY <2>2, <2>3, <2>4 DEF Strides
  <2> QED BY <2>5, <2>6, <2>7
<1> QED BY <1>7, <1>8

-----------------------------------------------------------------------------
(* The input: its places are those of an array of rows and channels, or of *)
(* planes of c2 channels; the buffer has room for either.                  *)

LEMMA PackC2 ==
  ASSUME NEW s \in Shapes, NEW p, SameKernel(s, p)
  PROVE  /\ p.align_c \in Nat \ {0}
         /\ InputPackC2(p, p.align_c) \in Nat \ {0}
         /\ ~UseNhwcPack(p, InputPackC2(p, p.align_c)) =>
              /\ ~UseNhwcPack(p, p.align_c)
              /\ AlignUp(p.in_channels, InputPackC2(p, p.align_c))
                   <= AlignUp(p.in_channels, p.align_c)
<1> DEFINE c2 == InputPackC2(p, p.align_c)
           A == Input(p, 16, 18, 18) /\ p.out_channels = 16 /\ Kernel(p, 3, 3)
           B == /\ Input(p, 1, 5, 7) /\ p.out_channels = 6 /\ Kernel(p, 3, 3)
                /\ ParamGroups(p) = 1
<1>1. p.align_c \in {8, 16} /\ p.in_channels \in Nat \ {0} /\ p.in_width <= p.width_stride
  <2>1. s.in_width <= WidthStride(s) /\ s.in_channels \in Nat \ {0}
    BY ShapeType, RowStride
  <2>2. p.align_c = 16 \/ p.align_c = 8
    BY DEF SameKernel
  <2>3. p.in_channels = s.in_channels /\ p.in_width = s.in_width /\ p.width_stride = WidthStride(s)
    BY DEF SameKernel
  <2> QED BY <2>1, <2>2, <2>3
<1>2. AlignUp(p.in_channels, p.align_c) \in Nat \ {0}
  <2>1. p.align_c \in Nat \ {0}
    BY <1>1
  <2> QED BY <1>1, <2>1, AlignUpFacts
<1>3. CASE A
  <2>1. c2 = 8 /\ p.in_channels = 16
    BY <1>3 DEF InputPackC2, Input
  <2>2. AlignUp(16, 8) = 16 /\ AlignUp(16, 16) = 16
    BY DEF AlignUp, CeilDiv
  <2>3. p.align_c \div p.in_channels # 2
    BY <1>1, <2>1
  <2> QED BY <1>1, <2>1, <2>2, <2>3 DEF UseNhwcPack
<1>4. CASE B
  <2>1. c2 = 2 /\ p.in_channels = 1
    BY <1>4 DEF InputPackC2, Input
  <2>2. UseNhwcPack(p, 2)
    BY <1>1, <2>1 DEF UseNhwcPack, Input
  <2> QED BY <1>1, <2>1, <2>2
<1>5. CASE ~A /\ ~B
  <2>1. c2 = p.align_c
    BY <1>5 DEF InputPackC2
  <2> QED BY <1>1, <1>2, <2>1
<1> QED BY <1>3, <1>4, <1>5

LEMMA PackPlaces ==
  ASSUME NEW s \in Shapes, NEW p, SameKernel(s, p), p.in_height \in Nat \ {0},
         NEW c \in 0..(p.in_channels - 1), NEW h \in 0..(p.in_height - 1),
         NEW w \in 0..(p.in_width - 1),
         NEW d \in 0..(p.in_channels - 1), NEW g \in 0..(p.in_height - 1),
         NEW v \in 0..(p.in_width - 1)
  PROVE  /\ PackIndex(p, c, h, w) \in 0..(InputElems(p) - 1)
         /\ PackIndex(p, c, h, w) = PackIndex(p, d, g, v) => c = d /\ h = g /\ w = v
<1> DEFINE c2 == InputPackC2(p, p.align_c)
           C1 == CeilDiv(p.in_channels, c2)
           nc == p.in_channels
           H == p.in_height
           W == p.width_stride
<1>1. /\ nc \in Nat \ {0} /\ H \in Nat \ {0} /\ W \in Nat \ {0} /\ p.in_width \in Nat \ {0}
      /\ p.in_width <= W
  BY ShapeType, RowStride DEF SameKernel
<1>2. /\ c2 \in Nat \ {0} /\ p.align_c \in Nat \ {0}
      /\ ~UseNhwcPack(p, c2) =>
           ~UseNhwcPack(p, p.align_c) /\ AlignUp(nc, c2) <= AlignUp(nc, p.align_c)
  BY PackC2
<1>3. /\ C1 \in Nat \ {0} /\ AlignUp(nc, c2) = C1 * c2
      /\ \A k \in 0..(nc - 1) : k \div c2 \in 0..(C1 - 1)
  <2> HIDE DEF c2
  <2> QED BY <1>1, <1>2, AlignUpFacts
<1>4. nc <= AlignUp(nc, p.align_c) /\ AlignUp(nc, p.align_c) \in Nat
  BY <1>1, <1>2, AlignUpFacts
<1>5. /\ c \in 0..(nc - 1) /\ h \in 0..(H - 1) /\ w \in 0..(W - 1)
      /\ d \in 0..(nc - 1) /\ g \in 0..(H - 1) /\ v \in 0..(W - 1)
      /\ c \in Nat /\ h \in Nat /\ d \in Nat /\ g \in Nat
  BY <1>1
<1>6. CASE UseNhwcPack(p, c2)
  <2>1. /\ PackIndex(p, c, h, w) = Flat3(W, nc, h, w, c)
        /\ PackIndex(p, d, g, v) = Flat3(W, nc, g, v, d)
    BY <1>6 DEF PackIndex, Flat3, Flat
  <2>2. (H * W) * nc <= InputElems(p) /\ InputElems(p) \in Nat /\ (H * W) * nc \in Nat
    <3>1. H * W \in Nat /\ (H * W) * nc \in Nat
      BY <1>1
    <3>2. CASE UseNhwcPack(p, p.align_c)
      BY <3>1, <3>2 DEF InputElems
    <3>3. CASE ~UseNhwcPack(p, p.align_c)
      <4>1. InputElems(p) = (AlignUp(nc, p.align_c) * H) * W
        BY <3>3 DEF InputElems
      <4>2. (AlignUp(nc, p.align_c) * H) * W = AlignUp(nc, p.align_c) * (H * W)
        BY <1>1, <1>4
      <4>3. nc * (H * W) <= AlignUp(nc, p.align_c) * (H * W)
        BY <1>1, <1>4, <3>1, MulMonotone
      <4>4. nc * (H * W) = (H * W) * nc /\ AlignUp(nc, p.align_c) * (H * W) \in Nat
        BY <1>1, <1>4, <3>1
      <4> QED BY <3>1, <4>1, <4>2, <4>3, <4>4
    <3> QED BY <3>2, <3>3
  <2> HIDE DEF nc, H, W
  <2>3. Flat3(W, nc, h, w, c) \in 0..((H * W) * nc - 1)
    BY <1>1, <1>5, Flat3Inside
  <2>4. Flat3(W, nc, h, w, c) = Flat3(W, nc, g, v, d) => c = d /\ h = g /\ w = v
    BY <1>1, <1>5, Flat3Parts
  <2> QED BY <2>1, <2>2, <2>3, <2>4
<1>7. CASE ~UseNhwcPack(p, c2)
  <2>1. /\ PackIndex(p, c, h, w) = Flat4(H, W, c2, c \div c2, h, w, c % c2)
        /\ PackIndex(p, d, g, v) = Flat4(H, W, c2, d \div c2, g, v, d % c2)
    BY <1>7 DEF PackIndex, Flat4, Flat3, Flat
  <2>2. ((C1 * H) * W) * c2 <= InputElems(p) /\ InputElems(p) \in Nat /\ ((C1 * H) * W) * c2 \in Nat
    <3> DEFINE a == AlignUp(nc, p.align_c)
    <3>1. InputElems(p) = (a * H) * W
      BY <1>2, <1>7 DEF InputElems
    <3>2. C1 * c2 <= a /\ C1 * c2 \in Nat /\ a \in Nat
      BY <1>2, <1>3, <1>4, <1>7
    <3> HIDE DEF a, C1, c2, nc, H, W
    <3>3. (C1 * c2) * H <= a * H /\ (C1 * c2) * H \in Nat /\ a * H \in Nat
      BY <1>1, <3>2, MulMonotone
    <3>4. ((C1 * c2) * H) * W <= (a * H) * W /\ ((C1 * c2) * H) * W \in Nat /\ (a * H) * W \in Nat
      BY <1>1, <3>3, MulMonotone
    <3>5. ((C1 * c2) * H) * W = ((C1 * H) * W) * c2
      BY <1>1, <1>2, <1>3
    <3> QED BY <3>1, <3>4, <3>5
  <2> HIDE DEF c2, C1, nc, H, W
  <2> DEFINE q == c \div c2
             r == c % c2
             k == d \div c2
             l == d % c2
  <2>3. /\ q \in 0..(C1 - 1) /\ r \in 0..(c2 - 1) /\ c = q * c2 + r /\ q \in Nat
        /\ k \in 0..(C1 - 1) /\ l \in 0..(c2 - 1) /\ d = k * c2 + l /\ k \in Nat
    BY <1>2, <1>3, <1>5, DivMod
  <2> HIDE DEF q, r, k, l
  <2>4. Flat4(H, W, c2, q, h, w, r) \in 0..(((C1 * H) * W) * c2 - 1)
    <3>1. /\ C1 \in Nat /\ H \in Nat \ {0} /\ W \in Nat \ {0} /\ c2 \in Nat \ {0}
          /\ q \in 0..(C1 - 1) /\ h \in 0..(H - 1) /\ w \in 0..(W - 1) /\ r \in 0..(c2 - 1)
      BY <1>1, <1>2, <1>3, <1>5, <2>3
    <3> DEFINE m == (C1 * H) * W
               u == Flat3(H, W, q, h, w)
    <3>2. u \in 0..(m - 1)
      BY <3>1, Flat3Inside
    <3>3. m \in Nat
      BY <3>1
    <3> HIDE DEF m, u
    <3>4. Flat(c2, u, r) \in 0..(m * c2 - 1)
      BY <3>1, <3>2, <3>3, FlatInside
    <3> QED BY <3>4 DEF m, u, Flat4
  <2>5. ASSUME Flat4(H, W, c2, q, h, w, r) = Flat4(H, W, c2, k, g, v, l)
        PROVE  q = k /\ h = g /\ w = v /\ r = l
    BY <1>1, <1>2, <1>5, <2>3, <2>5, Flat4Parts
  <2>6. /\ PackIndex(p, c, h, w) = Flat4(H, W, c2, q, h, w, r)
        /\ PackIndex(p, d, g, v) = Flat4(H, W, c2, k, g, v, l)
    BY <2>1 DEF q, r, k, l
  <2> QED BY <2>2, <2>3, <2>4, <2>5, <2>6
<1> QED BY <1>6, <1>7

-----------------------------------------------------------------------------
(* The kernel: three orders, in a buffer of all the lanes.                 *)

LEMMA LaneFacts ==
  ASSUME NEW s \in Shapes, NEW p, SameKernel(s, p)
  PROVE  /\ p.align_c \in Nat \ {0} /\ Lanes(p) \in Nat \ {0}
         /\ p.in_channels <= Lanes(p) /\ p.align_c <= Lanes(p)
<1>1. p.align_c \in Nat \ {0} /\ p.in_channels \in Nat \ {0}
  BY ShapeType DEF SameKernel
<1> DEFINE q == CeilDiv(p.in_channels, p.align_c)
<1>2. /\ q \in Nat \ {0} /\ AlignUp(p.in_channels, p.align_c) = q * p.align_c
      /\ AlignUp(p.in_channels, p.align_c) \in Nat \ {0}
      /\ p.in_channels <= AlignUp(p.in_channels, p.align_c)
  BY <1>1, AlignUpFacts
<1> HIDE DEF q
<1>3. 1 * p.align_c <= q * p.align_c /\ 1 * p.align_c = p.align_c
  BY <1>1, <1>2, MulMonotone
<1> QED BY <1>1, <1>2, <1>3 DEF Lanes

LEMMA SlotPlaces ==
  ASSUME NEW s \in Shapes, NEW p, SameKernel(s, p),
         NEW oc \in 0..(p.out_channels - 1), NEW ic \in 0..(p.in_channels - 1),
         NEW h \in 0..(p.kernel_h - 1), NEW w \in 0..(p.kernel_w - 1),
         NEW od \in 0..(p.out_channels - 1), NEW id \in 0..(p.in_channels - 1),
         NEW g \in 0..(p.kernel_h - 1), NEW v \in 0..(p.kernel_w - 1),
         DepthwiseSpatial(p) => oc = ic /\ od = id
  PROVE  /\ Slot(p, oc, ic, h, w) \in 0..(KernelElems(p) - 1)
         /\ Slot(p, oc, ic, h, w) = Slot(p, od, id, g, v) =>
              oc = od /\ ic = id /\ h = g /\ w = v
<1> DEFINE OC == p.out_channels
           KH == p.kernel_h
           KW == p.kernel_w
           L == Lanes(p)
           A == p.align_c
<1>1. /\ OC \in Nat \ {0} /\ KH \in Nat \ {0} /\ KW \in Nat \ {0}
      /\ L \in Nat \ {0} /\ A \in Nat \ {0} /\ p.in_channels <= L /\ A <= L
      /\ p.in_channels \in Nat
  BY ShapeType, LaneFacts DEF SameKernel
<1>2. /\ oc \in 0..(OC - 1) /\ ic \in 0..(L - 1) /\ h \in 0..(KH - 1) /\ w \in 0..(KW - 1)
      /\ od \in 0..(OC - 1) /\ id \in 0..(L - 1) /\ g \in 0..(KH - 1) /\ v \in 0..(KW - 1)
      /\ oc \in Nat /\ h \in Nat /\ od \in Nat /\ g \in Nat
  BY <1>1
<1>3. KernelElems(p) = ((OC * KH) * KW) * L
  BY DEF KernelElems
<1>4. CASE DepthwiseSpatial(p)
  <2>1. /\ Slot(p, oc, ic, h, w) = Flat3(KW, A, h, w, oc)
        /\ Slot(p, od, id, g, v) = Flat3(KW, A, g, v, od)
    BY <1>4 DEF Slot, Flat3, Flat
  <2>2. OC <= A /\ oc = ic /\ od = id
    BY <1>4 DEF DepthwiseSpatial
  <2> HIDE DEF OC, KH, KW, L, A
  <2>3. oc \in 0..(A - 1) /\ od \in 0..(A - 1)
    BY <1>1, <1>2, <2>2
  <2>4. Flat3(KW, A, h, w, oc) \in 0..((KH * KW) * A - 1)
    BY <1>1, <1>2, <2>3, Flat3Inside
  <2>5. (KH * KW) * A <= ((OC * KH) * KW) * L /\ ((OC * KH) * KW) * L \in Nat
    <3>1. KH * KW \in Nat /\ (KH * KW) * A \in Nat /\ (KH * KW) * L \in Nat
      BY <1>1
    <3>2. A * (KH * KW) <= L * (KH * KW)
      BY <1>1, <3>1, MulMonotone
    <3>3. 1 * ((KH * KW) * L) <= OC * ((KH * KW) * L)
      BY <1>1, <3>1, MulMonotone
    <3>4. /\ OC * ((KH * KW) * L) = ((OC * KH) * KW) * L
          /\ A * (KH * KW) = (KH * KW) * A /\ L * (KH * KW) = (KH * KW) * L
          /\ ((OC * KH) * KW) * L \in Nat
      BY <1>1
    <3> QED BY <3>1, <3>2, <3>3, <3>4
  <2>6. Flat3(KW, A, h, w, oc) = Flat3(KW, A, g, v, od) => h = g /\ w = v /\ oc = od
    BY <1>1, <1>2, <2>3, Flat3Parts
  <2>7. (KH * KW) * A \in Nat
    BY <1>1
  <2> QED BY <1>3, <2>1, <2>2, <2>4, <2>5, <2>6, <2>7
<1>5. CASE ~DepthwiseSpatial(p) /\ KhMajor(p)
  <2>1. /\ Slot(p, oc, ic, h, w) = Flat4(KW, OC, L, h, w, oc, ic)
        /\ Slot(p, od, id, g, v) = Flat4(KW, OC, L, g, v, od, id)
    BY <1>5 DEF Slot, Flat4, Flat3, Flat
  <2> HIDE DEF OC, KH, KW, L, A
  <2>2. Flat4(KW, OC, L, h, w, oc, ic) \in 0..(((KH * KW) * OC) * L - 1)
    BY <1>1, <1>2, Flat4Inside
  <2>3. ((KH * KW) * OC) * L = ((OC * KH) * KW) * L
    BY <1>1
  <2>4. Flat4(KW, OC, L, h, w, oc, ic) = Flat4(KW, OC, L, g, v, od, id) =>
          h = g /\ w = v /\ oc = od /\ ic = id
    BY <1>1, <1>2, Flat4Parts
  <2> QED BY <1>3, <2>1, <2>2, <2>3, <2>4
<1>6. CASE ~DepthwiseSpatial(p) /\ ~KhMajor(p)
  <2>1. /\ Slot(p, oc, ic, h, w) = Flat4(KH, KW, L, oc, h, w, ic)
        /\ Slot(p, od, id, g, v) = Flat4(KH, KW, L, od, g, v, id)
    BY <1>6 DEF Slot, Flat4, Flat3, Flat
  <2> HIDE DEF OC, KH, KW, L, A
  <2>2. Flat4(KH, KW, L, oc, h, w, ic) \in 0..(((OC * KH) * KW) * L - 1)
    BY <1>1, <1>2, Flat4Inside
  <2>3. Flat4(KH, KW, L, oc, h, w, ic) = Flat4(KH, KW, L, od, g, v, id) =>
          oc = od /\ h = g /\ w = v /\ ic = id
    BY <1>1, <1>2, Flat4Parts
  <2> QED BY <1>3, <2>1, <2>2, <2>3
<1> QED BY <1>4, <1>5, <1>6

(* What PackInside says of one job.                                        *)
Packed(p) ==
  LET elements == (0..(p.in_channels - 1)) \X (0..(p.in_height - 1)) \X (0..(p.in_width - 1))
      places == {PackIndex(p, e[1], e[2], e[3]) : e \in elements}
      slots == {Slot(p, k[1], k[2], k[3], k[4]) : k \in Written(p)}
  IN  /\ places \subseteq 0..(InputElems(p) - 1)
      /\ Cardinality(places) = p.in_channels * p.in_height * p.in_width
      /\ slots \subseteq 0..(KernelElems(p) - 1)
      /\ Cardinality(slots) = Cardinality(Written(p))

LEMMA JobIsPacked ==
  ASSUME NEW s \in Shapes, Accepted(s), NEW p, JobOf(s, p)
  PROVE  Packed(p)
<1> DEFINE elements == (0..(p.in_channels - 1)) \X (0..(p.in_height - 1)) \X (0..(p.in_width - 1))
           place == [e \in elements |-> PackIndex(p, e[1], e[2], e[3])]
           slot == [k \in Written(p) |-> Slot(p, k[1], k[2], k[3], k[4])]
<1>1. SameKernel(s, p) /\ JobHeight(s, p)
  BY JobFields
<1>2. /\ p.in_channels \in Nat \ {0} /\ p.in_width \in Nat \ {0} /\ p.out_channels \in Nat \ {0}
      /\ p.kernel_h \in Nat \ {0} /\ p.kernel_w \in Nat \ {0} /\ p.in_height \in Nat \ {0}
  <2>1. /\ p.in_channels \in Nat \ {0} /\ p.in_width \in Nat \ {0} /\ p.out_channels \in Nat \ {0}
        /\ p.kernel_h \in Nat \ {0} /\ p.kernel_w \in Nat \ {0}
    BY <1>1, ShapeType DEF SameKernel
  <2>2. OutHeight(s) \in Nat
    BY OutputSize
  <2> QED BY <1>1, <2>1, <2>2 DEF JobHeight
<1>3. \A e \in elements : place[e] \in 0..(InputElems(p) - 1)
  BY <1>1, <1>2, PackPlaces
<1>4. \A e, f \in elements : place[e] = place[f] => e = f
  <2> SUFFICES ASSUME NEW e \in elements, NEW f \in elements, place[e] = place[f]
               PROVE  e = f
    OBVIOUS
  <2>1. e[1] = f[1] /\ e[2] = f[2] /\ e[3] = f[3]
    BY <1>1, <1>2, PackPlaces
  <2> QED BY <2>1
<1>5. \A k \in Written(p) : slot[k] \in 0..(KernelElems(p) - 1)
  <2> SUFFICES ASSUME NEW k \in Written(p)
               PROVE  slot[k] \in 0..(KernelElems(p) - 1)
    OBVIOUS
  <2>1. /\ k[1] \in 0..(p.out_channels - 1) /\ k[2] \in 0..(p.in_channels - 1)
        /\ k[3] \in 0..(p.kernel_h - 1) /\ k[4] \in 0..(p.kernel_w - 1)
        /\ (DepthwiseSpatial(p) => k[1] = k[2])
    BY DEF Written
  <2> QED BY <1>1, <2>1, SlotPlaces
<1>6. \A k, j \in Written(p) : slot[k] = slot[j] => k = j
  <2> SUFFICES ASSUME NEW k \in Written(p), NEW j \in Written(p), slot[k] = slot[j]
               PROVE  k = j
    OBVIOUS
  <2>1. /\ k[1] \in 0..(p.out_channels - 1) /\ k[2] \in 0..(p.in_channels - 1)
        /\ k[3] \in 0..(p.kernel_h - 1) /\ k[4] \in 0..(p.kernel_w - 1)
        /\ (DepthwiseSpatial(p) => k[1] = k[2])
        /\ k = <<k[1], k[2], k[3], k[4]>>
    BY DEF Written
  <2>2. /\ j[1] \in 0..(p.out_channels - 1) /\ j[2] \in 0..(p.in_channels - 1)
        /\ j[3] \in 0..(p.kernel_h - 1) /\ j[4] \in 0..(p.kernel_w - 1)
        /\ (DepthwiseSpatial(p) => j[1] = j[2])
        /\ j = <<j[1], j[2], j[3], j[4]>>
    BY DEF Written
  <2>3. Slot(p, k[1], k[2], k[3], k[4]) = Slot(p, j[1], j[2], j[3], j[4])
    OBVIOUS
  <2>4. k[1] = j[1] /\ k[2] = j[2] /\ k[3] = j[3] /\ k[4] = j[4]
    BY <1>1, <2>1, <2>2, <2>3, SlotPlaces
  <2> QED BY <2>1, <2>2, <2>4
<1>7. IsFiniteSet(elements) /\ Cardinality(elements) = p.in_channels * p.in_height * p.in_width
  BY <1>2, BoxCounts
<1>8. IsFiniteSet(Written(p))
  <2> DEFINE all == Box4(p.out_channels, p.in_channels, p.kernel_h, p.kernel_w)
  <2>1. IsFiniteSet(all)
    BY <1>2, FourCounts
  <2>2. Written(p) \subseteq all
    BY DEF Written, Box4
  <2> QED BY <2>1, <2>2, FS_Subset
<1> HIDE DEF elements
<1>9. Cardinality({place[e] : e \in elements}) = Cardinality(elements)
  <2> HIDE DEF place
  <2> QED BY <1>4, <1>7, InjectionCounts
<1>10. Cardinality({slot[k] : k \in Written(p)}) = Cardinality(Written(p))
  <2> HIDE DEF slot
  <2> QED BY <1>6, <1>8, InjectionCounts
<1>11. {place[e] : e \in elements} = {PackIndex(p, e[1], e[2], e[3]) : e \in elements}
  OBVIOUS
<1>12. {slot[k] : k \in Written(p)} = {Slot(p, k[1], k[2], k[3], k[4]) : k \in Written(p)}
  OBVIOUS
<1>13. /\ {PackIndex(p, e[1], e[2], e[3]) : e \in elements} \subseteq 0..(InputElems(p) - 1)
       /\ {Slot(p, k[1], k[2], k[3], k[4]) : k \in Written(p)} \subseteq 0..(KernelElems(p) - 1)
  <2> HIDE DEF place, slot
  <2> QED BY <1>3, <1>5, <1>11, <1>12
<1> HIDE DEF place, slot
<1> QED BY <1>7, <1>9, <1>10, <1>11, <1>12, <1>13 DEF Packed, elements

-----------------------------------------------------------------------------
(* The output.                                                             *)

LEMMA LastIndex ==
  ASSUME NEW c1 \in Nat, NEW m \in Nat \ {0}, c1 + 1 <= 2 * m,
         NEW st \in Nat \ {0}, NEW H \in Nat \ {0}, NEW W \in Nat \ {0}
  PROVE  /\ H * W <= st => (c1 * st + H * W) * 8 <= (m * 16) * st
         /\ W <= st =>
              /\ (c1 * st + H * W) * 8 <= ((m * 16) * st) * H
              /\ (c1 * (H * W) + H * W) * 8 <= ((m * 16) * st) * H
         /\ c1 = 0 /\ W <= 2 * st => (H * W) * 8 <= ((m * 16) * st) * H
<1>1. (c1 + 1) * st <= (2 * m) * st /\ (c1 + 1) * st = c1 * st + st
      /\ (2 * m) * st = 2 * (m * st) /\ (m * 16) * st = 16 * (m * st)
      /\ m * st \in Nat /\ c1 * st \in Nat
  BY MulMonotone
<1>2. ((m * 16) * st) * H = 16 * ((m * st) * H) /\ (m * st) * H \in Nat /\ H * W \in Nat
  BY <1>1
<1>3. st <= m * st
  <2>1. 1 * st <= m * st
    BY MulMonotone
  <2> QED BY <2>1
<1>4. ASSUME W <= st
      PROVE  c1 * st + H * W <= 2 * ((m * st) * H) /\ c1 * (H * W) + H * W <= 2 * ((m * st) * H)
  <2>1. W * H <= st * H /\ W * H = H * W /\ st * H \in Nat
    BY <1>4, MulMonotone
  <2>2. (c1 + 1) * (st * H) <= (2 * m) * (st * H) /\ (c1 + 1) * (st * H) = c1 * (st * H) + st * H
    BY <2>1, MulMonotone
  <2>3. (2 * m) * (st * H) = 2 * ((m * st) * H)
    OBVIOUS
  <2>4. c1 * st <= c1 * (st * H)
    <3>1. 1 * (c1 * st) <= H * (c1 * st) /\ H * (c1 * st) = c1 * (st * H)
      BY <1>1, MulMonotone
    <3> QED BY <1>1, <3>1
  <2>5. c1 * (H * W) <= c1 * (st * H)
    <3>1. (H * W) * c1 <= (st * H) * c1
      BY <1>2, <2>1, MulMonotone
    <3> QED BY <1>2, <2>1, <3>1
  <2>6. c1 * (st * H) \in Nat /\ c1 * (H * W) \in Nat
    BY <1>2, <2>1
  <2> QED BY <1>1, <1>2, <2>1, <2>2, <2>3, <2>4, <2>5, <2>6
<1>5. ASSUME W <= 2 * st
      PROVE  H * W <= 2 * ((m * st) * H)
  <2>1. W * H <= (2 * st) * H /\ W * H = H * W /\ (2 * st) * H = 2 * (st * H) /\ st * H \in Nat
    BY <1>5, MulMonotone
  <2>2. st * H <= (m * st) * H
    BY <1>1, <1>3, MulMonotone
  <2> QED BY <1>2, <2>1, <2>2
<1> QED BY <1>1, <1>2, <1>4, <1>5

(* What OutputInside says of one job.                                      *)
OutputFits(s, p) ==
  \A oc \in {7, p.out_channels - 1} \cap (0..(p.out_channels - 1)) :
    /\ WriteIndex(p, oc, p.out_height - 1, p.out_width - 1) < OutputElems(p)
    /\ ReadIndex(s, p, oc, p.out_height - 1, p.out_width - 1) < OutputElems(p)

LEMMA JobOutputFits ==
  ASSUME NEW s \in Shapes, Accepted(s), RoomForRows(s), NEW p, JobOf(s, p)
  PROVE  OutputFits(s, p)
<1> DEFINE H == p.out_height
           W == p.out_width
           st == p.out_width_stride
<1>1. SameKernel(s, p) /\ JobHeight(s, p) /\ Strides(s, p)
  BY JobFields
<1>2. /\ H \in Nat \ {0} /\ W \in Nat \ {0} /\ st \in Nat \ {0}
      /\ p.out_channels \in Nat \ {0} /\ (OneByOne(p) <=> OneByOne(s))
      /\ W = OutWidth(s) /\ p.out_channels = s.out_channels
  <2>1. OutHeight(s) \in Nat /\ OutWidth(s) \in Nat \ {0}
    BY OutputSize
  <2>2. W = OutWidth(s) /\ p.kernel_h = s.kernel_h /\ p.kernel_w = s.kernel_w
        /\ p.out_channels = s.out_channels
    BY <1>1 DEF SameKernel
  <2>3. H \in 1..OutHeight(s) /\ st \in Nat \ {0}
    BY <1>1 DEF JobHeight, Strides
  <2> QED BY <2>1, <2>2, <2>3, ShapeType DEF OneByOne
<1>3. PICK m \in Nat \ {0} : p.align_out_c = m * 16
  <2>1. p.align_out_c = AlignOut(s)
    BY <1>1 DEF SameKernel
  <2> QED BY <2>1, AlignOutFacts
<1>4. p.out_channels <= m * 16
  BY <1>1, <1>3, AlignOutFacts DEF SameKernel
(* The buffer.                                                             *)
<1>5. (m * 16) * st <= AlignUp(p.out_channels, p.align_out_c) * st
  <2>1. m * 16 \in Nat \ {0} /\ p.align_out_c \in Nat \ {0}
    BY <1>3
  <2> DEFINE q == CeilDiv(p.out_channels, p.align_out_c)
  <2>2. q \in Nat \ {0} /\ AlignUp(p.out_channels, p.align_out_c) = q * p.align_out_c
    BY <1>2, <2>1, AlignUpFacts
  <2> HIDE DEF q
  <2>3. 1 * (m * 16) <= q * (m * 16) /\ q * (m * 16) \in Nat
    BY <2>1, <2>2, MulMonotone
  <2>4. (m * 16) * st <= (q * (m * 16)) * st
    BY <1>2, <2>1, <2>3, MulMonotone
  <2> QED BY <1>3, <2>2, <2>4
<1>6. /\ AlignUp(p.out_channels, p.align_out_c) \in Nat
      /\ AlignUp(p.out_channels, p.align_out_c) * st \in Nat /\ (m * 16) * st \in Nat
  <2>1. m * 16 \in Nat \ {0}
    OBVIOUS
  <2>2. AlignUp(p.out_channels, p.align_out_c) \in Nat
    BY <1>2, <1>3, <2>1, AlignUpFacts
  <2> QED BY <1>2, <2>1, <2>2
<1>7. /\ OutputElems(p) \in Nat
      /\ OneByOne(p) => (m * 16) * st <= OutputElems(p)
      /\ ~OneByOne(p) => ((m * 16) * st) * H <= OutputElems(p)
  <2> DEFINE a == AlignUp(p.out_channels, p.align_out_c)
  <2>1. OutputElems(p) = (a * st) * (IF OneByOne(p) THEN 1 ELSE H)
    BY DEF OutputElems
  <2> HIDE DEF a, H, st
  <2>2. ((m * 16) * st) * H <= (a * st) * H /\ (a * st) * H \in Nat
    BY <1>2, <1>5, <1>6, MulMonotone DEF a
  <2> QED BY <1>5, <1>6, <2>1, <2>2 DEF a
(* A plane.                                                                *)
<1>8. DstSurfStride(p) = st
  <2>1. W * H \in Nat \ {0}
    BY <1>2
  <2>2. OneByOne(p) => st = FlatStride(W * H)
    BY <1>1, <1>2 DEF Strides
  <2>3. W * H < 4 => FlatStride(W * H) = W * H
    BY <2>1, FlatStrideFacts
  <2> QED BY <2>2, <2>3 DEF DstSurfStride
<1>9. OneByOne(p) => H * W <= st
  <2>1. W * H \in Nat \ {0} /\ W * H = H * W
    BY <1>2
  <2> QED BY <1>1, <1>2, <2>1, FlatStrideFacts DEF Strides
<1>10. ~OneByOne(p) => W <= st \/ (p.out_channels <= 8 /\ W <= 2 * st)
  BY <1>1, <1>2, OutStrideFacts DEF RowFits, Strides
<1>11. \/ PlaneStride(s, p) = st * 8
       \/ ~OneByOne(p) /\ PlaneStride(s, p) = (H * W) * 8
  <2>1. CASE OneByOne(p)
    BY <1>2, <2>1 DEF PlaneStride, is_11555_35333_g5, OneByOne, Kernel
  <2>2. CASE is_11555_35333_g5(s)
    <3>1. H = 3 /\ W = 3 /\ st = 12
      BY <1>1, <1>2, <2>2 DEF Strides, OutHeight, OutWidth, OutWidthStride, is_11555_35333_g5,
           is_161818_161633, OneByOne, Kernel, Input
    <3>2. PlaneStride(s, p) = H * W * 8 + st * 2
      BY <1>2, <2>2 DEF PlaneStride, is_11555_35333_g5, OneByOne, Kernel
    <3> QED BY <3>1, <3>2
  <2>3. CASE ~OneByOne(p) /\ ~is_11555_35333_g5(s)
    BY <2>3 DEF PlaneStride
  <2> QED BY <2>1, <2>2, <2>3
(* The last element of a channel.                                          *)
<1>12. SUFFICES ASSUME NEW oc \in 0..(p.out_channels - 1)
                PROVE  /\ WriteIndex(p, oc, H - 1, W - 1) < OutputElems(p)
                       /\ ReadIndex(s, p, oc, H - 1, W - 1) < OutputElems(p)
  BY DEF OutputFits
<1> DEFINE c1 == oc \div 8
<1>13. /\ c1 \in Nat /\ oc % 8 \in 0..7 /\ c1 + 1 <= 2 * m
       /\ p.out_channels <= 8 => c1 = 0
  BY <1>2, <1>4
<1>14. /\ WriteIndex(p, oc, H - 1, W - 1) = (c1 * st + ((H - 1) * W + (W - 1))) * 8 + (oc % 8)
       /\ ReadIndex(s, p, oc, H - 1, W - 1)
            = c1 * PlaneStride(s, p) + ((H - 1) * W + (W - 1)) * 8 + (oc % 8)
  <2>1. c1 * st \in Nat /\ (H - 1) * W \in Nat
    BY <1>2, <1>13
  <2>2. WriteIndex(p, oc, H - 1, W - 1) = (c1 * st + (H - 1) * W + (W - 1)) * 8 + (oc % 8)
    BY <1>8 DEF WriteIndex
  <2> HIDE DEF c1, H, W, st
  <2>3. (c1 * st + (H - 1) * W + (W - 1)) = (c1 * st + ((H - 1) * W + (W - 1)))
    BY <1>2, <2>1
  <2> QED BY <2>2, <2>3 DEF ReadIndex, c1, H, W
<1> HIDE DEF c1, H, W, st
<1>15. (H - 1) * W + (W - 1) = H * W - 1 /\ H * W \in Nat \ {0} /\ c1 * st \in Nat
       /\ c1 * (H * W) \in Nat
  BY <1>2, <1>13
<1>16. WriteIndex(p, oc, H - 1, W - 1) < (c1 * st + H * W) * 8
  BY <1>13, <1>14, <1>15
<1>17. \/ ReadIndex(s, p, oc, H - 1, W - 1) < (c1 * st + H * W) * 8
       \/ ~OneByOne(p) /\ ReadIndex(s, p, oc, H - 1, W - 1) < (c1 * (H * W) + H * W) * 8
  <2>1. c1 * (st * 8) = (c1 * st) * 8 /\ c1 * ((H * W) * 8) = (c1 * (H * W)) * 8
    BY <1>2, <1>13
  <2> QED BY <1>11, <1>13, <1>14, <1>15, <2>1
<1>18. /\ (c1 * st + H * W) * 8 <= OutputElems(p)
       /\ ~OneByOne(p) => (c1 * (H * W) + H * W) * 8 <= OutputElems(p)
  <2>1. /\ H * W <= st => (c1 * st + H * W) * 8 <= (m * 16) * st
        /\ W <= st =>
             /\ (c1 * st + H * W) * 8 <= ((m * 16) * st) * H
             /\ (c1 * (H * W) + H * W) * 8 <= ((m * 16) * st) * H
        /\ c1 = 0 /\ W <= 2 * st => (H * W) * 8 <= ((m * 16) * st) * H
    BY <1>2, <1>13, LastIndex
  <2>2. ((m * 16) * st) * H \in Nat /\ (m * 16) * st \in Nat
    BY <1>2
  <2>3. CASE OneByOne(p)
    BY <1>6, <1>7, <1>9, <1>15, <2>1, <2>2, <2>3
  <2>4. CASE ~OneByOne(p) /\ W <= st
    BY <1>7, <1>15, <2>1, <2>2, <2>4
  <2>5. CASE ~OneByOne(p) /\ p.out_channels <= 8 /\ W <= 2 * st
    BY <1>2, <1>7, <1>13, <1>15, <2>1, <2>2, <2>5
  <2> QED BY <1>10, <2>3, <2>4, <2>5
<1>19. /\ (c1 * st + H * W) * 8 \in Nat /\ (c1 * (H * W) + H * W) * 8 \in Nat
       /\ WriteIndex(p, oc, H - 1, W - 1) \in Int /\ ReadIndex(s, p, oc, H - 1, W - 1) \in Int
  <2>1. PlaneStride(s, p) \in Nat
    BY <1>2, <1>11, <1>15
  <2>2. c1 * PlaneStride(s, p) \in Nat
    BY <1>13, <2>1
  <2> QED BY <1>13, <1>14, <1>15, <2>2
<1> QED BY <1>7, <1>16, <1>17, <1>18, <1>19

-----------------------------------------------------------------------------
(* The run of a case.                                                      *)

Params2dTyped(p) == p.in_height \in Nat /\ p.out_width_stride \in Nat
Params2dSet(p) == Params2dTyped(p) /\ p.in_height > 0 /\ p.out_width_stride > 0

CaseInv ==
  /\ pc \in {"idle", "exec", "job", "compare"}
  /\ shape \in Shapes /\ status \in {0, -1}
  /\ pc # "idle" => Accepted(shape) /\ Params2dSet(conv2d_params)
  /\ Params2dTyped(conv2d_params)
  /\ pc = "idle" => n = 0 /\ row_offset = 0
  /\ pc \in {"exec", "job"} => n \in 0..(shape.batch - 1)
  /\ pc = "compare" => n = shape.batch
  /\ pc # "idle" => row_offset \in 0..OutHeight(shape)
  /\ pc = "job" => /\ row_offset < OutHeight(shape)
                   /\ row_offset > 0 => UseTile(shape)
  /\ AfterJob => JobOf(shape, conv2d_params)

LEMMA WholeIsSet ==
  ASSUME NEW s \in Shapes, Accepted(s)
  PROVE  Params2dSet(WholeParams(s))
<1>1. WholeParams(s).in_height = s.in_height /\ WholeParams(s).out_width_stride = OutWidthStride(s)
  BY DEF WholeParams, Params
<1>2. OutWidthStride(s) \in Nat \ {0} /\ s.in_height \in Nat \ {0}
  BY OutStrideFacts, ShapeType
<1> QED BY <1>1, <1>2 DEF Params2dSet, Params2dTyped

LEMMA JobIsSet ==
  ASSUME NEW s \in Shapes, Accepted(s), NEW p, JobOf(s, p)
  PROVE  Params2dSet(p)
<1>1. SameKernel(s, p) /\ JobHeight(s, p) /\ Strides(s, p)
  BY JobFields
<1>2. p.kernel_h \in Nat \ {0} /\ OutHeight(s) \in Nat
  BY <1>1, ShapeType, OutputSize DEF SameKernel
<1> QED BY <1>1, <1>2 DEF Params2dSet, Params2dTyped, JobHeight, Strides

(* The rows of a job, and what is left after it.                           *)
LEMMA RowsOfJob ==
  ASSUME NEW s \in Shapes, Accepted(s), NEW first \in Nat, first < OutHeight(s),
         first > 0 => UseTile(s)
  PROVE  /\ JobRows(s, first) \in 1..(OutHeight(s) - first)
         /\ UseTile(s) => JobRows(s, first) <= TileMaxHeight(s)
         /\ ~UseTile(s) => first = 0 /\ JobRows(s, first) = OutHeight(s)
         /\ IF ~UseTile(s) \/ first + TileMaxHeight(s) >= OutHeight(s)
            THEN first + JobRows(s, first) = OutHeight(s)
            ELSE /\ JobRows(s, first) = TileMaxHeight(s)
                 /\ first + JobRows(s, first) < OutHeight(s)
<1>1. OutHeight(s) \in Nat \ {0} /\ TileMaxHeight(s) \in Nat \ {0}
  BY OutputSize, TileFacts
<1> QED BY <1>1 DEF JobRows

LEMMA ParamsOfJob ==
  ASSUME NEW s \in Shapes, Accepted(s), NEW first \in Nat, first < OutHeight(s),
         first > 0 => UseTile(s)
  PROVE  JobOf(s, JobParams(s, JobRows(s, first)))
<1>1. OutHeight(s) \in Nat \ {0}
  BY OutputSize
<1>2. /\ JobRows(s, first) \in 1..OutHeight(s)
      /\ UseTile(s) => JobRows(s, first) <= TileMaxHeight(s)
      /\ ~UseTile(s) => JobRows(s, first) = OutHeight(s)
  BY <1>1, RowsOfJob
<1> QED BY <1>2 DEF JobOf

LEMMA CaseInvInit == Init => CaseInv
<1> SUFFICES ASSUME Init PROVE CaseInv
  OBVIOUS
<1>1. conv2d_params.in_height = 0 /\ conv2d_params.out_width_stride = 0
  BY DEF Init, WholeParams, Params
<1> QED BY <1>1 DEF Init, CaseInv, Params2dTyped, AfterJob

LEMMA StartInv ==
  ASSUME CaseInv, NEW s \in Shapes, StartCase(s)
  PROVE  CaseInv'
<1>1. Params2dSet(WholeParams(s))
  BY WholeIsSet DEF StartCase
<1>2. OutHeight(s) \in Nat /\ s.batch \in Nat \ {0}
  BY ShapeType, OutputSize DEF StartCase
<1>3. OutHeight(shape)' = OutHeight(s)
  BY DEF StartCase, OutHeight
<1>4. Accepted(shape)'
  BY DEF StartCase, Accepted, Groups, OutHeight, OutWidth
<1>5. Params2dSet(conv2d_params)'
  BY <1>1 DEF StartCase, Params2dSet, Params2dTyped
<1> QED BY <1>2, <1>3, <1>4, <1>5 DEF StartCase, CaseInv, AfterJob, Params2dSet

LEMMA ExecInv ==
  ASSUME CaseInv, Exec
  PROVE  CaseInv'
<1>1. Params2dSet(WholeParams(shape)) /\ Accepted(shape) /\ shape \in Shapes
  BY WholeIsSet DEF Exec, CaseInv
<1>2. OutHeight(shape) \in Nat \ {0}
  BY <1>1, OutputSize
<1>3. shape' = shape /\ n' = n /\ pc' = "job" /\ row_offset' = 0 /\ status' = status
      /\ conv2d_params' = WholeParams(shape) /\ pc = "exec"
  BY DEF Exec
<1>4. OutHeight(shape)' = OutHeight(shape) /\ (Accepted(shape)' <=> Accepted(shape))
  BY <1>3
<1>5. Params2dSet(conv2d_params)'
  BY <1>1, <1>3
<1> QED BY <1>1, <1>2, <1>3, <1>4, <1>5 DEF CaseInv, AfterJob, Params2dSet

LEMMA JobInv ==
  ASSUME CaseInv, Job
  PROVE  CaseInv'
<1> DEFINE s == shape
           rows == JobRows(s, row_offset)
           last == ~UseTile(s) \/ row_offset + TileMaxHeight(s) >= OutHeight(s)
<1>1. /\ s \in Shapes /\ Accepted(s) /\ row_offset \in Nat /\ row_offset < OutHeight(s)
      /\ (row_offset > 0 => UseTile(s)) /\ n \in 0..(s.batch - 1) /\ status \in {0, -1}
  <2>1. OutHeight(s) \in Nat
    BY OutputSize DEF CaseInv, Job
  <2> QED BY <2>1 DEF CaseInv, Job
<1>2. OutHeight(s) \in Nat \ {0} /\ TileMaxHeight(s) \in Nat \ {0} /\ s.batch \in Nat \ {0}
  BY <1>1, OutputSize, TileFacts, ShapeType
<1>3. JobOf(s, JobParams(s, rows))
  BY <1>1, ParamsOfJob
<1>4. Params2dSet(JobParams(s, rows))
  BY <1>1, <1>3, JobIsSet
<1>5. /\ rows \in 1..(OutHeight(s) - row_offset)
      /\ IF last THEN row_offset + rows = OutHeight(s) ELSE row_offset + rows < OutHeight(s)
  BY <1>1, RowsOfJob
<1>6. /\ shape' = s /\ status' = status /\ conv2d_params' = JobParams(s, rows)
      /\ row_offset' = row_offset + rows
      /\ n' = IF last THEN n + 1 ELSE n
      /\ pc' = CASE ~last -> "job"
                 [] last /\ n + 1 < s.batch -> "exec"
                 [] OTHER -> "compare"
  BY DEF Job
<1>7. OutHeight(shape)' = OutHeight(s) /\ (Accepted(shape)' <=> Accepted(s))
      /\ (UseTile(shape)' <=> UseTile(s)) /\ shape'.batch = s.batch
  BY <1>6
<1>8. JobOf(shape, conv2d_params)' /\ Params2dSet(conv2d_params)'
  BY <1>3, <1>4, <1>6
<1>9. ~last => UseTile(s)
  OBVIOUS
<1> HIDE DEF s, rows, last
<1>10. /\ pc' \in {"idle", "exec", "job", "compare"} /\ pc' # "idle"
       /\ row_offset' \in 0..OutHeight(s)
       /\ pc' \in {"exec", "job"} => n' \in 0..(s.batch - 1)
       /\ pc' = "compare" => n' = s.batch
       /\ pc' = "job" => row_offset' < OutHeight(s) /\ UseTile(s)
  <2>1. CASE ~last
    <3>1. pc' = "job" /\ n' = n
      BY <1>6, <2>1
    <3> QED BY <1>1, <1>2, <1>5, <1>6, <1>9, <2>1, <3>1
  <2>2. CASE last /\ n + 1 < s.batch
    <3>1. pc' = "exec" /\ n' = n + 1
      BY <1>6, <2>2
    <3> QED BY <1>1, <1>2, <1>5, <1>6, <2>2, <3>1
  <2>3. CASE last /\ ~(n + 1 < s.batch)
    <3>1. pc' = "compare" /\ n' = n + 1
      BY <1>6, <2>3
    <3> QED BY <1>1, <1>2, <1>5, <1>6, <2>3, <3>1
  <2> QED BY <2>1, <2>2, <2>3
<1> QED BY <1>1, <1>6, <1>7, <1>8, <1>10 DEF CaseInv, Params2dSet, AfterJob, s

LEMMA EndInv ==
  ASSUME CaseInv, Fails \/ Compare
  PROVE  CaseInv'
<1>1. /\ shape' = shape /\ shape \in Shapes /\ pc' = "idle" /\ n' = 0 /\ row_offset' = 0
      /\ status' \in {0, -1}
  BY DEF Fails, Compare, FreeLocals, CaseInv
<1>2. Params2dTyped(conv2d_params')
  <2>1. CASE conv2d_params' = conv2d_params
    BY <2>1 DEF CaseInv
  <2>2. CASE pc = "job" /\ conv2d_params' = JobParams(shape, JobRows(shape, row_offset))
    <3>1. Accepted(shape) /\ row_offset < OutHeight(shape) /\ (row_offset > 0 => UseTile(shape))
      BY <2>2 DEF CaseInv
    <3>2. OutHeight(shape) \in Nat
      BY <1>1, <3>1, OutputSize
    <3>3. row_offset \in Nat
      BY <2>2, <3>2 DEF CaseInv
    <3>4. JobOf(shape, conv2d_params')
      BY <1>1, <2>2, <3>1, <3>3, ParamsOfJob
    <3> QED BY <1>1, <3>1, <3>4, JobIsSet DEF Params2dSet
  <2> QED BY <2>1, <2>2 DEF Fails, Compare
<1> QED BY <1>1, <1>2 DEF CaseInv, AfterJob

LEMMA CaseInvStep ==
  ASSUME CaseInv, [Next]_vars
  PROVE  CaseInv'
<1>1. CASE \E s \in Shapes : StartCase(s)
  BY <1>1, StartInv
<1>2. CASE \E s \in Shapes : Refuse(s)
  BY <1>2 DEF Refuse, CaseInv, AfterJob
<1>3. CASE Exec
  BY <1>3, ExecInv
<1>4. CASE Job
  BY <1>4, JobInv
<1>5. CASE Fails \/ Compare
  BY <1>5, EndInv
<1>6. CASE UNCHANGED vars
  BY <1>6 DEF vars, CaseInv, AfterJob
<1> QED BY <1>1, <1>2, <1>3, <1>4, <1>5, <1>6 DEF Next

LEMMA CaseInvHolds == ConvolutionSpec => []CaseInv
<1>1. ConvolutionInit => CaseInv
  BY CaseInvInit DEF ConvolutionInit, NoConv2d
<1>2. CaseInv /\ [ConvolutionNext]_<<process, vars, conv1dVars, regVars>> => CaseInv'
  <2> SUFFICES ASSUME CaseInv, [ConvolutionNext]_<<process, vars, conv1dVars, regVars>>
               PROVE  CaseInv'
    OBVIOUS
  <2>1. [Next]_vars
    BY DEF ConvolutionNext, vars
  <2> QED BY <2>1, CaseInvStep
<1> QED BY <1>1, <1>2, PTL DEF ConvolutionSpec

(* The type of a case's state: the image and the row stay in range, and a  *)
(* job is never told a height or a stride of zero.                         *)
THEOREM CaseTyped == ConvolutionSpec => []TypeOK
<1>1. CaseInv => TypeOK
  <2> SUFFICES ASSUME CaseInv PROVE TypeOK
    OBVIOUS
  <2>1. shape.batch \in Nat \ {0} /\ shape \in Shapes
    BY ShapeType DEF CaseInv
  <2> QED BY <2>1 DEF CaseInv, TypeOK, Params2dTyped, Params2dSet
<1> QED BY <1>1, CaseInvHolds, PTL

(***************************************************************************)
(* BuffersHold for all shapes but the kernels of 3 to 6 channels whose     *)
(* output is wider than their fixed stride: whatever the tiles, the        *)
(* packing of the input and of the three orders of the kernel keeps to the *)
(* buffers and puts no element on another, and the NPU writes and the      *)
(* unpacking reads inside the output.                                      *)
(***************************************************************************)
THEOREM BuffersAreHeld ==
  ASSUME \A s \in Shapes : RoomForRows(s)
  PROVE  ConvolutionSpec => []BuffersHold
<1>1. CaseInv => BuffersHold
  <2> SUFFICES ASSUME CaseInv, AfterJob PROVE BuffersHold
    BY DEF BuffersHold, TileFits, PackInside, OutputInside
  <2>1. shape \in Shapes /\ Accepted(shape) /\ JobOf(shape, conv2d_params)
    BY DEF CaseInv, AfterJob
  <2>2. TileFits
    <3>1. SameKernel(shape, conv2d_params) /\ JobHeight(shape, conv2d_params)
      BY <2>1, JobFields
    <3>2. OutHeight(shape) \in Nat /\ conv2d_params.kernel_h \in Nat
      BY <2>1, <3>1, OutputSize, ShapeType DEF SameKernel
    <3>3. row_offset <= OutHeight(shape)
      BY <3>2 DEF CaseInv, AfterJob
    <3> QED BY <3>1, <3>2, <3>3 DEF TileFits, JobHeight
  <2>3. PackInside
    BY <2>1, JobIsPacked DEF PackInside, Packed
  <2>4. OutputInside
    BY <2>1, JobOutputFits DEF OutputInside, OutputFits
  <2> QED BY <2>2, <2>3, <2>4 DEF BuffersHold
<1> QED BY <1>1, CaseInvHolds, PTL

-----------------------------------------------------------------------------
(* The answer.                                                             *)

(***************************************************************************)
(* Every job of the shape is described to the NPU as it was packed, in     *)
(* values its registers keep; and when a larger kernel has more channels   *)
(* than a surface holds, surfaces lie apart and are read where they lie.   *)
(***************************************************************************)
Described(s) ==
  /\ \A rows \in 1..OutHeight(s) :
       (IF UseTile(s) THEN rows <= TileMaxHeight(s) ELSE rows = OutHeight(s)) =>
         RegistersAgree(JobParams(s, rows)) /\ FieldsFit(JobParams(s, rows))
  /\ ~OneByOne(s) /\ s.out_channels > 8 =>
       /\ OutHeight(s) * OutWidth(s) <= OutWidthStride(s)
       /\ PlaneStride(s, WholeParams(s)) = OutWidthStride(s) * 8

LEMMA JobIsDescribed ==
  ASSUME NEW s \in Shapes, Accepted(s), Described(s), NEW p, JobOf(s, p)
  PROVE  /\ Proper(p) /\ p.out_width_stride \in Nat \ {0} /\ DstSurfStride(p) = p.out_width_stride
         /\ p.out_channels = s.out_channels /\ p.out_width = OutWidth(s)
         /\ p.out_height \in 1..OutHeight(s)
         /\ p.out_channels > 8 => /\ PlaneStride(s, p) = p.out_width_stride * 8
                                  /\ p.out_height * p.out_width <= p.out_width_stride
<1> DEFINE H == p.out_height
           W == p.out_width
           st == p.out_width_stride
<1>1. SameKernel(s, p) /\ JobHeight(s, p) /\ Strides(s, p)
  BY JobFields
<1>2. /\ OutHeight(s) \in Nat \ {0} /\ OutWidth(s) \in Nat \ {0}
      /\ H \in 1..OutHeight(s) /\ W = OutWidth(s) /\ st \in Nat \ {0}
      /\ p.out_channels = s.out_channels /\ (OneByOne(p) <=> OneByOne(s))
  BY <1>1, OutputSize DEF SameKernel, JobHeight, Strides, OneByOne
<1>3. H \in Nat \ {0} /\ W * H \in Nat \ {0} /\ W * H = H * W
  BY <1>2
<1>4. OneByOne(s) => st = FlatStride(W * H) /\ W * H <= st /\ PlaneStride(s, p) = st * 8
  <2> SUFFICES ASSUME OneByOne(s)
               PROVE  st = FlatStride(W * H) /\ W * H <= st /\ PlaneStride(s, p) = st * 8
    OBVIOUS
  <2>1. st = FlatStride(W * H)
    BY <1>1, <1>2 DEF Strides
  <2>2. W * H <= FlatStride(W * H)
    BY <1>3, FlatStrideFacts
  <2>3. PlaneStride(s, p) = st * 8
    BY <1>2 DEF PlaneStride, is_11555_35333_g5, OneByOne, Kernel
  <2> QED BY <2>1, <2>2, <2>3
<1>5. DstSurfStride(p) = st
  <2>1. W * H < 4 => FlatStride(W * H) = W * H
    BY <1>3, FlatStrideFacts
  <2> QED BY <1>2, <1>4, <2>1 DEF DstSurfStride
<1>6. PICK rows \in 1..OutHeight(s) :
        /\ p = JobParams(s, rows)
        /\ IF UseTile(s) THEN rows <= TileMaxHeight(s) ELSE rows = OutHeight(s)
  BY DEF JobOf
<1>7. RegistersAgree(p) /\ FieldsFit(p)
  BY <1>6 DEF Described
<1>8. ~OneByOne(s) /\ s.out_channels > 8 =>
         PlaneStride(s, p) = st * 8 /\ H * W <= st
  <2> SUFFICES ASSUME ~OneByOne(s), s.out_channels > 8
               PROVE  PlaneStride(s, p) = st * 8 /\ H * W <= st
    OBVIOUS
  <2>1. p = WholeParams(s)
    BY <1>6 DEF JobParams, UseTile
  <2>2. st = OutWidthStride(s) /\ H = OutHeight(s)
    BY <1>1 DEF Strides
  <2> QED BY <1>2, <2>1, <2>2 DEF Described
<1>9. p.out_channels > 8 => PlaneStride(s, p) = st * 8 /\ H * W <= st
  BY <1>2, <1>3, <1>4, <1>8
<1>10. Proper(p)
  BY <1>5, <1>7, <1>9 DEF Proper
<1> QED BY <1>2, <1>5, <1>9, <1>10

(* What the unpacking reads is the element it wants.                       *)
LEMMA RightElement ==
  ASSUME NEW s \in Shapes, Accepted(s), Described(s), NEW p, JobOf(s, p),
         NEW im, NEW first \in Nat,
         NEW oc \in 0..(s.out_channels - 1), NEW y \in 0..(p.out_height - 1),
         NEW x \in 0..(OutWidth(s) - 1)
  PROVE  NpuOutput(p, im, first, ReadIndex(s, p, oc, y, x)) = <<im, oc, first + y, x>>
<1> DEFINE H == p.out_height
           W == p.out_width
           st == p.out_width_stride
           q == oc \div 8
           r == oc % 8
           at == y * W + x
           i == ReadIndex(s, p, oc, y, x)
<1>1. /\ Proper(p) /\ st \in Nat \ {0} /\ DstSurfStride(p) = st
      /\ p.out_channels = s.out_channels /\ W = OutWidth(s) /\ H \in Nat \ {0}
      /\ p.out_channels > 8 => PlaneStride(s, p) = st * 8 /\ H * W <= st
      /\ s.out_channels \in Nat \ {0} /\ W \in Nat \ {0}
  BY JobIsDescribed, OutputSize, ShapeType
<1>2. q \in Nat /\ r \in 0..7 /\ oc = q * 8 + r /\ (p.out_channels <= 8 => q = 0)
  BY <1>1
<1>3. at \in 0..(H * W - 1) /\ at \div W = y /\ at % W = x /\ H * W \in Nat
  <2>1. x \in 0..(W - 1) /\ y \in 0..(H - 1) /\ H * W \in Nat
    BY <1>1
  <2>2. at = Flat(W, y, x)
    BY DEF Flat
  <2> HIDE DEF H, W, at
  <2>3. y \in Nat /\ W \in Nat \ {0} /\ H \in Nat
    BY <1>1, <2>1
  <2>4. Flat(W, y, x) \in 0..(H * W - 1)
    BY <2>1, <2>3, FlatInside
  <2>5. Flat(W, y, x) \div W = y /\ Flat(W, y, x) % W = x
    BY <2>1, <2>3, FlatParts
  <2> QED BY <2>1, <2>2, <2>4, <2>5
<1>4. i = q * PlaneStride(s, p) + at * 8 + r
  BY DEF ReadIndex
<1> HIDE DEF q, r, at, i, st
<1>5. i \div 8 = (IF p.out_channels <= 8 THEN at ELSE q * st + at) /\ i % 8 = r
  <2> DEFINE a == IF p.out_channels <= 8 THEN at ELSE q * st + at
  <2>1. a \in Nat
    BY <1>1, <1>2, <1>3
  <2>2. i = a * 8 + r
    <3>1. CASE p.out_channels <= 8
      <4>1. q * PlaneStride(s, p) = 0
        <5>1. PlaneStride(s, p) \in Int
          <6>1. is_11555_35333_g5(s) => s.out_channels = 35
            BY DEF is_11555_35333_g5
          <6>2. PlaneStride(s, p) = st * 8 \/ PlaneStride(s, p) = H * W * 8
            BY <1>1, <3>1, <6>1 DEF PlaneStride, st
          <6> QED BY <1>1, <1>3, <6>2
        <5> QED BY <1>2, <3>1, <5>1
      <4> QED BY <1>2, <1>3, <1>4, <3>1, <4>1
    <3>2. CASE ~(p.out_channels <= 8)
      <4>1. q * (st * 8) = (q * st) * 8 /\ q * st \in Nat
        BY <1>1, <1>2
      <4>2. (q * st) * 8 + at * 8 = (q * st + at) * 8
        BY <1>3, <4>1
      <4> QED BY <1>1, <1>2, <1>3, <1>4, <3>2, <4>1, <4>2
    <3> QED BY <3>1, <3>2
  <2> HIDE DEF a
  <2>3. (a * 8 + r) \div 8 = a /\ (a * 8 + r) % 8 = r
    BY <1>2, <2>1, DivModUnique
  <2> QED BY <2>2, <2>3 DEF a
<1> DEFINE plane == IF p.out_channels <= 8 THEN 0 ELSE (i \div 8) \div st
<1>6. plane = q /\ (i \div 8) - plane * st = at
  <2>1. CASE p.out_channels <= 8
    BY <1>1, <1>2, <1>3, <1>5, <2>1
  <2>2. CASE ~(p.out_channels <= 8)
    <3>1. at \in 0..(st - 1)
      BY <1>1, <1>3, <2>2 DEF st
    <3>2. (q * st + at) \div st = q /\ q * st \in Nat
      <4>1. Flat(st, q, at) \div st = q
        BY <1>1, <1>2, <3>1, FlatParts
      <4>2. q * st \in Nat
        BY <1>1, <1>2
      <4> QED BY <4>1, <4>2 DEF Flat
    <3>3. i \div 8 = q * st + at /\ plane = (i \div 8) \div st
      BY <1>5, <2>2
    <3> HIDE DEF plane
    <3>4. plane = q
      BY <3>2, <3>3
    <3>5. (q * st + at) - q * st = at
      BY <3>1, <3>2
    <3> QED BY <3>3, <3>4, <3>5
  <2> QED BY <2>1, <2>2
<1>7. plane * 8 + (i % 8) = oc
  BY <1>2, <1>5, <1>6
<1> HIDE DEF plane
<1>8. NpuOutput(p, im, first, i)
        = IF Proper(p) /\ plane * 8 + (i % 8) < p.out_channels
               /\ (i \div 8) - plane * st < H * W
          THEN <<im, plane * 8 + (i % 8), first + ((i \div 8) - plane * st) \div W,
                 ((i \div 8) - plane * st) % W>>
          ELSE None
  BY <1>1 DEF NpuOutput, plane
<1>9. oc < p.out_channels /\ at < H * W
  BY <1>1, <1>3
<1>10. NpuOutput(p, im, first, i) = <<im, oc, first + at \div W, at % W>>
  BY <1>1, <1>6, <1>7, <1>8, <1>9
<1> QED BY <1>3, <1>10 DEF i

(* Where an element of the answer belongs.                                 *)
RowOf(s, i) == ((i % Image(s)) % (OutHeight(s) * OutWidth(s))) \div OutWidth(s)
ChannelOf(s, i) == (i % Image(s)) \div (OutHeight(s) * OutWidth(s))
Elements(s) == 0..(s.batch * Image(s) - 1)

LEMMA ElementFacts ==
  ASSUME NEW s \in Shapes, Accepted(s), NEW i \in Elements(s)
  PROVE  /\ i \div Image(s) \in 0..(s.batch - 1)
         /\ ChannelOf(s, i) \in 0..(s.out_channels - 1)
         /\ RowOf(s, i) \in 0..(OutHeight(s) - 1)
         /\ i % OutWidth(s) \in 0..(OutWidth(s) - 1)
         /\ Expected(s)[i] = <<i \div Image(s), ChannelOf(s, i), RowOf(s, i), i % OutWidth(s)>>
<1> DEFINE OC == s.out_channels
           H == OutHeight(s)
           W == OutWidth(s)
           I == Image(s)
           B == s.batch
           j == i % I
<1>1. OC \in Nat \ {0} /\ H \in Nat \ {0} /\ W \in Nat \ {0} /\ B \in Nat \ {0}
  BY ShapeType, OutputSize
<1>2. H * W \in Nat \ {0} /\ I = OC * (H * W) /\ I \in Nat \ {0} /\ I = (OC * H) * W
      /\ OC * H \in Nat
  <2>1. I = (OC * H) * W
    BY DEF Image
  <2> HIDE DEF OC, H, W, I
  <2> QED BY <1>1, <2>1
<1>3. i \in 0..(B * I - 1)
  BY DEF Elements
<1> HIDE DEF OC, H, W, I, B
<1>4. i \div I \in 0..(B - 1) /\ j \in 0..(I - 1) /\ i = (i \div I) * I + j
  BY <1>1, <1>2, <1>3, RowMajorAll
<1> HIDE DEF j
<1>5. j \in 0..(OC * (H * W) - 1)
  BY <1>2, <1>4
<1>6. j \div (H * W) \in 0..(OC - 1) /\ j % (H * W) \in 0..(H * W - 1)
  BY <1>1, <1>2, <1>5, RowMajorAll
<1>7. (j % (H * W)) \div W \in 0..(H - 1)
  BY <1>1, <1>6, RowMajorAll
<1>8. i % W = j % W /\ j % W \in 0..(W - 1)
  <2> DEFINE a == i \div I
             b == j \div W
             c == j % W
  <2>1. a \in Nat /\ j \in Nat /\ i = a * I + j
    BY <1>1, <1>4
  <2>2. b \in Nat /\ c \in 0..(W - 1) /\ j = b * W + c
    BY <1>1, <2>1, DivMod
  <2> HIDE DEF a, b, c
  <2>3. a * I = (a * (OC * H)) * W /\ a * (OC * H) \in Nat
    BY <1>1, <1>2, <2>1
  <2> DEFINE k == a * (OC * H) + b
  <2>4. k \in Nat /\ k * W = (a * (OC * H)) * W + b * W
    BY <1>1, <2>2, <2>3
  <2> HIDE DEF k
  <2>5. i = Flat(W, k, c)
    BY <1>1, <2>1, <2>2, <2>3, <2>4 DEF Flat
  <2>6. Flat(W, k, c) % W = c
    BY <1>1, <2>2, <2>4, FlatParts
  <2> QED BY <2>2, <2>5, <2>6 DEF c
<1>9. Expected(s)[i] = <<i \div I, j \div (H * W), (j % (H * W)) \div W, j % W>>
  BY DEF Expected, Elements, H, W, I, j
<1>10. ChannelOf(s, i) = j \div (H * W) /\ RowOf(s, i) = (j % (H * W)) \div W
  BY DEF ChannelOf, RowOf, H, W, I, j
<1> QED BY <1>4, <1>6, <1>7, <1>8, <1>9, <1>10 DEF OC, H, W, I, B

(* The elements that have been computed.                                   *)
Computed(i) ==
  \/ i \div Image(shape) < n
  \/ i \div Image(shape) = n /\ pc = "job" /\ RowOf(shape, i) < row_offset

AnswerInv ==
  pc # "idle" =>
    /\ output = [i \in Elements(shape) |-> output[i]]
    /\ \A i \in Elements(shape) : Computed(i) => output[i] = Expected(shape)[i]

LEMMA AnswerStart ==
  ASSUME CaseInv, NEW s \in Shapes, StartCase(s)
  PROVE  AnswerInv'
<1>1. /\ shape' = s /\ Accepted(s) /\ n' = 0 /\ pc' = "exec"
      /\ output' = [i \in Elements(s) |-> None]
  BY DEF StartCase, CaseInv, Elements
<1>2. ASSUME NEW i \in Elements(s)
      PROVE  ~Computed(i)'
  <2>1. i \div Image(s) \in Nat
    BY <1>1, ElementFacts, ShapeType
  <2> QED BY <1>1, <2>1 DEF Computed
<1>3. Elements(shape)' = Elements(s)
  BY <1>1
<1> QED BY <1>1, <1>2, <1>3 DEF AnswerInv

LEMMA AnswerExec ==
  ASSUME CaseInv, AnswerInv, Exec
  PROVE  AnswerInv'
<1>1. /\ shape' = shape /\ shape \in Shapes /\ Accepted(shape) /\ n' = n /\ pc = "exec"
      /\ pc' = "job" /\ row_offset' = 0 /\ output' = output
  BY DEF Exec, CaseInv
<1>2. ASSUME NEW i \in Elements(shape), Computed(i)'
      PROVE  Computed(i)
  <2>1. RowOf(shape, i) \in Nat
    BY <1>1, ElementFacts, OutputSize
  <2> QED BY <1>1, <1>2, <2>1 DEF Computed
<1>3. Elements(shape)' = Elements(shape) /\ Expected(shape)' = Expected(shape)
  BY <1>1
<1> QED BY <1>1, <1>2, <1>3 DEF AnswerInv

LEMMA AnswerJob ==
  ASSUME CaseInv, AnswerInv, Job, Described(shape)
  PROVE  AnswerInv'
<1> DEFINE s == shape
           rows == JobRows(s, row_offset)
           p == JobParams(s, rows)
           last == ~UseTile(s) \/ row_offset + TileMaxHeight(s) >= OutHeight(s)
           out == Scatter(s, p, n, row_offset, output)
<1>1. /\ s \in Shapes /\ Accepted(s) /\ row_offset \in Nat /\ row_offset < OutHeight(s)
      /\ (row_offset > 0 => UseTile(s)) /\ n \in Nat /\ OutHeight(s) \in Nat
  <2>1. OutHeight(s) \in Nat /\ s.batch \in Nat
    BY OutputSize, ShapeType DEF CaseInv, Job
  <2> QED BY <2>1 DEF CaseInv, Job
<1>2. JobOf(s, p)
  BY <1>1, ParamsOfJob
<1>3. /\ rows \in 1..(OutHeight(s) - row_offset)
      /\ last => row_offset + rows = OutHeight(s)
  BY <1>1, RowsOfJob
<1>4. p.out_height = rows
  <2>1. UseTile(s) => p.out_height = rows
    BY DEF JobParams, TileParams, Params
  <2>2. ~UseTile(s) => p.out_height = OutHeight(s) /\ rows = OutHeight(s)
    BY <1>1, RowsOfJob DEF JobParams, WholeParams, Params
  <2> QED BY <2>1, <2>2
<1>5. /\ shape' = s /\ output' = out /\ row_offset' = row_offset + rows
      /\ n' = IF last THEN n + 1 ELSE n
      /\ pc = "job" /\ (pc' = "job" => ~last) /\ (~last => pc' = "job")
  BY DEF Job
<1>6. /\ output = [i \in Elements(s) |-> output[i]]
      /\ \A i \in Elements(s) : Computed(i) => output[i] = Expected(s)[i]
  BY <1>5 DEF AnswerInv
<1>7. DOMAIN output = Elements(s)
  BY <1>6
<1>8. out = [i \in Elements(s) |->
               IF i \div Image(s) = n /\ RowOf(s, i) \in row_offset..(row_offset + p.out_height - 1)
               THEN NpuOutput(p, n, row_offset,
                      ReadIndex(s, p, ChannelOf(s, i), RowOf(s, i) - row_offset, i % OutWidth(s)))
               ELSE output[i]]
  BY <1>7 DEF Scatter, RowOf, ChannelOf
<1> HIDE DEF s, p, rows, last, out
<1>9. ASSUME NEW i \in Elements(s), Computed(i)'
      PROVE  out[i] = Expected(s)[i]
  <2>1. /\ i \div Image(s) \in Int
        /\ ChannelOf(s, i) \in 0..(s.out_channels - 1)
        /\ RowOf(s, i) \in 0..(OutHeight(s) - 1)
        /\ i % OutWidth(s) \in 0..(OutWidth(s) - 1)
        /\ Expected(s)[i] = <<i \div Image(s), ChannelOf(s, i), RowOf(s, i), i % OutWidth(s)>>
    BY <1>1, ElementFacts
  <2>2. CASE /\ i \div Image(s) = n
             /\ RowOf(s, i) \in row_offset..(row_offset + p.out_height - 1)
    <3> DEFINE y == RowOf(s, i) - row_offset
    <3>1. y \in 0..(p.out_height - 1) /\ row_offset + y = RowOf(s, i)
      BY <1>1, <1>3, <1>4, <2>1, <2>2
    <3>2. out[i] = NpuOutput(p, n, row_offset, ReadIndex(s, p, ChannelOf(s, i), y, i % OutWidth(s)))
      BY <1>8, <2>2
    <3> HIDE DEF y
    <3>3. Described(s)
      BY DEF s
    <3>4. out[i] = <<n, ChannelOf(s, i), row_offset + y, i % OutWidth(s)>>
      BY <1>1, <1>2, <2>1, <3>1, <3>2, <3>3, RightElement
    <3> QED BY <2>1, <2>2, <3>1, <3>4
  <2>3. CASE ~(/\ i \div Image(s) = n
               /\ RowOf(s, i) \in row_offset..(row_offset + p.out_height - 1))
    <3>1. out[i] = output[i]
      BY <1>8, <2>3
    <3>2. Computed(i)
      <4>1. \/ i \div Image(s) < n'
            \/ i \div Image(s) = n' /\ pc' = "job" /\ RowOf(s, i) < row_offset'
        BY <1>5, <1>9 DEF Computed
      <4>2. i \div Image(s) < n \/ (i \div Image(s) = n /\ RowOf(s, i) < row_offset)
        BY <1>1, <1>3, <1>4, <1>5, <2>1, <2>3, <4>1
      <4> QED BY <1>5, <4>2 DEF Computed, s
    <3> QED BY <1>6, <3>1, <3>2
  <2> QED BY <2>2, <2>3
<1>10. out = [i \in Elements(s) |-> out[i]]
  BY <1>8
<1>11. Elements(shape)' = Elements(s) /\ Expected(shape)' = Expected(s)
  BY <1>5
<1> QED BY <1>5, <1>9, <1>10, <1>11 DEF AnswerInv

LEMMA AnswerStep ==
  ASSUME CaseInv, AnswerInv, [Next]_vars,
         \A s \in Shapes : Accepted(s) => Described(s)
  PROVE  AnswerInv'
<1>1. CASE \E s \in Shapes : StartCase(s)
  BY <1>1, AnswerStart
<1>2. CASE \E s \in Shapes : Refuse(s)
  BY <1>2 DEF Refuse, AnswerInv
<1>3. CASE Exec
  BY <1>3, AnswerExec
<1>4. CASE Job
  <2>1. Described(shape)
    BY <1>4 DEF CaseInv, Job
  <2> QED BY <1>4, <2>1, AnswerJob
<1>5. CASE Fails \/ Compare
  BY <1>5 DEF Fails, Compare, FreeLocals, AnswerInv
<1>6. CASE UNCHANGED vars
  BY <1>6 DEF vars, AnswerInv, Computed
<1> QED BY <1>1, <1>2, <1>3, <1>4, <1>5, <1>6 DEF Next

(***************************************************************************)
(* A case in which no call failed compares the whole convolution: for any  *)
(* number of images, any height and any size of the NPU's buffer, the      *)
(* tiles put together give each element the value of its image, channel,   *)
(* row and column. It is enough that the registers describe what was       *)
(* packed for each job (FewChannels: for PixelChannels they do).           *)
(***************************************************************************)
THEOREM TilesMakeTheAnswer ==
  ASSUME \A s \in Shapes : Accepted(s) => Described(s)
  PROVE  ConvolutionSpec => []AnswerIsConvolution
<1>1. ConvolutionInit => AnswerInv
  BY DEF ConvolutionInit, NoConv2d, Init, AnswerInv
<1>2. CaseInv /\ AnswerInv /\ [ConvolutionNext]_<<process, vars, conv1dVars, regVars>> => AnswerInv'
  <2> SUFFICES ASSUME CaseInv, AnswerInv,
                      [ConvolutionNext]_<<process, vars, conv1dVars, regVars>>
               PROVE  AnswerInv'
    OBVIOUS
  <2>1. [Next]_vars
    BY DEF ConvolutionNext, vars
  <2> QED BY <2>1, AnswerStep
<1>3. CaseInv /\ AnswerInv => AnswerIsConvolution
  <2> SUFFICES ASSUME CaseInv, AnswerInv, pc = "compare"
               PROVE  output = Expected(shape)
    BY DEF AnswerIsConvolution
  <2>1. /\ shape \in Shapes /\ Accepted(shape) /\ n = shape.batch
        /\ output = [i \in Elements(shape) |-> output[i]]
        /\ \A i \in Elements(shape) : Computed(i) => output[i] = Expected(shape)[i]
    BY DEF CaseInv, AnswerInv
  <2>2. ASSUME NEW i \in Elements(shape)
        PROVE  output[i] = Expected(shape)[i]
    <3>1. i \div Image(shape) < n
      BY <2>1, ElementFacts, ShapeType
    <3> QED BY <2>1, <3>1 DEF Computed
  <2>3. Expected(shape) = [i \in Elements(shape) |-> Expected(shape)[i]]
    BY DEF Expected, Elements
  <2> QED BY <2>1, <2>2, <2>3
<1> QED BY <1>1, <1>2, <1>3, CaseInvHolds, PTL DEF ConvolutionSpec

(***************************************************************************)
(* Three or four channels are packed as pixels and fewer in planes, while  *)
(* the registers ask for the pixels of up to four channels unless the      *)
(* kernel is depthwise. The two agree for these, whatever the rest of the  *)
(* shape.                                                                  *)
(***************************************************************************)
PixelChannels(s) ==
  \/ s.in_channels \in 1..2 /\ IsDepthwise(s)
  \/ s.in_channels \in 3..4 /\ ~IsDepthwise(s)
  \/ s.in_channels \in 5..16

LEMMA FewChannels ==
  ASSUME NEW s \in Shapes, PixelChannels(s), NEW p, SameKernel(s, p)
  PROVE  RegistersAgree(p)
<1>1. /\ p.in_channels \in 1..16 /\ p.align_c \in {8, 16}
      /\ p.align_c = 16 => p.in_channels = 16
      /\ IsDepthwise(p) <=> IsDepthwise(s)
      /\ p.in_channels = s.in_channels /\ p.in_width <= p.width_stride
  BY ShapeType, RowStride
  DEF SameKernel, PixelChannels, is_161818_161633, Input, IsDepthwise, ParamGroups
<1>2. CASE p.in_channels <= 8
  <2>1. p.align_c = 8 /\ RegAlign(p) = 8
    BY <1>1, <1>2 DEF RegAlign, AutoAlign
  <2>2. RegNhwc(p) = UseNhwcPack(p, InputPackC2(p, p.align_c)) /\ RegLanes(p) = Lanes(p)
    BY <2>1 DEF RegNhwc, RegPackC2, InputPackC2, RegLanes, Lanes
  <2>3. InputPackC2(p, p.align_c) = 8
    <3>1. ~Input(p, 16, 18, 18)
      BY <1>2 DEF Input
    <3>2. ~(/\ Input(p, 1, 5, 7) /\ p.out_channels = 6 /\ Kernel(p, 3, 3)
            /\ ParamGroups(p) = 1)
      BY <1>1 DEF Input, PixelChannels, IsDepthwise
    <3> QED BY <2>1, <3>1, <3>2 DEF InputPackC2
  <2>4. PixelInput(p) <=> p.in_channels \in 3..4
    BY <1>1, <1>2 DEF PixelInput, PixelChannels
  <2>5. UseNhwcPack(p, 8) <=> p.in_channels \in 3..4
    <3>1. 8 \div p.in_channels = 2 <=> p.in_channels \in 3..4
      BY <1>1, <1>2
    <3>2. p.in_channels \in 3..4 =>
            ~(/\ Input(p, 3, 11, 28) /\ p.out_channels = 3 /\ Kernel(p, 3, 3)
              /\ p.groups = 3)
      BY <1>1 DEF Input, PixelChannels, IsDepthwise, ParamGroups
    <3> QED BY <1>1, <3>1, <3>2 DEF UseNhwcPack
  <2> QED BY <2>2, <2>3, <2>4, <2>5 DEF RegistersAgree, PixelInput, UseNhwcPack
<1>3. CASE p.in_channels > 8
  <2>1. RegAlign(p) = 16
    BY <1>1, <1>3 DEF RegAlign, AutoAlign
  <2>2. ASSUME NEW c2 \in {8, 16}
        PROVE  UseNhwcPack(p, c2) = FALSE /\ AlignUp(p.in_channels, c2) = 16
    <3>1. c2 \div p.in_channels \in {0, 1}
      BY <1>1, <1>3
    <3> QED BY <1>1, <1>3, <3>1 DEF UseNhwcPack, AlignUp, CeilDiv
  <2>3. InputPackC2(p, p.align_c) \in {8, 16} /\ RegPackC2(p) \in {8, 16}
    <3> DEFINE A == Input(p, 16, 18, 18) /\ p.out_channels = 16 /\ Kernel(p, 3, 3)
               B == /\ Input(p, 1, 5, 7) /\ p.out_channels = 6 /\ Kernel(p, 3, 3)
                    /\ ParamGroups(p) = 1
    <3>1. ~B
      BY <1>3 DEF Input
    <3>2. /\ InputPackC2(p, p.align_c) = (CASE A -> 8 [] B -> 2 [] OTHER -> p.align_c)
          /\ RegPackC2(p) = (CASE A -> 8 [] B -> 2 [] OTHER -> RegAlign(p))
      BY DEF InputPackC2, RegPackC2
    <3> HIDE DEF A, B
    <3>3. CASE A
      BY <3>1, <3>2, <3>3
    <3>4. CASE ~A
      <4>1. InputPackC2(p, p.align_c) = p.align_c /\ RegPackC2(p) = RegAlign(p)
        BY <3>1, <3>2, <3>4
      <4> QED BY <1>1, <2>1, <4>1
    <3> QED BY <3>3, <3>4
  <2>4. PixelInput(p) = FALSE
    BY <1>1, <1>3 DEF PixelInput
  <2> QED BY <1>1, <2>1, <2>2, <2>3, <2>4 DEF RegistersAgree, RegNhwc, RegLanes, Lanes
<1> QED BY <1>1, <1>2, <1>3

-----------------------------------------------------------------------------
(* The weights.                                                            *)

(***************************************************************************)
(* The groups divide the channels evenly, and the shape is none of the     *)
(* four whose weights are reordered: the two of npu_kernel and the grouped *)
(* 3 to 6 channels of 2x3 and 2x5.                                         *)
(***************************************************************************)
PlainKernel(s) ==
  /\ s.in_channels = Groups(s) * s.weight_in_channels
  /\ s.out_channels % Groups(s) = 0
  /\ ~depthwise_32x32_1x1(s) /\ ~is_11555_35333_g5(s)
  /\ ~(/\ s.in_channels = 3 /\ s.out_channels = 6 /\ s.groups > 1
       /\ Kernel(s, 2, 3) \/ Kernel(s, 2, 5))

FirstChannel(s, oc) == (oc \div (s.out_channels \div Groups(s))) * s.weight_in_channels

LEMMA GroupFacts ==
  ASSUME NEW s \in Shapes, Accepted(s), PlainKernel(s), NEW oc \in 0..(s.out_channels - 1)
  PROVE  /\ FirstChannel(s, oc) \in Nat
         /\ FirstChannel(s, oc) + s.weight_in_channels <= s.in_channels
<1> DEFINE G == Groups(s)
           size == s.out_channels \div G
           g == oc \div size
           w == s.weight_in_channels
<1>1. /\ G \in Nat \ {0} /\ w \in Nat \ {0} /\ s.out_channels \in Nat \ {0}
      /\ s.in_channels = G * w
  <2>1. s.in_channels \in Nat /\ s.weight_in_channels \in Nat \ {0} /\ s.groups \in Nat
    BY ShapeType
  <2>2. s.in_channels \div s.weight_in_channels \in Nat
    BY <2>1
  <2>3. G \in Nat
    BY <2>1, <2>2 DEF Groups
  <2> QED BY <2>1, <2>3, ShapeType DEF Accepted, PlainKernel
<1>2. size \in Nat \ {0} /\ s.out_channels = G * size
  <2>1. s.out_channels % G = 0
    BY DEF PlainKernel
  <2> HIDE DEF G
  <2>2. size \in Nat /\ s.out_channels = size * G
    <3> DEFINE x == s.out_channels
    <3>1. x \in Nat /\ x % G = 0
      BY <1>1, <2>1
    <3> HIDE DEF x
    <3>2. x \div G \in Nat /\ x = (x \div G) * G + (x % G)
      BY <1>1, <3>1, DivMod
    <3>3. x = (x \div G) * G
      BY <1>1, <3>1, <3>2
    <3> QED BY <3>2, <3>3 DEF x
  <2>3. size # 0
    BY <1>1, <2>2
  <2> HIDE DEF size
  <2> QED BY <1>1, <2>2, <2>3
<1> HIDE DEF size, G
<1>3. g \in 0..(G - 1)
  BY <1>1, <1>2, RowMajorAll
<1>4. (g + 1) * w <= G * w /\ (g + 1) * w = g * w + w /\ g * w \in Nat
  BY <1>1, <1>3, MulMonotone, MulNext
<1>5. FirstChannel(s, oc) = g * w
  BY DEF FirstChannel, size, G
<1> QED BY <1>1, <1>4, <1>5

LEMMA WeightPacked ==
  ASSUME NEW s \in Shapes, Accepted(s), PlainKernel(s), NEW p, SameKernel(s, p),
         NEW oc \in 0..(s.out_channels - 1), NEW ic, NEW h, NEW w
  PROVE  LET src == Source(p, oc, ic, h, w)
         IN  NpuKernel(s, src[1], src[2], src[3], src[4])
               = IF ic \in FirstChannel(s, oc)..(FirstChannel(s, oc) + s.weight_in_channels - 1)
                 THEN <<oc, ic - FirstChannel(s, oc), h, w>> ELSE Zero
<1>1. Source(p, oc, ic, h, w) = <<oc, ic, h, w>>
  <2> DEFINE remapped == p.in_channels = 3 /\ p.out_channels = 6
                           /\ ~DepthwiseSpatial(p) /\ ~KhMajor(p)
  <2>1. ~(remapped /\ Kernel(p, 2, 3)) /\ ~(remapped /\ Kernel(p, 2, 5))
    <3> SUFFICES ASSUME p.in_channels = 3, p.out_channels = 6, ~KhMajor(p),
                        Kernel(p, 2, 3) \/ Kernel(p, 2, 5)
                 PROVE  FALSE
      OBVIOUS
    <3>1. /\ s.in_channels = 3 /\ s.out_channels = 6 /\ p.groups = s.groups
          /\ Kernel(s, 2, 3) \/ Kernel(s, 2, 5)
      BY DEF SameKernel, Kernel
    <3>2. ~(s.groups > 1)
      BY <3>1 DEF PlainKernel
    <3>3. ParamGroups(p) = 1
      BY <3>1, <3>2, ShapeType DEF ParamGroups
    <3> QED BY <3>3 DEF KhMajor, Kernel
  <2> HIDE DEF remapped
  <2>2. Source(p, oc, ic, h, w) =
          CASE remapped /\ Kernel(p, 2, 3) -> <<oc_map_6x3x2x3[oc + 1], ic, 0, w>>
            [] remapped /\ Kernel(p, 2, 5) ->
                 <<map_2x5_oc[oc + 1], ic, h,
                   IF h = 0 THEN map_2x5_kh0[oc + 1][w + 1] ELSE map_2x5_kh1[oc + 1][w + 1]>>
            [] OTHER -> <<oc, ic, h, w>>
    BY DEF Source, remapped
  <2> QED BY <2>1, <2>2
<1>2. NpuKernel(s, oc, ic, h, w) = Expanded(s, oc, ic, h, w)
  BY DEF NpuKernel, PlainKernel
<1> QED BY <1>1, <1>2 DEF Expanded, FirstChannel

LEMMA EachWeightOnce ==
  ASSUME NEW s \in Shapes, Accepted(s), PlainKernel(s), NEW p, SameKernel(s, p)
  PROVE  LET Filled(k) == LET src == Source(p, k[1], k[2], k[3], k[4])
                          IN  NpuKernel(s, src[1], src[2], src[3], src[4])
             full == {k \in Written(p) : Filled(k) # Zero}
         IN  /\ {Filled(k) : k \in full} =
                  (0..(s.out_channels - 1)) \X (0..(s.weight_in_channels - 1))
                    \X (0..(s.kernel_h - 1)) \X (0..(s.kernel_w - 1))
             /\ Cardinality(full) = s.out_channels * s.weight_in_channels
                                      * s.kernel_h * s.kernel_w
<1> DEFINE Filled(k) == LET src == Source(p, k[1], k[2], k[3], k[4])
                        IN  NpuKernel(s, src[1], src[2], src[3], src[4])
           full == {k \in Written(p) : Filled(k) # Zero}
           first(oc) == FirstChannel(s, oc)
           weights == (0..(s.out_channels - 1)) \X (0..(s.weight_in_channels - 1))
                        \X (0..(s.kernel_h - 1)) \X (0..(s.kernel_w - 1))
           f == [k \in full |-> Filled(k)]
<1>1. /\ p.out_channels = s.out_channels /\ p.in_channels = s.in_channels
      /\ p.kernel_h = s.kernel_h /\ p.kernel_w = s.kernel_w
      /\ s.out_channels \in Nat \ {0} /\ s.weight_in_channels \in Nat \ {0}
      /\ s.kernel_h \in Nat \ {0} /\ s.kernel_w \in Nat \ {0} /\ s.in_channels \in Nat \ {0}
  BY ShapeType DEF SameKernel
<1>2. ASSUME NEW oc \in 0..(s.out_channels - 1)
      PROVE  first(oc) \in Nat /\ first(oc) + s.weight_in_channels <= s.in_channels
  BY GroupFacts
(* A depthwise kernel has one channel a group, its own.                    *)
<1>3. ASSUME DepthwiseSpatial(p)
      PROVE  /\ s.weight_in_channels = 1
             /\ \A oc \in 0..(s.out_channels - 1) : first(oc) = oc
  <2>1. Groups(s) = s.in_channels /\ s.out_channels = s.in_channels
    <3>1. ParamGroups(p) = s.in_channels /\ s.out_channels = s.in_channels /\ p.groups = s.groups
      BY <1>1, <1>3 DEF DepthwiseSpatial, SameKernel
    <3>2. CASE s.groups > 0
      BY <3>1, <3>2 DEF Groups, ParamGroups
    <3>3. CASE ~(s.groups > 0)
      <4>1. s.in_channels = 1
        BY <3>1, <3>3 DEF ParamGroups
      <4>2. Groups(s) = 1 \div s.weight_in_channels /\ Groups(s) > 0
        BY <3>3, <4>1 DEF Groups, Accepted
      <4>3. Groups(s) = 1
        BY <1>1, <4>2
      <4> QED BY <3>1, <4>1, <4>3
    <3> QED BY <3>2, <3>3
  <2>2. s.in_channels = s.in_channels * s.weight_in_channels
    BY <2>1 DEF PlainKernel
  <2>3. s.weight_in_channels = 1
    BY <1>1, <2>2
  <2>4. s.out_channels \div Groups(s) = 1
    BY <1>1, <2>1
  <2>5. \A oc \in 0..(s.out_channels - 1) : first(oc) = oc
    BY <2>3, <2>4 DEF FirstChannel
  <2> QED BY <2>3, <2>5
<1>4. ASSUME NEW k \in Written(p)
      PROVE  /\ k[1] \in 0..(s.out_channels - 1) /\ k[2] \in 0..(s.in_channels - 1)
             /\ k[3] \in 0..(s.kernel_h - 1) /\ k[4] \in 0..(s.kernel_w - 1)
             /\ k = <<k[1], k[2], k[3], k[4]>>
             /\ Filled(k) = IF k[2] \in first(k[1])..(first(k[1]) + s.weight_in_channels - 1)
                             THEN <<k[1], k[2] - first(k[1]), k[3], k[4]>> ELSE Zero
  <2>1. /\ k[1] \in 0..(s.out_channels - 1) /\ k[2] \in 0..(s.in_channels - 1)
        /\ k[3] \in 0..(s.kernel_h - 1) /\ k[4] \in 0..(s.kernel_w - 1)
        /\ k = <<k[1], k[2], k[3], k[4]>>
    BY <1>1 DEF Written
  <2> QED BY <2>1, WeightPacked
<1>5. \A a, b, c, d : <<a, b, c, d>> # Zero
  BY DEF Zero
<1> HIDE DEF Filled, first
<1>6. ASSUME NEW k \in full
      PROVE  /\ k \in Written(p)
             /\ k[2] \in first(k[1])..(first(k[1]) + s.weight_in_channels - 1)
             /\ f[k] = <<k[1], k[2] - first(k[1]), k[3], k[4]>>
  <2>1. k \in Written(p) /\ Filled(k) # Zero /\ f[k] = Filled(k)
    OBVIOUS
  <2> QED BY <1>4, <2>1
<1>7. \A k, j \in full : f[k] = f[j] => k = j
  <2> SUFFICES ASSUME NEW k \in full, NEW j \in full, f[k] = f[j]
               PROVE  k = j
    OBVIOUS
  <2>1. k[1] = j[1] /\ k[2] - first(k[1]) = j[2] - first(j[1]) /\ k[3] = j[3] /\ k[4] = j[4]
    BY <1>6
  <2>2. k[2] \in Int /\ j[2] \in Int /\ first(k[1]) \in Int /\ first(j[1]) = first(k[1])
    BY <1>2, <1>4, <1>6, <2>1
  <2>3. k[2] = j[2]
    BY <2>1, <2>2
  <2>4. k = <<k[1], k[2], k[3], k[4]>> /\ j = <<j[1], j[2], j[3], j[4]>>
    BY <1>4, <1>6
  <2> QED BY <2>1, <2>3, <2>4
<1>8. \A k \in full : f[k] \in weights
  <2> SUFFICES ASSUME NEW k \in full PROVE f[k] \in weights
    OBVIOUS
  <2>1. k \in Written(p) /\ k[1] \in 0..(s.out_channels - 1) /\ first(k[1]) \in Nat
        /\ k[3] \in 0..(s.kernel_h - 1) /\ k[4] \in 0..(s.kernel_w - 1)
    BY <1>2, <1>4, <1>6
  <2>2. k[2] - first(k[1]) \in 0..(s.weight_in_channels - 1)
    BY <1>1, <1>6, <2>1
  <2> QED BY <1>6, <2>1, <2>2
<1>9. \A t \in weights : \E k \in full : f[k] = t
  <2> SUFFICES ASSUME NEW t \in weights PROVE \E k \in full : f[k] = t
    OBVIOUS
  <2> DEFINE k == <<t[1], first(t[1]) + t[2], t[3], t[4]>>
  <2>1. /\ t[1] \in 0..(s.out_channels - 1) /\ t[2] \in 0..(s.weight_in_channels - 1)
        /\ t[3] \in 0..(s.kernel_h - 1) /\ t[4] \in 0..(s.kernel_w - 1)
        /\ t = <<t[1], t[2], t[3], t[4]>>
    OBVIOUS
  <2>2. /\ first(t[1]) \in Nat /\ first(t[1]) + t[2] \in 0..(s.in_channels - 1)
        /\ first(t[1]) + t[2] \in first(t[1])..(first(t[1]) + s.weight_in_channels - 1)
        /\ (first(t[1]) + t[2]) - first(t[1]) = t[2]
    BY <1>1, <1>2, <2>1
  <2>3. DepthwiseSpatial(p) => first(t[1]) + t[2] = t[1]
    BY <1>3, <2>1
  <2>4. k \in Written(p)
    BY <1>1, <2>1, <2>2, <2>3 DEF Written
  <2>5. Filled(k) = t
    BY <1>4, <2>1, <2>2, <2>4
  <2>6. t # Zero
    BY <1>5, <2>1
  <2>7. k \in full /\ f[k] = t
    BY <2>4, <2>5, <2>6
  <2> QED BY <2>7
<1>10. {f[k] : k \in full} = weights
  <2> HIDE DEF f, full, weights
  <2> QED BY <1>8, <1>9
<1>11. /\ IsFiniteSet(weights)
       /\ Cardinality(weights) = s.out_channels * s.weight_in_channels * s.kernel_h * s.kernel_w
  <2> DEFINE a == s.out_channels
             b == s.weight_in_channels
             c == s.kernel_h
             d == s.kernel_w
             box == Box4(a, b, c, d)
  <2>1. a \in Nat /\ b \in Nat /\ c \in Nat /\ d \in Nat
    BY <1>1
  <2>2. weights = box
    BY DEF Box4
  <2> HIDE DEF a, b, c, d, weights
  <2>3. IsFiniteSet(box) /\ Cardinality(box) = a * b * c * d
    BY <2>1, FourCounts
  <2> QED BY <2>2, <2>3 DEF a, b, c, d
<1>12. IsFiniteSet(full)
  <2> DEFINE all == Box4(p.out_channels, p.in_channels, p.kernel_h, p.kernel_w)
  <2>1. IsFiniteSet(all)
    BY <1>1, FourCounts
  <2>2. full \subseteq all
    BY DEF Written, Box4
  <2> QED BY <2>1, <2>2, FS_Subset
<1>13. Cardinality({f[k] : k \in full}) = Cardinality(full)
  <2> HIDE DEF f, full
  <2> QED BY <1>7, <1>12, InjectionCounts
<1>14. {f[k] : k \in full} = {Filled(k) : k \in full}
  OBVIOUS
<1> HIDE DEF f, weights
<1>15. {Filled(k) : k \in full} = weights /\ Cardinality(full) = Cardinality(weights)
  BY <1>10, <1>13, <1>14
<1> QED BY <1>11, <1>15 DEF Filled, weights

(* Every job's values fit the fields of their registers.                   *)
JobsFit(s) ==
  \A rows \in 1..OutHeight(s) :
    (IF UseTile(s) THEN rows <= TileMaxHeight(s) ELSE rows = OutHeight(s)) =>
      FieldsFit(JobParams(s, rows))

(***************************************************************************)
(* PackingMatches for every shape with the channels of PixelChannels whose *)
(* groups divide them and whose weights are not reordered: the registers   *)
(* describe what was packed, pixels or planes, each weight of each group   *)
(* is packed exactly once, and the rest of the kernel is zero.             *)
(***************************************************************************)
THEOREM PackingIsRight ==
  ASSUME \A s \in Shapes : Accepted(s) => PixelChannels(s) /\ JobsFit(s) /\ PlainKernel(s)
  PROVE  ConvolutionSpec => []PackingMatches
<1>1. CaseInv => PackingMatches
  <2> SUFFICES ASSUME CaseInv, AfterJob PROVE PackingMatches
    BY DEF PackingMatches, RegistersMatchPacking, EveryWeightOnce
  <2> DEFINE s == shape
             p == conv2d_params
  <2>1. /\ s \in Shapes /\ Accepted(s) /\ JobOf(s, p)
        /\ PixelChannels(s) /\ JobsFit(s) /\ PlainKernel(s)
    BY DEF CaseInv, AfterJob
  <2>2. SameKernel(s, p)
    BY <2>1, JobFields
  <2>3. RegistersAgree(p)
    BY <2>1, <2>2, FewChannels
  <2>4. FieldsFit(p)
    BY <2>1 DEF JobOf, JobsFit
  <2>5. EveryWeightOnce
    BY <2>1, <2>2, EachWeightOnce DEF EveryWeightOnce
  <2> QED BY <2>3, <2>4, <2>5 DEF PackingMatches, RegistersMatchPacking
<1> QED BY <1>1, CaseInvHolds, PTL

-----------------------------------------------------------------------------
(* One dimension.                                                          *)

(* The channels whose packing is that of the ARGB input the registers ask  *)
(* for as soon as there are two: should_use_nhwc_pack divides 8 lanes.     *)
ArgbChannels(s) == s.in_channels \in {1, 3, 4}

LEMMA ConfigType ==
  ASSUME NEW s \in Configs
  PROVE  /\ s.batch \in Nat \ {0} /\ s.in_channels \in Nat \ {0}
         /\ s.input_size \in Nat \ {0} /\ s.out_channels \in Nat \ {0}
         /\ s.weight_in_channels \in Nat \ {0} /\ s.kernel_size \in Nat \ {0}
         /\ s.groups \in Nat
BY Conv1dAssumption DEF Conv1d!ConfigAssumption

LEMMA ConfigFacts ==
  ASSUME NEW s \in Configs, Conv1d!Accepted(s), ArgbChannels(s)
  PROVE  /\ Conv1d!OutputSize(s) \in Nat \ {0}
         /\ Conv1d!OutputSize(s) + s.kernel_size = s.input_size + 1
         /\ Conv1d!DataInChannel(s) = 8
         /\ Conv1d!UseNhwcPack(s) <=> s.in_channels # 1
         /\ Conv1d!ParamsOf(s) \in
              [input_width : Nat, kernel_width : Nat, output_width : Nat,
               in_channels : Nat, out_channels : Nat, out_channel_align : Nat]
<1>1. Conv1d!OutputSize(s) \in Nat \ {0}
  BY ConfigType DEF Conv1d!Accepted, Conv1d!OutputSize
<1>2. Conv1d!OutputSize(s) + s.kernel_size = s.input_size + 1
  BY ConfigType DEF Conv1d!OutputSize
<1>3. Conv1d!DataInChannel(s) = 8
  BY DEF ArgbChannels, Conv1d!DataInChannel, Conv1d!AlignUp
<1>4. Conv1d!UseNhwcPack(s) <=> s.in_channels # 1
  BY <1>3 DEF ArgbChannels, Conv1d!UseNhwcPack
<1>5. Conv1d!AlignUp(s.out_channels, 16) \in Nat
  BY ConfigType DEF Conv1d!AlignUp
<1>6. Conv1d!ParamsOf(s) \in
        [input_width : Nat, kernel_width : Nat, output_width : Nat,
         in_channels : Nat, out_channels : Nat, out_channel_align : Nat]
  BY <1>1, <1>5, ConfigType DEF Conv1d!ParamsOf
<1> QED BY <1>1, <1>2, <1>3, <1>4, <1>6

LEMMA InputFound ==
  ASSUME NEW s \in Configs, Conv1d!Accepted(s), ArgbChannels(s), NEW img,
         NEW ic \in 0..(s.in_channels - 1), NEW w \in 0..(s.input_size - 1)
  PROVE  Conv1d!InputAt(s, img, Conv1d!InputIndex(s, ic, w)) = <<img, ic, w>>
<1> DEFINE box == (0..(s.in_channels - 1)) \X (0..(s.input_size - 1))
           i == Conv1d!InputIndex(s, ic, w)
           here == {e \in box : Conv1d!InputIndex(s, e[1], e[2]) = i}
<1>1. ASSUME NEW c \in 0..(s.in_channels - 1), NEW x \in 0..(s.input_size - 1),
             Conv1d!InputIndex(s, c, x) = i
      PROVE  c = ic /\ x = w
  <2>1. s.input_size \in Nat /\ c \in Int /\ x \in Int /\ ic \in Int /\ w \in Int
    BY ConfigType
  <2>2. CASE s.in_channels = 1
    BY <1>1, <2>1, <2>2, ConfigFacts DEF Conv1d!InputIndex
  <2>3. CASE s.in_channels = 3
    BY <1>1, <2>1, <2>3, ConfigFacts DEF Conv1d!InputIndex
  <2>4. CASE s.in_channels = 4
    BY <1>1, <2>1, <2>4, ConfigFacts DEF Conv1d!InputIndex
  <2> QED BY <2>2, <2>3, <2>4 DEF ArgbChannels
<1>2. <<ic, w>> \in here
  OBVIOUS
<1>3. \A e \in here : e = <<ic, w>>
  BY <1>1
<1> DEFINE found == CHOOSE e \in here : TRUE
<1>4. here # {} /\ found = <<ic, w>>
  BY <1>2, <1>3
<1>5. Conv1d!InputAt(s, img, i)
        = IF here = {} THEN Conv1d!Zero ELSE <<img, found[1], found[2]>>
  BY DEF Conv1d!InputAt
<1> HIDE DEF here, i, found
<1>6. Conv1d!InputAt(s, img, i) = <<img, ic, w>>
  BY <1>4, <1>5
<1> QED BY <1>6 DEF i

LEMMA WeightFound ==
  ASSUME NEW s \in Configs, Conv1d!Accepted(s), ArgbChannels(s),
         NEW oc \in 0..(s.out_channels - 1),
         NEW ic \in 0..(s.in_channels - 1), NEW kw \in 0..(s.kernel_size - 1)
  PROVE  LET here == {k \in (0..(s.in_channels - 1)) \X (0..(s.kernel_size - 1)) :
                        Conv1d!WeightIndex(s, oc, k[1], k[2]) = (kw * s.out_channels + oc) * 8 + ic}
         IN  here # {} /\ (CHOOSE k \in here : TRUE) = <<ic, kw>>
<1> DEFINE box == (0..(s.in_channels - 1)) \X (0..(s.kernel_size - 1))
           here == {k \in box :
                     Conv1d!WeightIndex(s, oc, k[1], k[2]) = (kw * s.out_channels + oc) * 8 + ic}
<1>1. ASSUME NEW c \in 0..(s.in_channels - 1), NEW k \in 0..(s.kernel_size - 1)
      PROVE  /\ Conv1d!WeightIndex(s, oc, c, k) = Flat3(s.out_channels, 8, k, oc, c)
             /\ Flat3(s.out_channels, 8, k, oc, c) % 8 = c
             /\ (Flat3(s.out_channels, 8, k, oc, c) \div 8) \div s.out_channels = k
  <2>1. Conv1d!WeightIndex(s, oc, c, k) = Flat3(s.out_channels, 8, k, oc, c)
    BY ConfigFacts DEF Conv1d!WeightIndex, Flat3, Flat
  <2> DEFINE lanes == 8
             b == s.out_channels
  <2>2. /\ lanes \in Nat \ {0} /\ b \in Nat \ {0}
        /\ k \in Nat /\ oc \in 0..(b - 1) /\ c \in 0..(lanes - 1)
    BY ConfigType DEF ArgbChannels
  <2> HIDE DEF lanes, b
  <2>3. /\ Flat3(b, lanes, k, oc, c) % lanes = c
        /\ (Flat3(b, lanes, k, oc, c) \div lanes) \div b = k
    BY <2>2, Flat3Parts
  <2> QED BY <2>1, <2>3 DEF lanes, b
<1>2. (kw * s.out_channels + oc) * 8 + ic = Flat3(s.out_channels, 8, kw, oc, ic)
  BY DEF Flat3, Flat
<1>3. <<ic, kw>> \in here
  BY <1>1, <1>2
<1>4. \A e \in here : e = <<ic, kw>>
  BY <1>1, <1>2
<1> QED BY <1>3, <1>4

LEMMA GroupOfConfig ==
  ASSUME NEW s \in Configs, Conv1d!Accepted(s), NEW oc \in 0..(s.out_channels - 1)
  PROVE  /\ Conv1d!GroupStart(s, oc) \in Nat
         /\ Conv1d!GroupStart(s, oc) + s.weight_in_channels <= s.in_channels
<1> DEFINE G == Conv1d!Groups(s)
           size == s.out_channels \div G
           g == oc \div size
           w == s.weight_in_channels
<1>1. /\ G \in Nat \ {0} /\ w \in Nat \ {0} /\ s.out_channels \in Nat \ {0}
      /\ s.in_channels = G * w
  <2>1. s.in_channels \in Nat \ {0} /\ w \in Nat \ {0} /\ s.groups \in Nat
    BY ConfigType
  <2>2. CASE s.groups > 0
    BY <2>1, <2>2, ConfigType DEF Conv1d!Accepted, Conv1d!Groups
  <2>3. CASE ~(s.groups > 0)
    <3> DEFINE x == s.in_channels
    <3>1. G = x \div w /\ x % w = 0
      BY <2>3 DEF Conv1d!Accepted, Conv1d!Groups
    <3>2. x \in Nat \ {0}
      BY <2>1
    <3> HIDE DEF x, w, G
    <3>3. G \in Nat /\ x = G * w + (x % w)
      BY <2>1, <3>1, <3>2, DivMod
    <3>4. x = G * w /\ G # 0
      BY <2>1, <3>1, <3>2, <3>3
    <3> QED BY <2>1, <3>3, <3>4, ConfigType DEF x
  <2> QED BY <2>2, <2>3
<1>2. size \in Nat \ {0} /\ s.out_channels = G * size
  <2> DEFINE x == s.out_channels
  <2>1. x % G = 0 /\ x \in Nat \ {0}
    BY ConfigType DEF Conv1d!Accepted
  <2> HIDE DEF x, G
  <2>2. x \div G \in Nat /\ x = (x \div G) * G + (x % G)
    BY <1>1, <2>1, DivMod
  <2>3. x = G * (x \div G) /\ x \div G # 0
    BY <1>1, <2>1, <2>2
  <2> QED BY <2>2, <2>3 DEF x
<1> HIDE DEF size, G
<1>3. g \in 0..(G - 1)
  BY <1>1, <1>2, RowMajorAll
<1>4. (g + 1) * w <= G * w /\ (g + 1) * w = g * w + w /\ g * w \in Nat
  BY <1>1, <1>3, MulMonotone, MulNext
<1>5. Conv1d!GroupStart(s, oc) = g * w
  BY DEF Conv1d!GroupStart, size, G
<1> QED BY <1>1, <1>4, <1>5

LEMMA RegOfConfig ==
  ASSUME NEW s \in Configs, Conv1d!Accepted(s), ArgbChannels(s)
  PROVE  LET p == Conv1d!ParamsOf(s)
         IN  /\ p.in_channels = s.in_channels /\ p.out_channels = s.out_channels
             /\ p.kernel_width = s.kernel_size /\ p.input_width = s.input_size
             /\ p.output_width = Conv1d!OutputSize(s)
             /\ p.out_channel_align = Conv1d!AlignUp(s.out_channels, 16)
             /\ Conv1d!Reg(p).lanes = 8
             /\ Conv1d!Reg(p).pixels <=> s.in_channels # 1
             /\ Conv1d!Reg(p).dst_stride = Conv1d!AlignUp(Conv1d!OutputSize(s), 4)
             /\ Conv1d!Reg(p).datain_width = Conv1d!InputWidthAligned(s)
             /\ Conv1d!Reg(p).weight_elems = 8 * s.out_channels * s.kernel_size
<1> DEFINE p == Conv1d!ParamsOf(s)
<1>1. /\ p.in_channels = s.in_channels /\ p.out_channels = s.out_channels
      /\ p.kernel_width = s.kernel_size /\ p.input_width = s.input_size
      /\ p.output_width = Conv1d!OutputSize(s)
      /\ p.out_channel_align = Conv1d!AlignUp(s.out_channels, 16)
  BY DEF Conv1d!ParamsOf
<1> HIDE DEF p
<1>2. /\ Conv1d!Reg(p).lanes = Conv1d!AlignUp(s.in_channels, 8)
      /\ Conv1d!Reg(p).pixels <=> s.in_channels > 1
      /\ Conv1d!Reg(p).dst_stride = Conv1d!AlignUp(Conv1d!OutputSize(s), 4)
      /\ Conv1d!Reg(p).datain_width = Conv1d!InputWidthAligned(s)
      /\ Conv1d!Reg(p).weight_elems
           = Conv1d!AlignUp(s.kernel_size * Conv1d!AlignUp(s.in_channels, 8), 8) * s.out_channels
  BY <1>1 DEF Conv1d!Reg, Conv1d!InputWidthAligned
<1>3. Conv1d!AlignUp(s.in_channels, 8) = 8
  BY ConfigFacts DEF Conv1d!DataInChannel
<1>4. s.in_channels > 1 <=> s.in_channels # 1
  BY ConfigType
<1>5. Conv1d!AlignUp(s.kernel_size * 8, 8) = 8 * s.kernel_size
  BY ConfigType DEF Conv1d!AlignUp
<1>6. (8 * s.kernel_size) * s.out_channels = 8 * s.out_channels * s.kernel_size
  BY ConfigType
<1>7. Conv1d!Reg(p).weight_elems = 8 * s.out_channels * s.kernel_size
  BY <1>2, <1>3, <1>5, <1>6
<1>8. Conv1d!Reg(p).lanes = 8 /\ (Conv1d!Reg(p).pixels <=> s.in_channels # 1)
  BY <1>2, <1>3, <1>4
<1> QED BY <1>1, <1>2, <1>7, <1>8 DEF p

LEMMA OutputPlaces ==
  ASSUME NEW s \in Configs, Conv1d!Accepted(s), ArgbChannels(s),
         NEW oc \in 0..(s.out_channels - 1), NEW pos \in 0..(Conv1d!OutputSize(s) - 1)
  PROVE  LET p == Conv1d!ParamsOf(s)
         IN  /\ Conv1d!OutputIndex(p, oc, pos) = Conv1d!ReadIndex(s, oc, pos)
             /\ Conv1d!OutputIndex(p, oc, pos) < Conv1d!OutputElems(s, p)
<1> DEFINE p == Conv1d!ParamsOf(s)
           width == Conv1d!AlignUp(Conv1d!OutputSize(s), 4)
           blocks == CeilDiv(s.out_channels, 16)
           planes == blocks * 2
           lanes == 8
<1>1. Conv1d!OutputIndex(p, oc, pos) = Conv1d!ReadIndex(s, oc, pos)
  BY RegOfConfig DEF Conv1d!OutputIndex, Conv1d!ReadIndex
<1>2. width \in Nat \ {0} /\ Conv1d!OutputSize(s) <= width
  <2> DEFINE x == Conv1d!OutputSize(s)
             four == 4
  <2>1. x \in Nat \ {0} /\ four \in Nat \ {0}
    BY ConfigFacts
  <2>2. Conv1d!AlignUp(x, four) = AlignUp(x, four)
    BY DEF Conv1d!AlignUp, AlignUp, CeilDiv
  <2> HIDE DEF x, four
  <2>3. AlignUp(x, four) \in Nat \ {0} /\ x <= AlignUp(x, four)
    BY <2>1, AlignUpFacts
  <2> QED BY <2>2, <2>3 DEF x, four
<1>3. /\ blocks \in Nat \ {0} /\ Conv1d!AlignUp(s.out_channels, 16) = blocks * 16
      /\ s.out_channels <= blocks * 16
  <2>1. 16 \in Nat \ {0} /\ s.out_channels \in Nat \ {0}
    BY ConfigType
  <2>2. /\ CeilDiv(s.out_channels, 16) \in Nat \ {0}
        /\ AlignUp(s.out_channels, 16) = CeilDiv(s.out_channels, 16) * 16
        /\ s.out_channels <= AlignUp(s.out_channels, 16)
    BY <2>1, AlignUpFacts
  <2>3. Conv1d!AlignUp(s.out_channels, 16) = AlignUp(s.out_channels, 16)
    BY DEF Conv1d!AlignUp, AlignUp, CeilDiv
  <2> QED BY <2>2, <2>3
<1> HIDE DEF width, blocks
<1>4. /\ planes \in Nat /\ lanes \in Nat \ {0}
      /\ oc \div 8 \in 0..(planes - 1) /\ oc % 8 \in 0..(lanes - 1)
      /\ pos \in 0..(width - 1)
  BY <1>2, <1>3, ConfigType, ConfigFacts
<1>5. Conv1d!OutputIndex(p, oc, pos) = Flat3(width, lanes, oc \div 8, pos, oc % 8)
  BY RegOfConfig DEF Conv1d!OutputIndex, Flat3, Flat, width
<1>6. Conv1d!OutputElems(s, p) = width * (blocks * 16)
  BY <1>3, RegOfConfig DEF Conv1d!OutputElems, width
<1>7. (planes * width) * lanes = width * (blocks * 16)
  BY <1>2, <1>3
<1> HIDE DEF planes, lanes, p
<1>8. Flat3(width, lanes, oc \div 8, pos, oc % 8) \in 0..((planes * width) * lanes - 1)
  BY <1>2, <1>4, Flat3Inside
<1>9. width * (blocks * 16) \in Int
  BY <1>2, <1>3
<1> QED BY <1>1, <1>5, <1>6, <1>7, <1>8, <1>9 DEF p

(***************************************************************************)
(* One element of the NPU's output: what it finds at the places it reads   *)
(* are the operands of the convolution, and where the expanded kernel has  *)
(* a zero the reference has no term.                                       *)
(***************************************************************************)
LEMMA TermsOfElement ==
  ASSUME NEW s \in Configs, Conv1d!Accepted(s), ArgbChannels(s), NEW img,
         NEW oc \in 0..(s.out_channels - 1), NEW pos \in 0..(Conv1d!OutputSize(s) - 1)
  PROVE  Conv1d!NpuTerms(s, Conv1d!ParamsOf(s), img, oc, pos) = Conv1d!CpuOutput(s, img, oc, pos)
<1> DEFINE chans == 0..(s.in_channels - 1)
           taps == 0..(s.kernel_size - 1)
           start == Conv1d!GroupStart(s, oc)
           terms == {<< <<img, ic, pos + kw>>, Conv1d!NpuKernel(s, oc, ic, kw) >> :
                       kw \in taps, ic \in chans}
           kept == {t \in terms : t[1] # Conv1d!Zero /\ t[2] # Conv1d!Zero}
           p == Conv1d!ParamsOf(s)
           Lane(w, ic) == IF Conv1d!Reg(p).pixels THEN w * p.in_channels + ic
                          ELSE w * Conv1d!Reg(p).lanes + ic
           Here(kw, ic) ==
             {k \in chans \X taps : Conv1d!WeightIndex(s, oc, k[1], k[2])
                               = (kw * p.out_channels + oc) * Conv1d!Reg(p).lanes + ic}
           Found(kw, ic) == CHOOSE k \in Here(kw, ic) : TRUE
           Weight(kw, ic) ==
             IF Here(kw, ic) = {} THEN Conv1d!Zero
             ELSE Conv1d!NpuKernel(s, oc, Found(kw, ic)[1], Found(kw, ic)[2])
           read == {<<Conv1d!InputAt(s, img, Lane(pos + kw, ic)), Weight(kw, ic)>> :
                      kw \in 0..(p.kernel_width - 1), ic \in 0..(p.in_channels - 1)}
<1>1. /\ p.in_channels = s.in_channels /\ p.out_channels = s.out_channels
      /\ p.kernel_width = s.kernel_size
      /\ Conv1d!Reg(p).lanes = 8
      /\ Conv1d!Reg(p).pixels <=> s.in_channels # 1
  BY RegOfConfig
<1>2. Conv1d!NpuTerms(s, p, img, oc, pos)
        = {t \in read : t[1] # Conv1d!Zero /\ t[2] # Conv1d!Zero}
  BY DEF Conv1d!NpuTerms
<1>3. ASSUME NEW kw \in taps, NEW ic \in chans
      PROVE  /\ Conv1d!InputAt(s, img, Lane(pos + kw, ic)) = <<img, ic, pos + kw>>
             /\ Weight(kw, ic) = Conv1d!NpuKernel(s, oc, ic, kw)
  <2>1. pos + kw \in 0..(s.input_size - 1)
    BY ConfigFacts, ConfigType
  <2>2. Lane(pos + kw, ic) = Conv1d!InputIndex(s, ic, pos + kw)
    <3>1. Conv1d!UseNhwcPack(s) <=> Conv1d!Reg(p).pixels
      BY <1>1, ConfigFacts
    <3>2. Conv1d!DataInChannel(s) = Conv1d!Reg(p).lanes
      BY <1>1, ConfigFacts
    <3> HIDE DEF p
    <3> QED BY <1>1, <3>1, <3>2 DEF Conv1d!InputIndex
  <2>3. Here(kw, ic) # {} /\ Found(kw, ic) = <<ic, kw>>
    BY <1>1, WeightFound
  <2> HIDE DEF Here, Found, Lane
  <2>4. Weight(kw, ic) = Conv1d!NpuKernel(s, oc, ic, kw)
    BY <2>3
  <2> QED BY <2>1, <2>2, <2>4, InputFound
<1> HIDE DEF Lane, Weight, p
<1>4. read = terms
  BY <1>1, <1>3
<1>5. /\ start \in Nat /\ start + s.weight_in_channels <= s.in_channels
      /\ s.weight_in_channels \in Nat \ {0} /\ s.in_channels \in Nat
  BY GroupOfConfig, ConfigType
<1> DEFINE answer == {<< <<img, start + ic, pos + k>>, <<oc, ic, k>> >> :
                        ic \in 0..(s.weight_in_channels - 1), k \in taps}
<1>6. Conv1d!CpuOutput(s, img, oc, pos) = answer
  BY DEF Conv1d!CpuOutput, Conv1d!GroupStart
<1>7. ASSUME NEW ic \in chans, NEW kw \in taps
      PROVE  Conv1d!NpuKernel(s, oc, ic, kw)
               = IF ic \in start..(start + s.weight_in_channels - 1)
                 THEN <<oc, ic - start, kw>> ELSE Conv1d!Zero
  BY DEF Conv1d!NpuKernel
<1>8. \A a, b, c : <<a, b, c>> # Conv1d!Zero
  BY DEF Conv1d!Zero
<1> HIDE DEF start
<1>9. ASSUME NEW t \in kept PROVE t \in answer
  <2>1. PICK kw \in taps, ic \in chans :
          t = << <<img, ic, pos + kw>>, Conv1d!NpuKernel(s, oc, ic, kw) >>
    OBVIOUS
  <2>2. Conv1d!NpuKernel(s, oc, ic, kw) # Conv1d!Zero
    BY <2>1
  <2>3. ic \in start..(start + s.weight_in_channels - 1)
    BY <1>7, <2>2
  <2>4. ic - start \in 0..(s.weight_in_channels - 1) /\ ic = start + (ic - start)
    BY <1>5, <2>3
  <2>5. t = << <<img, start + (ic - start), pos + kw>>, <<oc, ic - start, kw>> >>
    BY <1>7, <2>1, <2>3, <2>4
  <2> QED BY <2>4, <2>5
<1>10. ASSUME NEW t \in answer PROVE t \in kept
  <2>1. PICK i \in 0..(s.weight_in_channels - 1), k \in taps :
          t = << <<img, start + i, pos + k>>, <<oc, i, k>> >>
    OBVIOUS
  <2>2. /\ start + i \in chans /\ start + i \in start..(start + s.weight_in_channels - 1)
        /\ (start + i) - start = i
    BY <1>5
  <2>3. Conv1d!NpuKernel(s, oc, start + i, k) = <<oc, i, k>>
    BY <1>7, <2>2
  <2>4. t \in terms
    BY <2>1, <2>2, <2>3
  <2> QED BY <1>8, <2>1, <2>4
<1>11. kept = answer
  BY <1>9, <1>10
<1> HIDE DEF read, terms, kept, answer
<1>12. Conv1d!NpuTerms(s, p, img, oc, pos) = Conv1d!CpuOutput(s, img, oc, pos)
  BY <1>2, <1>4, <1>6, <1>11 DEF kept
<1> QED BY <1>12 DEF p

-----------------------------------------------------------------------------
(* The images of the batch so far are convolutions, and once there is one  *)
(* the global describes the shape.                                         *)
Conv1dInv ==
  process = "conv1d" =>
    /\ conv1d_pc \in {"idle", "batch", "compare"}
    /\ config \in Configs /\ conv1d_status \in {0, -1}
    /\ conv1d_params \in
         [input_width : Nat, kernel_width : Nat, output_width : Nat,
          in_channels : Nat, out_channels : Nat, out_channel_align : Nat]
    /\ conv1d_pc = "idle" => image = 0 /\ npu_output = <<>>
    /\ conv1d_pc = "batch" => image \in 0..(config.batch - 1)
    /\ conv1d_pc = "compare" => image = config.batch
    /\ image > 0 => conv1d_params = Conv1d!ParamsOf(config)
    /\ conv1d_pc # "idle" =>
         /\ Conv1d!Accepted(config)
         /\ DOMAIN npu_output = Conv1d!Elements(config)
         /\ \A e \in Conv1d!Elements(config) :
              e[1] < image => npu_output[e] = Conv1d!CpuOutput(config, e[1], e[2], e[3])

LEMMA Conv1dStart ==
  ASSUME process = "conv1d", process' = process, Conv1dInv, NEW s \in Configs,
         Conv1d!StartCase(s)
  PROVE  Conv1dInv'
<1>1. s.batch \in Nat \ {0}
  BY ConfigType
<1>2. image = 0 /\ image' = 0 /\ config' = s /\ conv1d_pc' = "batch"
  BY DEF Conv1d!StartCase, Conv1dInv
<1>3. DOMAIN npu_output' = Conv1d!Elements(s)
  BY DEF Conv1d!StartCase
<1>4. \A e \in Conv1d!Elements(s) : ~(e[1] < 0)
  BY <1>1 DEF Conv1d!Elements
<1> QED BY <1>1, <1>2, <1>3, <1>4 DEF Conv1d!StartCase, Conv1dInv

LEMMA Conv1dImage ==
  ASSUME process = "conv1d", process' = process, Conv1dInv, Conv1d!Image,
         \A s \in Configs : Conv1d!Accepted(s) => ArgbChannels(s)
  PROVE  Conv1dInv'
<1>1. /\ config \in Configs /\ config' = config /\ Conv1d!Accepted(config)
      /\ ArgbChannels(config) /\ conv1d_params' = Conv1d!ParamsOf(config)
      /\ image \in 0..(config.batch - 1) /\ image' = image + 1
      /\ DOMAIN npu_output = Conv1d!Elements(config)
      /\ \A e \in Conv1d!Elements(config) :
           e[1] < image => npu_output[e] = Conv1d!CpuOutput(config, e[1], e[2], e[3])
  BY DEF Conv1dInv, Conv1d!Image
<1>2. config.batch \in Nat \ {0}
  BY <1>1, ConfigType
<1>3. npu_output' = Conv1d!BatchOutput(config, Conv1d!ParamsOf(config), image, npu_output)
  BY <1>1 DEF Conv1d!Image
<1>4. DOMAIN npu_output' = Conv1d!Elements(config)
  BY <1>1, <1>3 DEF Conv1d!BatchOutput
<1>5. ASSUME NEW e \in Conv1d!Elements(config), e[1] < image + 1
      PROVE  npu_output'[e] = Conv1d!CpuOutput(config, e[1], e[2], e[3])
  <2>1. /\ e[1] \in 0..(config.batch - 1) /\ e[2] \in 0..(config.out_channels - 1)
        /\ e[3] \in 0..(Conv1d!OutputSize(config) - 1)
    BY DEF Conv1d!Elements
  <2>2. npu_output'[e]
          = IF e[1] # image THEN npu_output[e]
            ELSE IF Conv1d!ReadIndex(config, e[2], e[3])
                      = Conv1d!OutputIndex(Conv1d!ParamsOf(config), e[2], e[3])
                 THEN Conv1d!NpuTerms(config, Conv1d!ParamsOf(config), image, e[2], e[3])
                 ELSE Conv1d!Unset
    BY <1>1, <1>3 DEF Conv1d!BatchOutput
  <2>3. CASE e[1] # image
    <3>1. e[1] < image
      BY <1>1, <1>2, <1>5, <2>1, <2>3
    <3> QED BY <1>1, <2>2, <2>3, <3>1
  <2>4. CASE e[1] = image
    <3>1. Conv1d!OutputIndex(Conv1d!ParamsOf(config), e[2], e[3])
            = Conv1d!ReadIndex(config, e[2], e[3])
      BY <1>1, <2>1, OutputPlaces
    <3>2. Conv1d!NpuTerms(config, Conv1d!ParamsOf(config), image, e[2], e[3])
            = Conv1d!CpuOutput(config, image, e[2], e[3])
      BY <1>1, <2>1, TermsOfElement
    <3> QED BY <2>2, <2>4, <3>1, <3>2
  <2> QED BY <2>3, <2>4
<1>6. conv1d_params' \in
        [input_width : Nat, kernel_width : Nat, output_width : Nat,
         in_channels : Nat, out_channels : Nat, out_channel_align : Nat]
  BY <1>1, ConfigFacts
<1>7. /\ conv1d_pc' = IF image' = config.batch THEN "compare" ELSE "batch"
      /\ conv1d_status' = conv1d_status
  BY <1>1 DEF Conv1d!Image
<1>8. conv1d_status \in {0, -1}
  BY DEF Conv1dInv
<1>9. image' \in 1..config.batch
  BY <1>1, <1>2
<1>10. /\ conv1d_pc' \in {"batch", "compare"}
       /\ conv1d_pc' = "batch" => image' \in 0..(config.batch - 1)
       /\ conv1d_pc' = "compare" => image' = config.batch
  BY <1>2, <1>7, <1>9
<1> QED BY <1>1, <1>4, <1>5, <1>6, <1>7, <1>8, <1>10 DEF Conv1dInv

LEMMA Conv1dEnd ==
  ASSUME process = "conv1d", process' = process, Conv1dInv,
         Conv1d!ImageFails \/ Conv1d!Compare,
         \A s \in Configs : Conv1d!Accepted(s) => ArgbChannels(s)
  PROVE  Conv1dInv'
<1>1. /\ config \in Configs /\ config' = config /\ Conv1d!Accepted(config)
      /\ conv1d_pc' = "idle" /\ image' = 0 /\ npu_output' = <<>>
      /\ conv1d_params' \in {conv1d_params, Conv1d!ParamsOf(config)}
      /\ conv1d_status' \in {0, -1}
  BY DEF Conv1dInv, Conv1d!ImageFails, Conv1d!Compare, Conv1d!FreeLocals
<1>2. conv1d_params' \in
        [input_width : Nat, kernel_width : Nat, output_width : Nat,
         in_channels : Nat, out_channels : Nat, out_channel_align : Nat]
  BY <1>1, ConfigFacts DEF Conv1dInv
<1> QED BY <1>1, <1>2 DEF Conv1dInv

LEMMA Conv1dInvHolds ==
  ASSUME \A s \in Configs : Conv1d!Accepted(s) => ArgbChannels(s)
  PROVE  ConvolutionSpec => []Conv1dInv
<1>1. ConvolutionInit => Conv1dInv
  BY DEF ConvolutionInit, Conv1d!Init, Conv1dInv
<1>2. Conv1dInv /\ [ConvolutionNext]_<<process, vars, conv1dVars, regVars>> => Conv1dInv'
  <2> SUFFICES ASSUME Conv1dInv, [ConvolutionNext]_<<process, vars, conv1dVars, regVars>>,
                      process' = "conv1d"
               PROVE  Conv1dInv'
    BY DEF Conv1dInv
  <2>1. process = "conv1d" /\ process' = process
    BY DEF ConvolutionNext
  <2>2. Conv1d!Next \/ UNCHANGED conv1dVars
    BY <2>1 DEF ConvolutionNext
  <2>3. CASE UNCHANGED conv1dVars
    BY <2>1, <2>3 DEF conv1dVars, Conv1dInv
  <2>4. CASE Conv1d!Next
    <3>1. CASE \E s \in Configs : Conv1d!StartCase(s)
      BY <2>1, <3>1, Conv1dStart
    <3>2. CASE \E s \in Configs : Conv1d!Refuse(s)
      BY <2>1, <3>2 DEF Conv1d!Refuse, Conv1dInv
    <3>3. CASE Conv1d!Image
      BY <2>1, <3>3, Conv1dImage
    <3>4. CASE Conv1d!ImageFails \/ Conv1d!Compare
      BY <2>1, <3>4, Conv1dEnd
    <3> QED BY <2>4, <3>1, <3>2, <3>3, <3>4 DEF Conv1d!Next
  <2> QED BY <2>2, <2>3, <2>4
<1> QED BY <1>1, <1>2, PTL DEF ConvolutionSpec

(***************************************************************************)
(* Conv1dSound for every set of shapes of 1, 3 or 4 channels, any batch,   *)
(* width, kernel and grouping: other channels are packed by planes while   *)
(* the registers ask for pixels, so the hypothesis is what the code needs. *)
(***************************************************************************)
THEOREM Conv1dIsSound ==
  ASSUME \A s \in Configs : Conv1d!Accepted(s) => ArgbChannels(s)
  PROVE  ConvolutionSpec => []Conv1dSound
<1>1. Conv1dInv => Conv1dSound
  <2> SUFFICES ASSUME Conv1dInv, process = "conv1d"
               PROVE  Conv1d!TypeOK /\ Conv1d!BuffersMatch /\ Conv1d!AnswerIsConvolution
    BY DEF Conv1dSound
  <2>1. config.batch \in Nat \ {0} /\ config \in Configs
    BY ConfigType DEF Conv1dInv
  <2>2. Conv1d!TypeOK
    BY <2>1 DEF Conv1dInv, Conv1d!TypeOK
  <2>3. ASSUME image > 0 PROVE Conv1d!BuffersMatch
    <3> DEFINE s == config
               p == Conv1d!ParamsOf(s)
               width == Conv1d!InputWidthAligned(s)
    <3>1. /\ conv1d_params = p /\ s \in Configs /\ Conv1d!Accepted(s) /\ ArgbChannels(s)
      BY <2>3 DEF Conv1dInv
    <3> HIDE DEF s
    <3>2. Conv1d!RegistersAgree(s, p)
      <4>1. Conv1d!Reg(p).weight_elems = Conv1d!WeightElems(s)
        BY <3>1, RegOfConfig, ConfigFacts DEF Conv1d!WeightElems
      <4>2. Conv1d!Reg(p).pixels = Conv1d!UseNhwcPack(s)
        <5>1. Conv1d!Reg(p).pixels = (p.in_channels > 1)
          BY DEF Conv1d!Reg
        <5>2. Conv1d!UseNhwcPack(s) = (Conv1d!DataInChannel(s) \div s.in_channels = 2)
          BY DEF Conv1d!UseNhwcPack
        <5>3. p.in_channels = s.in_channels /\ Conv1d!DataInChannel(s) = 8
          BY <3>1, RegOfConfig, ConfigFacts
        <5>4. (s.in_channels > 1) = (8 \div s.in_channels = 2)
          BY <3>1 DEF ArgbChannels
        <5> HIDE DEF p
        <5> QED BY <5>1, <5>2, <5>3, <5>4
      <4> QED BY <3>1, <4>1, <4>2, RegOfConfig, ConfigFacts DEF Conv1d!RegistersAgree
    <3>3. Conv1d!InputIndex(s, s.in_channels - 1, s.input_size - 1) < Conv1d!InputElems(s)
      <4>1. width \in Nat /\ s.input_size <= width
        BY <3>1, ConfigType DEF Conv1d!InputWidthAligned, Conv1d!AlignUp
      <4> HIDE DEF width
      <4>2. Conv1d!InputElems(s) = width * 8
        BY <3>1, ConfigFacts DEF Conv1d!InputElems, width
      <4>3. s.input_size \in Nat \ {0}
        BY <3>1, ConfigType
      <4>4. CASE s.in_channels = 1
        BY <3>1, <4>1, <4>2, <4>3, <4>4, ConfigFacts DEF Conv1d!InputIndex
      <4>5. CASE s.in_channels = 3
        BY <3>1, <4>1, <4>2, <4>3, <4>5, ConfigFacts DEF Conv1d!InputIndex
      <4>6. CASE s.in_channels = 4
        BY <3>1, <4>1, <4>2, <4>3, <4>6, ConfigFacts DEF Conv1d!InputIndex
      <4> QED BY <3>1, <4>4, <4>5, <4>6 DEF ArgbChannels
    <3>4. Conv1d!WeightIndex(s, s.out_channels - 1, s.in_channels - 1, s.kernel_size - 1)
            < Conv1d!WeightElems(s)
      <4> DEFINE k == s.kernel_size
                 o == s.out_channels
      <4>1. k \in Nat \ {0} /\ o \in Nat \ {0} /\ k - 1 \in Nat
        BY <3>1, ConfigType
      <4>2. Conv1d!WeightElems(s) = 8 * o * k
        BY <3>1, ConfigFacts DEF Conv1d!WeightElems
      <4>3. Conv1d!WeightIndex(s, o - 1, s.in_channels - 1, k - 1)
              = ((k - 1) * o + (o - 1)) * 8 + (s.in_channels - 1)
        BY <3>1, ConfigFacts DEF Conv1d!WeightIndex
      <4>4. s.in_channels \in 1..8
        BY <3>1 DEF ArgbChannels
      <4> HIDE DEF k, o
      <4>5. k * o \in Nat /\ (k - 1) * o + o = k * o /\ 8 * o * k = 8 * (k * o)
        BY <4>1
      <4>6. (k - 1) * o \in Int
        BY <4>1
      <4>7. ((k - 1) * o + (o - 1)) * 8 + (s.in_channels - 1) < 8 * (k * o)
        BY <4>1, <4>4, <4>5, <4>6
      <4> QED BY <4>2, <4>3, <4>5, <4>7 DEF k, o
    <3>5. ASSUME NEW oc \in 0..(s.out_channels - 1)
          PROVE  /\ Conv1d!OutputIndex(p, oc, Conv1d!OutputSize(s) - 1) < Conv1d!OutputElems(s, p)
                 /\ Conv1d!ReadIndex(s, oc, Conv1d!OutputSize(s) - 1) < Conv1d!OutputElems(s, p)
      <4>1. Conv1d!OutputSize(s) - 1 \in 0..(Conv1d!OutputSize(s) - 1)
        BY <3>1, ConfigFacts
      <4> QED BY <3>1, <4>1, OutputPlaces
    <3> QED BY <3>1, <3>2, <3>3, <3>4, <3>5 DEF Conv1d!BuffersMatch, s
  <2>4. Conv1d!BuffersMatch
    BY <2>3 DEF Conv1d!BuffersMatch
  <2>5. Conv1d!AnswerIsConvolution
    <3> SUFFICES ASSUME conv1d_pc = "compare", NEW e \in Conv1d!Elements(config)
                 PROVE  npu_output[e] = Conv1d!CpuOutput(config, e[1], e[2], e[3])
      BY DEF Conv1d!AnswerIsConvolution
    <3>1. e[1] < image
      BY <2>1 DEF Conv1dInv, Conv1d!Elements
    <3> QED BY <3>1 DEF Conv1dInv
  <2> QED BY <2>2, <2>4, <2>5
<1> QED BY <1>1, Conv1dInvHolds, PTL

-----------------------------------------------------------------------------
(* The recorder. Sequences whose elements have no set of their own.        *)
IsSequence(s) == \E T : s \in Seq(T)

LEMMA Sequence ==
  ASSUME NEW s, IsSequence(s)
  PROVE  Len(s) \in Nat /\ DOMAIN s = 1..Len(s) /\ s = [i \in 1..Len(s) |-> s[i]]
BY DEF IsSequence

LEMMA Joined ==
  ASSUME NEW s, NEW t, IsSequence(s), IsSequence(t)
  PROVE  /\ IsSequence(s \o t) /\ Len(s \o t) = Len(s) + Len(t)
         /\ \A i \in 1..Len(s) : (s \o t)[i] = s[i]
         /\ \A i \in 1..Len(t) : (s \o t)[Len(s) + i] = t[i]
<1>1. PICK U, T : s \in Seq(U) /\ t \in Seq(T)
  BY DEF IsSequence
<1>2. s \in Seq(U \cup T) /\ t \in Seq(U \cup T)
  BY <1>1
<1>3. s \o t \in Seq(U \cup T)
  BY <1>2
<1> QED BY <1>2, <1>3 DEF IsSequence

(* One element over and over.                                              *)
Filled(times, e) == [i \in 1..times |-> e]

LEMMA Repeated ==
  ASSUME NEW s, IsSequence(s), NEW times \in Nat, NEW e
  PROVE  LET t == s \o Filled(times, e)
         IN  /\ IsSequence(t) /\ Len(t) = Len(s) + times /\ Len(s) \in Nat
             /\ \A i \in 1..Len(s) : t[i] = s[i]
             /\ \A i \in (Len(s) + 1)..Len(t) : t[i] = e
<1> DEFINE r == Filled(times, e)
           t == s \o r
<1>1. IsSequence(r) /\ Len(r) = times /\ \A i \in 1..times : r[i] = e
  <2>1. r \in Seq({e}) /\ Len(r) = times
    BY DEF Filled
  <2> QED BY <2>1 DEF IsSequence, Filled
<1> HIDE DEF r
<1>2. /\ IsSequence(t) /\ Len(t) = Len(s) + times
      /\ \A i \in 1..Len(s) : t[i] = s[i]
      /\ \A i \in 1..times : t[Len(s) + i] = r[i]
  BY <1>1, Joined
<1>3. Len(s) \in Nat
  BY Sequence
<1> HIDE DEF t
<1>4. ASSUME NEW i \in (Len(s) + 1)..Len(t) PROVE t[i] = e
  <2>1. i - Len(s) \in 1..times /\ Len(s) + (i - Len(s)) = i
    BY <1>2, <1>3
  <2>2. t[Len(s) + (i - Len(s))] = r[i - Len(s)] /\ r[i - Len(s)] = e
    BY <1>1, <1>2, <2>1
  <2> QED BY <2>1, <2>2
<1> QED BY <1>2, <1>3, <1>4 DEF t, r

(* The value of one element replaced.                                      *)
WithValue(s, i, v) == [s EXCEPT ![i].val = v]

LEMMA Changed ==
  ASSUME NEW s, IsSequence(s), NEW i \in DOMAIN s, NEW v
  PROVE  /\ IsSequence(WithValue(s, i, v)) /\ Len(WithValue(s, i, v)) = Len(s)
         /\ \A j \in 1..Len(s) : j # i => WithValue(s, i, v)[j] = s[j]
         /\ WithValue(s, i, v)[i] = [s[i] EXCEPT !.val = v]
<1> DEFINE e == [s[i] EXCEPT !.val = v]
           t == [s EXCEPT ![i] = e]
<1>1. t = WithValue(s, i, v)
  BY DEF WithValue
<1> HIDE DEF e
<1>2. PICK U : s \in Seq(U)
  BY DEF IsSequence
<1>3. s \in Seq(U \cup {e}) /\ i \in 1..Len(s)
  BY <1>2
<1>4. t \in Seq(U \cup {e}) /\ Len(t) = Len(s)
  BY <1>3
<1>5. \A j \in 1..Len(s) : j # i => t[j] = s[j]
  BY <1>3
<1>6. t[i] = e
  BY <1>3
<1> HIDE DEF t
<1> QED BY <1>1, <1>4, <1>5, <1>6 DEF IsSequence, e


(***************************************************************************)
(* What an item of a block must be, for a block that starts the units `on` *)
(* and whose output `out` writes; where `safe`, it reads no operand from   *)
(* where the commands are.                                                 *)
(***************************************************************************)
ChainRegisters == {"BASE_ADDRESS", "REGISTER_AMOUNTS"}
OperandRegisters == {"SRC_BASE_ADDR", "EW_BASE_ADDR", "FEATURE_DATA_ADDR", "DCOMP_ADDR0"}

CommandFits(on, out, safe, c) ==
  /\ c.unit \in on \cup {"PC", "none"} /\ c.reg # "pad"
  /\ c.reg = "BASE_ADDRESS" => c.val = <<0>>
  /\ c.reg = "OPERATION_ENABLE" => c.val.on = on
  /\ c.reg = "DST_BASE_ADDR" => c.unit = out
  /\ safe /\ c.reg \in OperandRegisters
       => c.val.buf = "input" \/ (c.val.at \in Nat /\ c.val.at >= Reserved)

ItemFits(on, out, safe, item) ==
  /\ CommandFits(on, out, safe, item)
  /\ item.times \in Nat
  /\ item.reg \in ChainRegisters \cup {"OPERATION_ENABLE"} => item.times = 1

(* The enabling item of a block, 0 for none.                               *)
EnabledAt(block, e) ==
  /\ e \in 0..Len(block)
  /\ \A k \in 1..Len(block) : block[k].reg = "OPERATION_ENABLE" <=> k = e

(* left[k] bounds the commands of the items behind k.                      *)
Budget(block, left, most) ==
  /\ left \in [0..Len(block) -> Nat] /\ left[0] <= most /\ left[Len(block)] = 0
  /\ \A k \in 1..Len(block) : left[k - 1] = left[k] + block[k].times

(* A part of a block: with the enabling item or without, of at most `most` *)
(* commands.                                                               *)
Piece(on, out, safe, block, enables, most) ==
  /\ IsSequence(block)
  /\ \A k \in 1..Len(block) : ItemFits(on, out, safe, block[k])
  /\ \E e : EnabledAt(block, e) /\ (enables <=> e # 0)
  /\ \E left : Budget(block, left, most)

LEMMA PiecesJoin ==
  ASSUME NEW on, NEW out, NEW safe, NEW a, NEW b, NEW mosta \in Nat, NEW mostb \in Nat,
         NEW enables \in BOOLEAN,
         Piece(on, out, safe, a, FALSE, mosta), Piece(on, out, safe, b, enables, mostb)
  PROVE  Piece(on, out, safe, a \o b, enables, mosta + mostb)
<1> DEFINE c == a \o b
           na == Len(a)
           nb == Len(b)
<1>1. /\ IsSequence(c) /\ Len(c) = na + nb /\ na \in Nat /\ nb \in Nat
      /\ \A k \in 1..na : c[k] = a[k]
      /\ \A k \in 1..nb : c[na + k] = b[k]
  BY Joined, Sequence DEF Piece
<1> HIDE DEF c
<1>2. \A k \in (na + 1)..(na + nb) : k - na \in 1..nb /\ c[k] = b[k - na]
  <2> SUFFICES ASSUME NEW k \in (na + 1)..(na + nb) PROVE k - na \in 1..nb /\ c[k] = b[k - na]
    OBVIOUS
  <2>1. k - na \in 1..nb /\ na + (k - na) = k
    BY <1>1
  <2>2. c[na + (k - na)] = b[k - na]
    BY <1>1, <2>1
  <2> QED BY <2>1, <2>2
<1>3. \A k \in 1..(na + nb) : k \in 1..na \/ k \in (na + 1)..(na + nb)
  BY <1>1
<1>4. \A k \in 1..Len(c) : ItemFits(on, out, safe, c[k])
  BY <1>1, <1>2, <1>3 DEF Piece
<1>5. \E e : EnabledAt(c, e) /\ (enables <=> e # 0)
  <2>1. PICK e : EnabledAt(b, e) /\ (enables <=> e # 0)
    BY DEF Piece
  <2>2. \A k \in 1..na : a[k].reg # "OPERATION_ENABLE"
    BY <1>1 DEF Piece, EnabledAt
  <2> DEFINE d == IF e = 0 THEN 0 ELSE na + e
  <2>3. d \in 0..Len(c) /\ (enables <=> d # 0)
    BY <1>1, <2>1 DEF EnabledAt
  <2>4. ASSUME NEW k \in 1..Len(c)
        PROVE  c[k].reg = "OPERATION_ENABLE" <=> k = d
    <3>1. CASE k \in 1..na
      <4>1. k # d
        BY <1>1, <2>1, <3>1 DEF EnabledAt
      <4> QED BY <1>1, <2>2, <3>1, <4>1
    <3>2. CASE k \in (na + 1)..(na + nb)
      <4>1. c[k].reg = "OPERATION_ENABLE" <=> k - na = e
        BY <1>2, <2>1, <3>2 DEF EnabledAt
      <4>2. k - na = e <=> k = d
        BY <1>1, <2>1, <3>2 DEF EnabledAt
      <4> QED BY <4>1, <4>2
    <3> QED BY <1>1, <1>3, <3>1, <3>2
  <2> HIDE DEF d
  <2> QED BY <2>3, <2>4 DEF EnabledAt
<1>6. \E left : Budget(c, left, mosta + mostb)
  <2>1. PICK la : Budget(a, la, mosta)
    BY DEF Piece
  <2>2. PICK lb : Budget(b, lb, mostb)
    BY DEF Piece
  <2> DEFINE left == [k \in 0..(na + nb) |-> IF k <= na THEN la[k] + lb[0] ELSE lb[k - na]]
  <2>3. /\ la \in [0..na -> Nat] /\ la[0] <= mosta /\ la[na] = 0
        /\ \A k \in 1..na : la[k - 1] = la[k] + a[k].times
    BY <2>1 DEF Budget
  <2>4. /\ lb \in [0..nb -> Nat] /\ lb[0] <= mostb /\ lb[nb] = 0
        /\ \A k \in 1..nb : lb[k - 1] = lb[k] + b[k].times
    BY <2>2 DEF Budget
  <2>5. 0 \in 0..na /\ 0 \in 0..nb /\ la[0] \in Nat /\ lb[0] \in Nat
    BY <1>1, <2>3, <2>4
  <2>6. left \in [0..(na + nb) -> Nat]
    <3> SUFFICES ASSUME NEW k \in 0..(na + nb)
                 PROVE  (IF k <= na THEN la[k] + lb[0] ELSE lb[k - na]) \in Nat
      OBVIOUS
    <3>1. CASE k <= na
      <4>1. k \in 0..na
        BY <1>1, <3>1
      <4>2. la[k] \in Nat
        BY <2>3, <4>1
      <4> QED BY <2>5, <3>1, <4>2
    <3>2. CASE ~(k <= na)
      <4>1. k - na \in 0..nb
        BY <1>1, <3>2
      <4>2. lb[k - na] \in Nat
        BY <2>4, <4>1
      <4> QED BY <3>2, <4>2
    <3> QED BY <3>1, <3>2
  <2>7. left[0] <= mosta + mostb
    <3>1. left[0] = la[0] + lb[0]
      BY <1>1
    <3>2. la[0] <= mosta /\ lb[0] <= mostb
      BY <2>3, <2>4
    <3> HIDE DEF left
    <3> QED BY <2>5, <3>1, <3>2
  <2>8. ASSUME NEW k \in 1..(na + nb)
        PROVE  left[k - 1] = left[k] + c[k].times
    <3>1. CASE k \in 1..na
      <4>1. k \in 0..na /\ k - 1 \in 0..na /\ k - 1 \in 0..(na + nb) /\ k \in 0..(na + nb)
        BY <1>1, <3>1
      <4>2. left[k] = la[k] + lb[0] /\ left[k - 1] = la[k - 1] + lb[0]
        BY <3>1, <4>1
      <4>3. la[k - 1] = la[k] + a[k].times /\ c[k] = a[k] /\ la[k] \in Nat /\ la[k - 1] \in Nat
        BY <1>1, <2>3, <3>1, <4>1
      <4>4. a[k].times \in Nat
        BY <3>1 DEF Piece, ItemFits
      <4>5. ASSUME NEW p \in Nat, NEW q \in Nat, NEW r \in Nat, NEW t \in Nat, p = q + t
            PROVE  p + r = (q + r) + t
        BY <4>5
      <4>6. la[k - 1] + lb[0] = (la[k] + lb[0]) + a[k].times
        BY <2>5, <4>3, <4>4, <4>5
      <4> HIDE DEF left
      <4> QED BY <4>2, <4>3, <4>6
    <3>2. CASE k \in (na + 1)..(na + nb)
      <4>1. k - na \in 1..nb /\ c[k] = b[k - na]
        BY <1>2, <3>2
      <4>2. left[k] = lb[k - na]
        BY <1>1, <3>2
      <4>3. left[k - 1] = lb[(k - na) - 1]
        <5>1. CASE k = na + 1
          <6>1. left[na] = la[na] + lb[0] /\ (na + 1) - 1 = na /\ (k - na) - 1 = 0
            BY <1>1, <5>1
          <6> QED BY <2>3, <2>5, <5>1, <6>1
        <5>2. CASE k # na + 1
          BY <1>1, <3>2, <5>2
        <5> QED BY <5>1, <5>2
      <4> QED BY <2>4, <4>1, <4>2, <4>3
    <3> QED BY <1>1, <1>3, <3>1, <3>2
  <2>9. left[na + nb] = 0
    <3>1. CASE nb = 0
      BY <1>1, <2>3, <2>4, <3>1
    <3>2. CASE nb # 0
      BY <1>1, <2>4, <3>2
    <3> QED BY <3>1, <3>2
  <2> HIDE DEF left
  <2> QED BY <1>1, <2>6, <2>7, <2>8, <2>9 DEF Budget
<1> QED BY <1>1, <1>4, <1>5, <1>6 DEF Piece, c


LEMMA PartOfOne ==
  ASSUME NEW on, NEW out, NEW safe, NEW a, ItemFits(on, out, safe, a)
  PROVE  Piece(on, out, safe, <<a>>, a.reg = "OPERATION_ENABLE", a.times)
<1> DEFINE b == <<a>>
           e == IF a.reg = "OPERATION_ENABLE" THEN 1 ELSE 0
           left == [k \in 0..1 |-> IF k = 0 THEN a.times ELSE 0]
<1>1. IsSequence(b) /\ Len(b) = 1 /\ b[1] = a
  <2>1. b \in Seq({a}) /\ Len(b) = 1 /\ b[1] = a
    OBVIOUS
  <2> QED BY <2>1 DEF IsSequence
<1> HIDE DEF b
<1>2. \A k \in 1..1 : k = 1
  OBVIOUS
<1>3. \A k \in 1..Len(b) : ItemFits(on, out, safe, b[k])
  BY <1>1, <1>2
<1>4. EnabledAt(b, e) /\ (a.reg = "OPERATION_ENABLE" <=> e # 0)
  BY <1>1, <1>2 DEF EnabledAt
<1>5. Budget(b, left, a.times)
  <2>1. a.times \in Nat
    BY DEF ItemFits
  <2>2. left \in [0..1 -> Nat] /\ left[0] = a.times /\ left[1] = 0
    BY <2>1
  <2>3. \A k \in 1..1 : left[k - 1] = left[k] + b[k].times
    BY <1>1, <1>2, <2>1, <2>2
  <2> HIDE DEF left
  <2> QED BY <1>1, <2>1, <2>2, <2>3 DEF Budget
<1> QED BY <1>1, <1>3, <1>4, <1>5 DEF Piece, b

LEMMA PairIs ==
  ASSUME NEW a, NEW b
  PROVE  <<a, b>> = <<a>> \o <<b>>
<1> DEFINE T == {a, b}
           more == <<b>>
<1>1. <<a>> \in Seq(T) /\ more \in Seq(T) /\ Len(<<a>>) = 1 /\ Len(more) = 1 /\ more[1] = b
  OBVIOUS
<1> HIDE DEF T, more
<1>2. /\ <<a>> \o more \in Seq(T) /\ Len(<<a>> \o more) = 2
      /\ (<<a>> \o more)[1] = a /\ (<<a>> \o more)[2] = b
  BY <1>1
<1>3. <<a, b>> \in Seq(T) /\ Len(<<a, b>>) = 2
  BY DEF T
<1>4. \A i \in 1..2 : (<<a>> \o more)[i] = <<a, b>>[i]
  BY <1>2
<1>5. <<a>> \o more = <<a, b>>
  BY <1>2, <1>3, <1>4, SeqEqual
<1> QED BY <1>5 DEF more

(* An item of a block that does not start the units.                       *)
Passive(on, out, safe, item) ==
  ItemFits(on, out, safe, item) /\ item.reg # "OPERATION_ENABLE"

LEMMA PartOfTwo ==
  ASSUME NEW on, NEW out, NEW safe, NEW a, NEW b, Passive(on, out, safe, a),
         Passive(on, out, safe, b)
  PROVE  Piece(on, out, safe, <<a, b>>, FALSE, a.times + b.times)
<1>1. Piece(on, out, safe, <<a>>, FALSE, a.times) /\ Piece(on, out, safe, <<b>>, FALSE, b.times)
  <2>1. (a.reg = "OPERATION_ENABLE") = FALSE /\ (b.reg = "OPERATION_ENABLE") = FALSE
    BY DEF Passive
  <2> QED BY <2>1, PartOfOne DEF Passive
<1>2. <<a, b>> = <<a>> \o <<b>>
  BY PairIs
<1>3. a.times \in Nat /\ b.times \in Nat
  BY DEF Passive, ItemFits
<1> QED BY <1>1, <1>2, <1>3, PiecesJoin


LEMMA PartOfFour ==
  ASSUME NEW on, NEW out, NEW safe, NEW a, NEW b, NEW c, NEW d,
         Passive(on, out, safe, a), Passive(on, out, safe, b),
         Passive(on, out, safe, c), Passive(on, out, safe, d)
  PROVE  Piece(on, out, safe, <<a, b, c, d>>, FALSE, a.times + b.times + c.times + d.times)
<1>1. <<a, b, c, d>> = <<a, b>> \o <<c, d>>
  OBVIOUS
<1>2. /\ Piece(on, out, safe, <<a, b>>, FALSE, a.times + b.times)
      /\ Piece(on, out, safe, <<c, d>>, FALSE, c.times + d.times)
  BY PartOfTwo
<1>3. /\ a.times \in Nat /\ b.times \in Nat /\ c.times \in Nat /\ d.times \in Nat
      /\ a.times + b.times \in Nat /\ c.times + d.times \in Nat
      /\ a.times + b.times + c.times + d.times = (a.times + b.times) + (c.times + d.times)
  BY DEF Passive, ItemFits
<1>4. Piece(on, out, safe, <<a, b>> \o <<c, d>>, FALSE, (a.times + b.times) + (c.times + d.times))
  BY <1>2, <1>3, PiecesJoin
<1> QED BY <1>1, <1>3, <1>4

(* The item that starts the units, at the end of a block.                  *)
Starting(on, out, safe, item) ==
  ItemFits(on, out, safe, item) /\ item.reg = "OPERATION_ENABLE"

LEMMA FourAhead ==
  ASSUME NEW on, NEW out, NEW safe, NEW a, NEW b, NEW c, NEW d, NEW rest,
         NEW enables \in BOOLEAN, NEW most \in Nat,
         Passive(on, out, safe, a), Passive(on, out, safe, b),
         Passive(on, out, safe, c), Passive(on, out, safe, d),
         Piece(on, out, safe, rest, enables, most)
  PROVE  Piece(on, out, safe, <<a, b, c, d>> \o rest, enables,
               a.times + b.times + c.times + d.times + most)
<1>1. /\ a.times \in Nat /\ b.times \in Nat /\ c.times \in Nat /\ d.times \in Nat
      /\ a.times + b.times + c.times + d.times \in Nat
  BY DEF Passive, ItemFits
<1> QED BY <1>1, PartOfFour, PiecesJoin

LEMMA StartAlone ==
  ASSUME NEW on, NEW out, NEW safe, NEW e, Starting(on, out, safe, e)
  PROVE  e.times = 1 /\ Piece(on, out, safe, <<e>>, TRUE, 1)
<1>1. e.times = 1 /\ e.reg = "OPERATION_ENABLE" /\ ItemFits(on, out, safe, e)
  BY DEF Starting, ItemFits
<1>2. Piece(on, out, safe, <<e>>, e.reg = "OPERATION_ENABLE", e.times)
  BY <1>1, PartOfOne
<1>3. Piece(on, out, safe, <<e>>, TRUE, 1)
  BY <1>1, <1>2 DEF Piece
<1> QED BY <1>1, <1>3

LEMMA StartAfterOne ==
  ASSUME NEW on, NEW out, NEW safe, NEW a, NEW e, Passive(on, out, safe, a),
         Starting(on, out, safe, e)
  PROVE  Piece(on, out, safe, <<a, e>>, TRUE, a.times + 1)
<1>1. a.reg # "OPERATION_ENABLE" /\ a.times \in Nat /\ ItemFits(on, out, safe, a)
  BY DEF Passive, ItemFits
<1>2. Piece(on, out, safe, <<a>>, FALSE, a.times)
  <2>1. Piece(on, out, safe, <<a>>, a.reg = "OPERATION_ENABLE", a.times)
    BY <1>1, PartOfOne
  <2> QED BY <1>1, <2>1 DEF Piece
<1>3. <<a, e>> = <<a>> \o <<e>>
  BY PairIs
<1> QED BY <1>1, <1>2, <1>3, StartAlone, PiecesJoin

LEMMA StartAfterTwo ==
  ASSUME NEW on, NEW out, NEW safe, NEW a, NEW b, NEW e, Passive(on, out, safe, a),
         Passive(on, out, safe, b), Starting(on, out, safe, e)
  PROVE  Piece(on, out, safe, <<a, b, e>>, TRUE, a.times + b.times + 1)
<1>1. a.times \in Nat /\ b.times \in Nat /\ a.times + b.times \in Nat
  BY DEF Passive, ItemFits
<1>2. <<a, b, e>> = <<a, b>> \o <<e>>
  OBVIOUS
<1>3. Piece(on, out, safe, <<a, b>>, FALSE, a.times + b.times)
  BY PartOfTwo
<1>4. Piece(on, out, safe, <<e>>, TRUE, 1)
  BY StartAlone
<1>5. Piece(on, out, safe, <<a, b>> \o <<e>>, TRUE, a.times + b.times + 1)
  BY <1>1, <1>3, <1>4, PiecesJoin
<1> QED BY <1>2, <1>5

LEMMA StartAfterThree ==
  ASSUME NEW on, NEW out, NEW safe, NEW a, NEW b, NEW c, NEW e, Passive(on, out, safe, a),
         Passive(on, out, safe, b), Passive(on, out, safe, c), Starting(on, out, safe, e)
  PROVE  Piece(on, out, safe, <<a, b, c, e>>, TRUE, a.times + b.times + c.times + 1)
<1>1. /\ a.times \in Nat /\ b.times \in Nat /\ c.times \in Nat /\ a.times + b.times \in Nat
      /\ c.times + 1 \in Nat
      /\ a.times + b.times + c.times + 1 = (a.times + b.times) + (c.times + 1)
  <2>1. a.times \in Nat /\ b.times \in Nat /\ c.times \in Nat
    BY DEF Passive, ItemFits
  <2> QED BY <2>1
<1>2. <<a, b, c, e>> = <<a, b>> \o <<c, e>>
  OBVIOUS
<1>3. Piece(on, out, safe, <<a, b>> \o <<c, e>>, TRUE, (a.times + b.times) + (c.times + 1))
  BY <1>1, PartOfTwo, StartAfterOne, PiecesJoin
<1> QED BY <1>1, <1>2, <1>3

(* The block without a label starts its units before its last command.     *)
LEMMA StartBeforeOne ==
  ASSUME NEW on, NEW out, NEW safe, NEW a, NEW e, Passive(on, out, safe, a),
         Starting(on, out, safe, e)
  PROVE  Piece(on, out, safe, <<e, a>>, TRUE, a.times + 1)
<1> DEFINE b == <<e, a>>
           left == [k \in 0..2 |-> IF k = 0 THEN a.times + 1 ELSE IF k = 1 THEN a.times ELSE 0]
<1>1. IsSequence(b) /\ Len(b) = 2 /\ b[1] = e /\ b[2] = a
  <2>1. b \in Seq({a, e}) /\ Len(b) = 2 /\ b[1] = e /\ b[2] = a
    OBVIOUS
  <2> QED BY <2>1 DEF IsSequence
<1> HIDE DEF b
<1>2. \A k \in 1..2 : k = 1 \/ k = 2
  OBVIOUS
<1>3. \A k \in 1..Len(b) : ItemFits(on, out, safe, b[k])
  BY <1>1, <1>2 DEF Passive, Starting
<1>4. EnabledAt(b, 1) /\ (TRUE <=> 1 # 0)
  BY <1>1, <1>2 DEF EnabledAt, Passive, Starting
<1>5. Budget(b, left, a.times + 1)
  <2>1. a.times \in Nat /\ e.times = 1
    BY DEF ItemFits, Passive, Starting
  <2>2. left \in [0..2 -> Nat] /\ left[0] = a.times + 1 /\ left[1] = a.times /\ left[2] = 0
    BY <2>1
  <2>3. \A k \in 1..2 : left[k - 1] = left[k] + b[k].times
    BY <1>1, <1>2, <2>1, <2>2
  <2>4. left[0] <= a.times + 1
    BY <2>1, <2>2
  <2> HIDE DEF left
  <2> QED BY <1>1, <2>1, <2>2, <2>3, <2>4 DEF Budget
<1> QED BY <1>1, <1>3, <1>4, <1>5 DEF Piece, b

LEMMA MoreRoom ==
  ASSUME NEW on, NEW out, NEW safe, NEW block, NEW enables, NEW less \in Nat, NEW most \in Nat,
         Piece(on, out, safe, block, enables, less), less <= most
  PROVE  Piece(on, out, safe, block, enables, most)
<1>1. PICK left : Budget(block, left, less)
  BY DEF Piece
<1>2. left[0] \in Nat /\ left[0] <= most
  <2>1. Len(block) \in Nat
    BY Sequence DEF Piece
  <2> QED BY <1>1, <2>1 DEF Budget
<1>3. Budget(block, left, most)
  BY <1>1, <1>2 DEF Budget
<1> QED BY <1>3 DEF Piece


LEMMA PlainFits ==
  ASSUME NEW on, NEW out, NEW safe, NEW unit \in on \cup {"PC", "none"}, NEW times \in Nat
  PROVE  Passive(on, out, safe, Reg!Plain(unit, times)) /\ Reg!Plain(unit, times).times = times
BY DEF Reg!Plain, Reg!Item, Passive, ItemFits, CommandFits, ChainRegisters, OperandRegisters

LEMMA PointerFits ==
  ASSUME NEW on, NEW out, NEW safe, NEW unit \in on \cup {"PC", "none"}
  PROVE  Passive(on, out, safe, Reg!Pointer(unit)) /\ Reg!Pointer(unit).times = 1
BY DEF Reg!Pointer, Reg!Item, Passive, ItemFits, CommandFits, ChainRegisters, OperandRegisters

LEMMA DestinationFits ==
  ASSUME NEW on, NEW out \in on, NEW safe
  PROVE  Passive(on, out, safe, Reg!Dst(out)) /\ Reg!Dst(out).times = 1
BY DEF Reg!Dst, Reg!Addr, Reg!Item, Passive, ItemFits, CommandFits, ChainRegisters, OperandRegisters

LEMMA OperandFits ==
  ASSUME NEW on, NEW out, NEW safe \in BOOLEAN, NEW unit \in on, NEW reg \in OperandRegisters,
         NEW buf, NEW at \in Nat, safe => buf = "input" \/ at >= Reserved
  PROVE  /\ Passive(on, out, safe, Reg!Addr(unit, reg, buf, at))
         /\ Reg!Addr(unit, reg, buf, at).times = 1
BY DEF Reg!Addr, Reg!Item, Passive, ItemFits, CommandFits, ChainRegisters, OperandRegisters

LEMMA EnableFits ==
  ASSUME NEW on, NEW out, NEW safe
  PROVE  Starting(on, out, safe, Reg!Enable(on))
BY DEF Reg!Enable, Reg!Item, Starting, ItemFits, CommandFits, ChainRegisters, OperandRegisters

LEMMA EightAhead ==
  ASSUME NEW on, NEW out, NEW safe, NEW a1, NEW a2, NEW a3, NEW a4, NEW a5, NEW a6, NEW a7,
         NEW a8, NEW rest, NEW more \in Nat, NEW room \in Nat,
         \A a \in {a1, a2, a3, a4, a5, a6, a7, a8} : Passive(on, out, safe, a),
         a1.times + a2.times + a3.times + a4.times + a5.times + a6.times + a7.times
           + a8.times + more <= room,
         Piece(on, out, safe, rest, TRUE, more)
  PROVE  Piece(on, out, safe, <<a1, a2, a3, a4, a5, a6, a7, a8>> \o rest, TRUE, room)
<1> DEFINE r == a1.times + a2.times + a3.times + a4.times
           s == a5.times + a6.times + a7.times + a8.times
<1>1. <<a1, a2, a3, a4, a5, a6, a7, a8>> = <<a1, a2, a3, a4>> \o <<a5, a6, a7, a8>>
  OBVIOUS
<1>2. \A a \in {a1, a2, a3, a4, a5, a6, a7, a8} : a.times \in Nat
  BY DEF Passive, ItemFits
<1>3. r \in Nat /\ s \in Nat /\ r + s \in Nat /\ (r + s) + more \in Nat
      /\ (r + s) + more <= room
  BY <1>2
<1>4. Piece(on, out, safe, <<a1, a2, a3, a4>>, FALSE, r)
  BY PartOfFour
<1>5. Piece(on, out, safe, <<a5, a6, a7, a8>>, FALSE, s)
  BY PartOfFour
<1> HIDE DEF r, s
<1>6. Piece(on, out, safe, <<a1, a2, a3, a4>> \o <<a5, a6, a7, a8>>, FALSE, r + s)
  BY <1>3, <1>4, <1>5, PiecesJoin
<1> DEFINE front == <<a1, a2, a3, a4, a5, a6, a7, a8>>
<1>8. Piece(on, out, safe, front, FALSE, r + s)
  BY <1>1, <1>6
<1> HIDE DEF front
<1>9. Piece(on, out, safe, front \o rest, TRUE, (r + s) + more)
  BY <1>3, <1>8, PiecesJoin
<1>10. Piece(on, out, safe, front \o rest, TRUE, room)
  BY <1>3, <1>9, MoreRoom
<1> QED BY <1>10 DEF front

LEMMA Convolving ==
  ASSUME NEW safe \in BOOLEAN
  PROVE  /\ Piece(Reg!ConvUnits, "DPU", safe, Reg!conv2d, TRUE, 48)
         /\ Piece(Reg!ConvUnits, "DPU", safe, Reg!conv1d, TRUE, 48)
         /\ Piece(Reg!ConvUnits, "DPU", safe, Reg!matmul, TRUE, 48)
<1> DEFINE on == Reg!ConvUnits
<1>1. "DPU" \in on /\ "CNA" \in on /\ "CORE" \in on
  BY DEF Reg!ConvUnits
<1>2. \A unit \in {"DPU", "CNA", "CORE", "none"}, times \in Nat :
        Passive(on, "DPU", safe, Reg!Plain(unit, times)) /\ Reg!Plain(unit, times).times = times
  BY <1>1, PlainFits
<1>3. /\ Passive(on, "DPU", safe, Reg!Pointer("DPU")) /\ Reg!Pointer("DPU").times = 1
      /\ Passive(on, "DPU", safe, Reg!Dst("DPU")) /\ Reg!Dst("DPU").times = 1
      /\ Starting(on, "DPU", safe, Reg!Enable(on))
  BY <1>1, PointerFits, DestinationFits, EnableFits
<1>4. /\ Passive(on, "DPU", safe, Reg!Feature) /\ Reg!Feature.times = 1
      /\ Passive(on, "DPU", safe, Reg!Dcomp) /\ Reg!Dcomp.times = 1
  <2>1. /\ "FEATURE_DATA_ADDR" \in OperandRegisters /\ "DCOMP_ADDR0" \in OperandRegisters
        /\ Reserved \in Nat /\ Reserved >= Reserved /\ 0 \in Nat
    BY RecorderAssumption DEF OperandRegisters, Reg!RegAssumption
  <2> QED BY <1>1, <2>1, OperandFits DEF Reg!Feature, Reg!Dcomp
<1>5. Piece(on, "DPU", safe, Reg!conv2d, TRUE, 48)
  <2> DEFINE a1 == Reg!Pointer("DPU")
             a2 == Reg!Plain("CNA", 17)
             a3 == Reg!Feature
             a4 == Reg!Plain("CNA", 5)
             a5 == Reg!Dcomp
             a6 == Reg!Plain("CNA", 1)
             a7 == Reg!Plain("CORE", 4)
             a8 == Reg!Plain("DPU", 2)
             a9 == Reg!Dst("DPU")
             a10 == Reg!Plain("DPU", 13)
             a11 == Reg!Plain("none", 1)
             e == Reg!Enable(on)
  <2>1. Reg!conv2d = <<a1, a2, a3, a4, a5, a6, a7, a8, a9, a10, a11, e>>
    BY DEF Reg!conv2d
  <2>2. /\ \A a \in {a1, a2, a3, a4, a5, a6, a7, a8, a9, a10, a11} : Passive(on, "DPU", safe, a)
        /\ Starting(on, "DPU", safe, e)
    BY <1>2, <1>3, <1>4
  <2>3. /\ a1.times = 1 /\ a2.times = 17 /\ a3.times = 1 /\ a4.times = 5 /\ a5.times = 1
        /\ a6.times = 1 /\ a7.times = 4 /\ a8.times = 2 /\ a9.times = 1 /\ a10.times = 13
        /\ a11.times = 1
    BY <1>2, <1>3, <1>4
  <2> HIDE DEF a1, a2, a3, a4, a5, a6, a7, a8, a9, a10, a11, e, on
  <2>4. <<a1, a2, a3, a4, a5, a6, a7, a8, a9, a10, a11, e>> =
          <<a1, a2, a3, a4, a5, a6, a7, a8>> \o <<a9, a10, a11, e>>
    OBVIOUS
  <2>5. /\ a9.times + a10.times + a11.times + 1 = 16
        /\ a1.times + a2.times + a3.times + a4.times
              + a5.times + a6.times + a7.times + a8.times + 16 <= 48
    BY <2>3
  <2>6. Piece(on, "DPU", safe, <<a9, a10, a11, e>>, TRUE, a9.times + a10.times + a11.times + 1)
    BY <2>2, StartAfterThree
  <2>7. Piece(on, "DPU", safe, <<a9, a10, a11, e>>, TRUE, 16)
    BY <2>5, <2>6
  <2>8. \A a \in {a1, a2, a3, a4, a5, a6, a7, a8} : Passive(on, "DPU", safe, a)
    BY <2>2
  <2>9. Piece(on, "DPU", safe, <<a1, a2, a3, a4, a5, a6, a7, a8>>
                \o <<a9, a10, a11, e>>,
              TRUE, 48)
    BY <2>5, <2>7, <2>8, EightAhead
  <2> QED BY <2>1, <2>4, <2>9
<1>6. Piece(on, "DPU", safe, Reg!conv1d, TRUE, 48)
  <2> DEFINE a1 == Reg!Plain("CNA", 2)
             a2 == Reg!Pointer("DPU")
             a3 == Reg!Plain("CNA", 16)
             a4 == Reg!Feature
             a5 == Reg!Plain("CNA", 4)
             a6 == Reg!Dcomp
             a7 == Reg!Plain("CNA", 1)
             a8 == Reg!Plain("CORE", 4)
             a9 == Reg!Plain("DPU", 2)
             a10 == Reg!Dst("DPU")
             a11 == Reg!Plain("DPU", 13)
             e == Reg!Enable(on)
  <2>1. Reg!conv1d = <<a1, a2, a3, a4, a5, a6, a7, a8, a9, a10, a11, e>>
    BY DEF Reg!conv1d
  <2>2. /\ \A a \in {a1, a2, a3, a4, a5, a6, a7, a8, a9, a10, a11} : Passive(on, "DPU", safe, a)
        /\ Starting(on, "DPU", safe, e)
    BY <1>2, <1>3, <1>4
  <2>3. /\ a1.times = 2 /\ a2.times = 1 /\ a3.times = 16 /\ a4.times = 1 /\ a5.times = 4
        /\ a6.times = 1 /\ a7.times = 1 /\ a8.times = 4 /\ a9.times = 2 /\ a10.times = 1
        /\ a11.times = 13
    BY <1>2, <1>3, <1>4
  <2> HIDE DEF a1, a2, a3, a4, a5, a6, a7, a8, a9, a10, a11, e, on
  <2>4. <<a1, a2, a3, a4, a5, a6, a7, a8, a9, a10, a11, e>> =
          <<a1, a2, a3, a4, a5, a6, a7, a8>> \o <<a9, a10, a11, e>>
    OBVIOUS
  <2>5. /\ a9.times + a10.times + a11.times + 1 = 17
        /\ a1.times + a2.times + a3.times + a4.times
              + a5.times + a6.times + a7.times + a8.times + 17 <= 48
    BY <2>3
  <2>6. Piece(on, "DPU", safe, <<a9, a10, a11, e>>, TRUE, a9.times + a10.times + a11.times + 1)
    BY <2>2, StartAfterThree
  <2>7. Piece(on, "DPU", safe, <<a9, a10, a11, e>>, TRUE, 17)
    BY <2>5, <2>6
  <2>8. \A a \in {a1, a2, a3, a4, a5, a6, a7, a8} : Passive(on, "DPU", safe, a)
    BY <2>2
  <2>9. Piece(on, "DPU", safe, <<a1, a2, a3, a4, a5, a6, a7, a8>>
                \o <<a9, a10, a11, e>>,
              TRUE, 48)
    BY <2>5, <2>7, <2>8, EightAhead
  <2> QED BY <2>1, <2>4, <2>9
<1>7. Piece(on, "DPU", safe, Reg!matmul, TRUE, 48)
  <2> DEFINE a1 == Reg!Pointer("DPU")
             a2 == Reg!Plain("CNA", 17)
             a3 == Reg!Feature
             a4 == Reg!Plain("CNA", 5)
             a5 == Reg!Dcomp
             a6 == Reg!Plain("CORE", 4)
             a7 == Reg!Plain("DPU", 2)
             a8 == Reg!Dst("DPU")
             a9 == Reg!Plain("DPU", 12)
             e == Reg!Enable(on)
  <2>1. Reg!matmul = <<a1, a2, a3, a4, a5, a6, a7, a8, a9, e>>
    BY DEF Reg!matmul
  <2>2. /\ \A a \in {a1, a2, a3, a4, a5, a6, a7, a8, a9} : Passive(on, "DPU", safe, a)
        /\ Starting(on, "DPU", safe, e)
    BY <1>2, <1>3, <1>4
  <2>3. /\ a1.times = 1 /\ a2.times = 17 /\ a3.times = 1 /\ a4.times = 5 /\ a5.times = 1
        /\ a6.times = 4 /\ a7.times = 2 /\ a8.times = 1 /\ a9.times = 12
    BY <1>2, <1>3, <1>4
  <2> HIDE DEF a1, a2, a3, a4, a5, a6, a7, a8, a9, e, on
  <2>4. <<a1, a2, a3, a4, a5, a6, a7, a8, a9, e>> =
          <<a1, a2, a3, a4, a5, a6, a7, a8>> \o <<a9, e>>
    OBVIOUS
  <2>5. /\ a9.times + 1 = 13
        /\ a1.times + a2.times + a3.times + a4.times
              + a5.times + a6.times + a7.times + a8.times + 13 <= 48
    BY <2>3
  <2>6. Piece(on, "DPU", safe, <<a9, e>>, TRUE, a9.times + 1)
    BY <2>2, StartAfterOne
  <2>7. Piece(on, "DPU", safe, <<a9, e>>, TRUE, 13)
    BY <2>5, <2>6
  <2>8. \A a \in {a1, a2, a3, a4, a5, a6, a7, a8} : Passive(on, "DPU", safe, a)
    BY <2>2
  <2>9. Piece(on, "DPU", safe, <<a1, a2, a3, a4, a5, a6, a7, a8>> \o <<a9, e>>, TRUE, 48)
    BY <2>5, <2>7, <2>8, EightAhead
  <2> QED BY <2>1, <2>4, <2>9
<1> QED BY <1>5, <1>6, <1>7 DEF on

(* The element-wise blocks, whatever the two operands are.                 *)
LEMMA TwoOperandsFit ==
  ASSUME NEW safe \in BOOLEAN, NEW times \in 0..16, NEW src, NEW ew,
         Passive(Reg!AluUnits, "DPU", safe, src), src.times = 1,
         Passive(Reg!AluUnits, "DPU", safe, ew), ew.times = 1
  PROVE  Piece(Reg!AluUnits, "DPU", safe, Reg!Binary(times, src, ew), TRUE, 48)
<1> DEFINE on == Reg!AluUnits
<1>1. "DPU" \in on /\ "DPU_RDMA" \in on
  BY DEF Reg!AluUnits
<1>2. \A unit \in {"DPU", "DPU_RDMA"}, number \in Nat :
        Passive(on, "DPU", safe, Reg!Plain(unit, number)) /\ Reg!Plain(unit, number).times = number
  BY <1>1, PlainFits
<1>3. /\ Passive(on, "DPU", safe, Reg!Pointer("DPU")) /\ Reg!Pointer("DPU").times = 1
      /\ Passive(on, "DPU", safe, Reg!Pointer("DPU_RDMA")) /\ Reg!Pointer("DPU_RDMA").times = 1
      /\ Passive(on, "DPU", safe, Reg!Dst("DPU")) /\ Reg!Dst("DPU").times = 1
      /\ Starting(on, "DPU", safe, Reg!Enable(on))
  BY <1>1, PointerFits, DestinationFits, EnableFits
<1>4. /\ Passive(on, "DPU", safe, src) /\ Passive(on, "DPU", safe, ew)
      /\ src.times = 1 /\ ew.times = 1 /\ times \in Nat
  OBVIOUS
<1>5. Piece(on, "DPU", safe, Reg!Binary(times, src, ew), TRUE, 48)
  <2> DEFINE a1 == Reg!Pointer("DPU")
             a2 == Reg!Pointer("DPU_RDMA")
             a3 == Reg!Plain("DPU", 2)
             a4 == Reg!Dst("DPU")
             a5 == Reg!Plain("DPU", times)
             a6 == Reg!Plain("DPU_RDMA", 3)
             a7 == src
             a8 == Reg!Plain("DPU_RDMA", 1)
             a9 == ew
             a10 == Reg!Plain("DPU_RDMA", 3)
             e == Reg!Enable(on)
  <2>1. Reg!Binary(times, src, ew) = <<a1, a2, a3, a4, a5, a6, a7, a8, a9, a10, e>>
    BY DEF Reg!Binary
  <2>2. /\ \A a \in {a1, a2, a3, a4, a5, a6, a7, a8, a9, a10} : Passive(on, "DPU", safe, a)
        /\ Starting(on, "DPU", safe, e)
    BY <1>2, <1>3, <1>4
  <2>3. /\ a1.times = 1 /\ a2.times = 1 /\ a3.times = 2 /\ a4.times = 1 /\ a5.times = times
        /\ a6.times = 3 /\ a7.times = 1 /\ a8.times = 1 /\ a9.times = 1 /\ a10.times = 3
    BY <1>2, <1>3, <1>4
  <2> HIDE DEF a1, a2, a3, a4, a5, a6, a7, a8, a9, a10, e, on
  <2>4. <<a1, a2, a3, a4, a5, a6, a7, a8, a9, a10, e>> =
          <<a1, a2, a3, a4, a5, a6, a7, a8>> \o <<a9, a10, e>>
    OBVIOUS
  <2>5. /\ a9.times + a10.times + 1 = 5
        /\ a1.times + a2.times + a3.times + a4.times
              + a5.times + a6.times + a7.times + a8.times + 5 <= 48
    BY <2>3
  <2>6. Piece(on, "DPU", safe, <<a9, a10, e>>, TRUE, a9.times + a10.times + 1)
    BY <2>2, StartAfterTwo
  <2>7. Piece(on, "DPU", safe, <<a9, a10, e>>, TRUE, 5)
    BY <2>5, <2>6
  <2>8. \A a \in {a1, a2, a3, a4, a5, a6, a7, a8} : Passive(on, "DPU", safe, a)
    BY <2>2
  <2>9. Piece(on, "DPU", safe, <<a1, a2, a3, a4, a5, a6, a7, a8>> \o <<a9, a10, e>>, TRUE, 48)
    BY <2>5, <2>7, <2>8, EightAhead
  <2> QED BY <2>1, <2>4, <2>9
<1> QED BY <1>5 DEF on

LEMMA PoolingFits ==
  ASSUME NEW safe \in BOOLEAN, NEW times \in 0..16
  PROVE  Piece(Reg!PoolUnits, "PPU", safe, Reg!Pool(times), TRUE, 48)
<1> DEFINE on == Reg!PoolUnits
<1>1. "PPU" \in on /\ "PPU_RDMA" \in on
  BY DEF Reg!PoolUnits
<1>2. \A unit \in {"PPU", "PPU_RDMA"}, number \in Nat :
        Passive(on, "PPU", safe, Reg!Plain(unit, number)) /\ Reg!Plain(unit, number).times = number
  BY <1>1, PlainFits
<1>3. /\ Passive(on, "PPU", safe, Reg!Pointer("PPU")) /\ Reg!Pointer("PPU").times = 1
      /\ Passive(on, "PPU", safe, Reg!Pointer("PPU_RDMA")) /\ Reg!Pointer("PPU_RDMA").times = 1
      /\ Passive(on, "PPU", safe, Reg!Dst("PPU")) /\ Reg!Dst("PPU").times = 1
      /\ Starting(on, "PPU", safe, Reg!Enable(on))
  BY <1>1, PointerFits, DestinationFits, EnableFits
<1>4. /\ Passive(on, "PPU", safe, Reg!Addr("PPU_RDMA", "SRC_BASE_ADDR", "input", 0))
      /\ Reg!Addr("PPU_RDMA", "SRC_BASE_ADDR", "input", 0).times = 1 /\ times \in Nat
  <2>1. "SRC_BASE_ADDR" \in OperandRegisters /\ 0 \in Nat
    BY DEF OperandRegisters
  <2> QED BY <1>1, <2>1, OperandFits
<1>5. Piece(on, "PPU", safe, Reg!Pool(times), TRUE, 48)
  <2> DEFINE a1 == Reg!Pointer("PPU")
             a2 == Reg!Pointer("PPU_RDMA")
             a3 == Reg!Plain("PPU", times)
             a4 == Reg!Dst("PPU")
             a5 == Reg!Plain("PPU", 3)
             a6 == Reg!Plain("PPU_RDMA", 3)
             a7 == Reg!Addr("PPU_RDMA", "SRC_BASE_ADDR", "input", 0)
             a8 == Reg!Plain("PPU_RDMA", 4)
             e == Reg!Enable(on)
  <2>1. Reg!Pool(times) = <<a1, a2, a3, a4, a5, a6, a7, a8, e>>
    BY DEF Reg!Pool
  <2>2. /\ \A a \in {a1, a2, a3, a4, a5, a6, a7, a8} : Passive(on, "PPU", safe, a)
        /\ Starting(on, "PPU", safe, e)
    BY <1>2, <1>3, <1>4
  <2>3. /\ a1.times = 1 /\ a2.times = 1 /\ a3.times = times /\ a4.times = 1 /\ a5.times = 3
        /\ a6.times = 3 /\ a7.times = 1 /\ a8.times = 4
    BY <1>2, <1>3, <1>4
  <2> HIDE DEF a1, a2, a3, a4, a5, a6, a7, a8, e, on
  <2>4. <<a1, a2, a3, a4, a5, a6, a7, a8, e>> =
          <<a1, a2, a3, a4, a5, a6, a7, a8>> \o <<e>>
    OBVIOUS
  <2>5. /\ 1 = 1
        /\ a1.times + a2.times + a3.times + a4.times
              + a5.times + a6.times + a7.times + a8.times + 1 <= 48
    BY <2>3
  <2>6. Piece(on, "PPU", safe, <<e>>, TRUE, 1)
    BY <2>2, StartAlone
  <2>7. Piece(on, "PPU", safe, <<e>>, TRUE, 1)
    BY <2>5, <2>6
  <2>8. \A a \in {a1, a2, a3, a4, a5, a6, a7, a8} : Passive(on, "PPU", safe, a)
    BY <2>2
  <2>9. Piece(on, "PPU", safe, <<a1, a2, a3, a4, a5, a6, a7, a8>> \o <<e>>, TRUE, 48)
    BY <2>5, <2>7, <2>8, EightAhead
  <2> QED BY <2>1, <2>4, <2>9
<1> QED BY <1>5 DEF on


(* The blocks of the tables, and the block of the algorithms without one.  *)
LEMMA AluItems ==
  ASSUME NEW safe \in BOOLEAN
  PROVE  /\ \A unit \in {"DPU", "DPU_RDMA", "PC"}, times \in Nat :
              /\ Passive(Reg!AluUnits, "DPU", safe, Reg!Plain(unit, times))
              /\ Reg!Plain(unit, times).times = times
         /\ \A unit \in {"DPU", "DPU_RDMA"} :
              /\ Passive(Reg!AluUnits, "DPU", safe, Reg!Pointer(unit))
              /\ Reg!Pointer(unit).times = 1
         /\ Passive(Reg!AluUnits, "DPU", safe, Reg!Dst("DPU")) /\ Reg!Dst("DPU").times = 1
         /\ Starting(Reg!AluUnits, "DPU", safe, Reg!Enable(Reg!AluUnits))
         /\ \A buf \in {"input", "weights"}, at \in Nat :
              (safe => buf = "input" \/ at >= Reserved)
                => /\ Passive(Reg!AluUnits, "DPU", safe, Reg!Src(buf, at))
                   /\ Reg!Src(buf, at).times = 1
                   /\ Passive(Reg!AluUnits, "DPU", safe, Reg!Ew(buf, at))
                   /\ Reg!Ew(buf, at).times = 1
<1> DEFINE on == Reg!AluUnits
<1>1. "DPU" \in on /\ "DPU_RDMA" \in on
  BY DEF Reg!AluUnits
<1>2. "SRC_BASE_ADDR" \in OperandRegisters /\ "EW_BASE_ADDR" \in OperandRegisters
  BY DEF OperandRegisters
<1> HIDE DEF on
<1>3. ASSUME NEW buf \in {"input", "weights"}, NEW at \in Nat,
             safe => buf = "input" \/ at >= Reserved
      PROVE  /\ Passive(on, "DPU", safe, Reg!Src(buf, at)) /\ Reg!Src(buf, at).times = 1
             /\ Passive(on, "DPU", safe, Reg!Ew(buf, at)) /\ Reg!Ew(buf, at).times = 1
  BY <1>1, <1>2, <1>3, OperandFits DEF Reg!Src, Reg!Ew
<1>4. \A unit \in {"DPU", "DPU_RDMA", "PC"}, times \in Nat :
        /\ Passive(on, "DPU", safe, Reg!Plain(unit, times))
        /\ Reg!Plain(unit, times).times = times
  BY <1>1, PlainFits
<1>5. \A unit \in {"DPU", "DPU_RDMA"} :
        /\ Passive(on, "DPU", safe, Reg!Pointer(unit))
        /\ Reg!Pointer(unit).times = 1
  BY <1>1, PointerFits
<1>6. Passive(on, "DPU", safe, Reg!Dst("DPU")) /\ Reg!Dst("DPU").times = 1
  BY <1>1, DestinationFits
<1>7. Starting(on, "DPU", safe, Reg!Enable(on))
  BY EnableFits
<1> QED BY <1>3, <1>4, <1>5, <1>6, <1>7 DEF on

LEMMA TableItems ==
  ASSUME NEW safe \in BOOLEAN, NEW times \in Nat
  PROVE  LET load == Reg!Item("DPU", "LUT_ACCESS_DATA", <<0>>, times)
         IN  Piece(Reg!AluUnits, "DPU", safe,
                   <<Reg!Plain("DPU", 1), load, Reg!Plain("DPU", 1), load>>, FALSE, 2 * times + 2)
<1> DEFINE load == Reg!Item("DPU", "LUT_ACCESS_DATA", <<0>>, times)
           start == Reg!Plain("DPU", 1)
<1>1. Passive(Reg!AluUnits, "DPU", safe, load) /\ load.times = times
  BY DEF Reg!Item, Passive, ItemFits, CommandFits, ChainRegisters, OperandRegisters, Reg!AluUnits
<1>2. Passive(Reg!AluUnits, "DPU", safe, start) /\ start.times = 1
  BY AluItems
<1> HIDE DEF load, start
<1>3. Piece(Reg!AluUnits, "DPU", safe, <<start, load, start, load>>, FALSE,
            start.times + load.times + start.times + load.times)
  BY <1>1, <1>2, PartOfFour
<1>4. start.times + load.times + start.times + load.times = 2 * times + 2
  BY <1>1, <1>2
<1>5. Piece(Reg!AluUnits, "DPU", safe, <<start, load, start, load>>, FALSE, 2 * times + 2)
  BY <1>3, <1>4
<1> QED BY <1>5 DEF load, start

LEMMA PointersAndChain ==
  ASSUME NEW safe \in BOOLEAN
  PROVE  /\ Piece(Reg!AluUnits, "DPU", safe, Reg!Pointers("DPU", "DPU_RDMA"), FALSE, 2)
         /\ Piece(Reg!AluUnits, "DPU", safe, Reg!Chain, FALSE, 2)
<1> DEFINE on == Reg!AluUnits
           a == Reg!Pointer("DPU")
           b == Reg!Pointer("DPU_RDMA")
           c == Reg!Item("PC", "BASE_ADDRESS", <<0>>, 1)
           d == Reg!Item("PC", "REGISTER_AMOUNTS", <<0>>, 1)
<1>1. /\ Passive(on, "DPU", safe, a) /\ a.times = 1
      /\ Passive(on, "DPU", safe, b) /\ b.times = 1
  BY AluItems
<1>2. /\ Passive(on, "DPU", safe, c) /\ c.times = 1
      /\ Passive(on, "DPU", safe, d) /\ d.times = 1
  BY DEF Reg!Item, Passive, ItemFits, CommandFits, ChainRegisters, OperandRegisters
<1>3. Reg!Pointers("DPU", "DPU_RDMA") = <<a, b>> /\ Reg!Chain = <<c, d>>
  BY DEF Reg!Pointers, Reg!Chain
<1> HIDE DEF on, a, b, c, d
<1>4. /\ Piece(on, "DPU", safe, <<a, b>>, FALSE, a.times + b.times)
      /\ Piece(on, "DPU", safe, <<c, d>>, FALSE, c.times + d.times)
  BY <1>1, <1>2, PartOfTwo
<1>5. a.times + b.times = 2 /\ c.times + d.times = 2
  BY <1>1, <1>2
<1> QED BY <1>3, <1>4, <1>5 DEF on

LEMMA BodyFits ==
  ASSUME NEW safe \in BOOLEAN, NEW times \in 0..23, NEW before \in 0..3, NEW after \in 0..3
  PROVE  Piece(Reg!AluUnits, "DPU", safe, Reg!Body(times, before, after), TRUE, 34)
<1> DEFINE on == Reg!AluUnits
           a1 == Reg!Plain("DPU", 2)
           a2 == Reg!Dst("DPU")
           a3 == Reg!Plain("DPU", times)
           a4 == Reg!Plain("DPU_RDMA", before)
           a5 == Reg!Src("input", 0)
           a6 == Reg!Plain("DPU_RDMA", after)
           e == Reg!Enable(on)
<1>1. Reg!Body(times, before, after) = <<a1, a2, a3, a4, a5, a6, e>>
  BY DEF Reg!Body
<1>2. /\ Passive(on, "DPU", safe, a1) /\ a1.times = 2
      /\ Passive(on, "DPU", safe, a2) /\ a2.times = 1
      /\ Passive(on, "DPU", safe, a3) /\ a3.times = times
      /\ Passive(on, "DPU", safe, a4) /\ a4.times = before
      /\ Passive(on, "DPU", safe, a6) /\ a6.times = after
      /\ Starting(on, "DPU", safe, e)
  <2>1. times \in Nat /\ before \in Nat /\ after \in Nat
    OBVIOUS
  <2> QED BY <2>1, AluItems
<1>3. Passive(on, "DPU", safe, a5) /\ a5.times = 1
  BY AluItems
<1> HIDE DEF on, a1, a2, a3, a4, a5, a6, e
<1>4. <<a1, a2, a3, a4, a5, a6, e>> = <<a1, a2, a3, a4>> \o <<a5, a6, e>>
  OBVIOUS
<1>5. Piece(on, "DPU", safe, <<a5, a6, e>>, TRUE, a5.times + a6.times + 1)
  BY <1>2, <1>3, StartAfterTwo
<1>6. /\ a5.times + a6.times + 1 \in Nat
      /\ a1.times + a2.times + a3.times + a4.times + (a5.times + a6.times + 1) \in Nat
      /\ a1.times + a2.times + a3.times + a4.times + (a5.times + a6.times + 1) <= 34
  BY <1>2, <1>3
<1>7. Piece(on, "DPU", safe, <<a1, a2, a3, a4>> \o <<a5, a6, e>>, TRUE,
            a1.times + a2.times + a3.times + a4.times + (a5.times + a6.times + 1))
  BY <1>2, <1>5, <1>6, FourAhead
<1>8. Piece(on, "DPU", safe, <<a1, a2, a3, a4>> \o <<a5, a6, e>>, TRUE, 34)
  BY <1>6, <1>7, MoreRoom
<1> QED BY <1>1, <1>4, <1>8 DEF on

MostCommands == 2 * LutEntries + 48

LEMMA TablesFit ==
  ASSUME NEW safe \in BOOLEAN, NEW times \in 0..23, NEW before \in 0..3, NEW after \in 0..3
  PROVE  /\ Piece(Reg!AluUnits, "DPU", safe,
                  Reg!Tables \o Reg!Pointers("DPU", "DPU_RDMA") \o Reg!Chain
                    \o Reg!Body(times, before, after), TRUE, MostCommands)
         /\ Piece(Reg!AluUnits, "DPU", safe,
                  Reg!Tables \o Reg!Pointers("DPU", "DPU_RDMA")
                    \o Reg!Body(times, before, after), TRUE, MostCommands)
         /\ Piece(Reg!AluUnits, "DPU", safe,
                  Reg!Tables \o Reg!Body(times, before, after), TRUE, MostCommands)
         /\ before = 3 /\ after = 3 /\ times = 20
              => Piece(Reg!AluUnits, "DPU", safe, Reg!roundoff, TRUE, MostCommands)
<1> DEFINE on == Reg!AluUnits
           p == Reg!Pointers("DPU", "DPU_RDMA")
           c == Reg!Chain
           b == Reg!Body(times, before, after)
           t == Reg!Tables
           l == 2 * LutEntries + 2
           load == Reg!Item("DPU", "LUT_ACCESS_DATA", <<0>>, LutEntries - 1)
           r == <<Reg!Plain("DPU", 1), load, Reg!Plain("DPU", 1), load>>
<1>1. LutEntries \in Nat \ {0} /\ l \in Nat /\ LutEntries - 1 \in Nat
      /\ 2 * (LutEntries - 1) + 2 \in Nat /\ 2 * (LutEntries - 1) + 2 <= l
  BY RecorderAssumption DEF Reg!RegAssumption
<1>2. Piece(on, "DPU", safe, t, FALSE, l)
  BY <1>1, TableItems DEF Reg!Tables
<1>3. Piece(on, "DPU", safe, r, FALSE, l)
  <2>1. Piece(on, "DPU", safe, r, FALSE, 2 * (LutEntries - 1) + 2)
    BY <1>1, TableItems
  <2> HIDE DEF r
  <2> QED BY <1>1, <2>1, MoreRoom
<1>4. /\ Piece(on, "DPU", safe, p, FALSE, 2) /\ Piece(on, "DPU", safe, c, FALSE, 2)
      /\ Piece(on, "DPU", safe, b, TRUE, 34)
  BY PointersAndChain, BodyFits
<1>5. Reg!roundoff = r \o p \o c \o Reg!Body(20, 3, 3)
  BY DEF Reg!roundoff
<1> HIDE DEF on, p, c, b, t, r, load
<1>6. l + 2 \in Nat /\ (l + 2) + 2 \in Nat /\ ((l + 2) + 2) + 34 \in Nat /\ (l + 2) + 34 \in Nat
      /\ l + 34 \in Nat /\ MostCommands \in Nat /\ ((l + 2) + 2) + 34 <= MostCommands
      /\ (l + 2) + 34 <= MostCommands /\ l + 34 <= MostCommands
  BY <1>1 DEF MostCommands
<1> HIDE DEF l
<1>7. Piece(on, "DPU", safe, t \o p, FALSE, l + 2) /\ Piece(on, "DPU", safe, r \o p, FALSE, l + 2)
  BY <1>1, <1>2, <1>3, <1>4, PiecesJoin
<1>8. /\ Piece(on, "DPU", safe, t \o p \o c, FALSE, (l + 2) + 2)
      /\ Piece(on, "DPU", safe, r \o p \o c, FALSE, (l + 2) + 2)
  BY <1>4, <1>6, <1>7, PiecesJoin
<1>9. /\ Piece(on, "DPU", safe, t \o p \o c \o b, TRUE, ((l + 2) + 2) + 34)
      /\ Piece(on, "DPU", safe, r \o p \o c \o b, TRUE, ((l + 2) + 2) + 34)
      /\ Piece(on, "DPU", safe, t \o p \o b, TRUE, (l + 2) + 34)
      /\ Piece(on, "DPU", safe, t \o b, TRUE, l + 34)
  <2>1. Piece(on, "DPU", safe, t \o p \o c \o b, TRUE, ((l + 2) + 2) + 34)
    BY <1>4, <1>6, <1>8, PiecesJoin
  <2>2. Piece(on, "DPU", safe, r \o p \o c \o b, TRUE, ((l + 2) + 2) + 34)
    BY <1>4, <1>6, <1>8, PiecesJoin
  <2>3. Piece(on, "DPU", safe, t \o p \o b, TRUE, (l + 2) + 34)
    BY <1>4, <1>6, <1>7, PiecesJoin
  <2>4. Piece(on, "DPU", safe, t \o b, TRUE, l + 34)
    BY <1>1, <1>2, <1>4, PiecesJoin
  <2> QED BY <2>1, <2>2, <2>3, <2>4
<1>10. /\ Piece(on, "DPU", safe, t \o p \o c \o b, TRUE, MostCommands)
       /\ Piece(on, "DPU", safe, r \o p \o c \o b, TRUE, MostCommands)
       /\ Piece(on, "DPU", safe, t \o p \o b, TRUE, MostCommands)
       /\ Piece(on, "DPU", safe, t \o b, TRUE, MostCommands)
  <2> DEFINE tpcb == t \o p \o c \o b
             rpcb == r \o p \o c \o b
             tpb == t \o p \o b
             tb == t \o b
  <2>1. /\ Piece(on, "DPU", safe, tpcb, TRUE, ((l + 2) + 2) + 34)
        /\ Piece(on, "DPU", safe, rpcb, TRUE, ((l + 2) + 2) + 34)
        /\ Piece(on, "DPU", safe, tpb, TRUE, (l + 2) + 34)
        /\ Piece(on, "DPU", safe, tb, TRUE, l + 34)
    BY <1>9
  <2> HIDE DEF tpcb, rpcb, tpb, tb
  <2>2. Piece(on, "DPU", safe, tpcb, TRUE, MostCommands)
    BY <1>6, <2>1, MoreRoom
  <2>5. Piece(on, "DPU", safe, rpcb, TRUE, MostCommands)
    BY <1>6, <2>1, MoreRoom
  <2>3. Piece(on, "DPU", safe, tpb, TRUE, MostCommands)
    BY <1>6, <2>1, MoreRoom
  <2>4. Piece(on, "DPU", safe, tb, TRUE, MostCommands)
    BY <1>6, <2>1, MoreRoom
  <2> QED BY <2>2, <2>3, <2>4, <2>5 DEF tpcb, rpcb, tpb, tb
<1> QED BY <1>5, <1>10 DEF on, p, c, b, t

LEMMA UnlabelledFits ==
  ASSUME NEW algorithm
  PROVE  Piece(Reg!AluUnits, "DPU", FALSE, Reg!default(algorithm), TRUE, 48)
<1> DEFINE on == Reg!AluUnits
           a1 == Reg!Pointer("DPU")
           a2 == Reg!Pointer("DPU_RDMA")
           a3 == Reg!Plain("DPU", 2)
           a4 == Reg!Dst("DPU")
           a5 == Reg!Plain("DPU", 8)
           a6 == Reg!Item("DPU", "EW_CFG", [binary_en |-> FALSE, alu_algo |-> algorithm % 16], 1)
           a7 == Reg!Plain("DPU", 3)
           a8 == Reg!Plain("DPU_RDMA", 2)
           a9 == Reg!Src("input", 0)
           a10 == Reg!Plain("DPU_RDMA", 1)
           a11 == Reg!Ew("weights", 0)
           a12 == Reg!Plain("DPU_RDMA", 5)
           e == Reg!Enable(on)
           a13 == Reg!Plain("PC", 1)
<1>1. Reg!default(algorithm)
        = <<a1, a2, a3, a4, a5, a6, a7, a8, a9, a10, a11, a12, e, a13>>
  BY DEF Reg!default
<1>2. /\ Passive(on, "DPU", FALSE, a1) /\ a1.times = 1
      /\ Passive(on, "DPU", FALSE, a2) /\ a2.times = 1
      /\ Passive(on, "DPU", FALSE, a3) /\ a3.times = 2
      /\ Passive(on, "DPU", FALSE, a4) /\ a4.times = 1
      /\ Passive(on, "DPU", FALSE, a5) /\ a5.times = 8
      /\ Passive(on, "DPU", FALSE, a7) /\ a7.times = 3
      /\ Passive(on, "DPU", FALSE, a8) /\ a8.times = 2
      /\ Passive(on, "DPU", FALSE, a10) /\ a10.times = 1
      /\ Passive(on, "DPU", FALSE, a12) /\ a12.times = 5
      /\ Passive(on, "DPU", FALSE, a13) /\ a13.times = 1
      /\ Starting(on, "DPU", FALSE, e)
  BY AluItems
<1>3. /\ Passive(on, "DPU", FALSE, a9) /\ a9.times = 1
      /\ Passive(on, "DPU", FALSE, a11) /\ a11.times = 1
  BY AluItems
<1>4. Passive(on, "DPU", FALSE, a6) /\ a6.times = 1
  BY DEF Reg!Item, Passive, ItemFits, CommandFits, ChainRegisters, OperandRegisters, Reg!AluUnits
<1> HIDE DEF on, a1, a2, a3, a4, a5, a6, a7, a8, a9, a10, a11, a12, a13, e
<1>5. /\ <<a1, a2, a3, a4, a5, a6, a7, a8, a9, a10, a11, a12, e, a13>>
           = <<a1, a2, a3, a4, a5, a6, a7, a8>> \o <<a9, a10, a11, a12, e, a13>>
      /\ <<a9, a10, a11, a12, e, a13>> = <<a9, a10, a11, a12>> \o <<e, a13>>
  OBVIOUS
<1>6. /\ a13.times + 1 = 2 /\ a9.times + a10.times + a11.times + a12.times + 2 = 10
      /\ a1.times + a2.times + a3.times + a4.times + a5.times + a6.times + a7.times + a8.times
            + 10 <= 48
  BY <1>2, <1>3, <1>4
<1>7. Piece(on, "DPU", FALSE, <<e, a13>>, TRUE, a13.times + 1)
  BY <1>2, StartBeforeOne
<1>8. Piece(on, "DPU", FALSE, <<e, a13>>, TRUE, 2)
  BY <1>6, <1>7
<1>9. Piece(on, "DPU", FALSE, <<a9, a10, a11, a12>> \o <<e, a13>>, TRUE,
            a9.times + a10.times + a11.times + a12.times + 2)
  BY <1>2, <1>3, <1>8, FourAhead
<1>10. Piece(on, "DPU", FALSE, <<a9, a10, a11, a12, e, a13>>, TRUE, 10)
  BY <1>5, <1>6, <1>9
<1>11. \A a \in {a1, a2, a3, a4, a5, a6, a7, a8} : Passive(on, "DPU", FALSE, a)
  BY <1>2, <1>4
<1>12. Piece(on, "DPU", FALSE,
             <<a1, a2, a3, a4, a5, a6, a7, a8>> \o <<a9, a10, a11, a12, e, a13>>, TRUE, 48)
  BY <1>6, <1>10, <1>11, EightAhead
<1> QED BY <1>1, <1>5, <1>12 DEF on

(* The units the block of an algorithm starts, and the one that writes.    *)
UnitsOf(algorithm) ==
  IF algorithm \in 11..13 THEN Reg!ConvUnits
  ELSE IF algorithm \in 24..27 THEN Reg!PoolUnits ELSE Reg!AluUnits
WriterOf(algorithm) == IF algorithm \in 24..27 THEN "PPU" ELSE "DPU"

LEMMA BlockFits ==
  ASSUME NEW algorithm \in Nat
  PROVE  Piece(UnitsOf(algorithm), WriterOf(algorithm), algorithm \in Blocks,
               Reg!Block(algorithm), TRUE, MostCommands)
<1> DEFINE safe == algorithm \in Blocks
           block == Reg!Block(algorithm)
           Fit(units, unit) == Piece(units, unit, safe, block, TRUE, MostCommands)
<1>1. safe \in BOOLEAN /\ 48 \in Nat /\ MostCommands \in Nat /\ 48 <= MostCommands
  BY RecorderAssumption DEF Reg!RegAssumption, MostCommands
<1>2. CASE algorithm \in 11..13
  <2>1. block \in {Reg!matmul, Reg!conv1d, Reg!conv2d}
    BY <1>2 DEF Reg!Block
  <2> HIDE DEF safe, block
  <2>2. Piece(Reg!ConvUnits, "DPU", safe, block, TRUE, 48)
    BY <1>1, <2>1, Convolving
  <2>3. Piece(Reg!ConvUnits, "DPU", safe, block, TRUE, MostCommands)
    BY <1>1, <2>2, MoreRoom
  <2>4. UnitsOf(algorithm) = Reg!ConvUnits /\ WriterOf(algorithm) = "DPU"
    BY <1>2 DEF UnitsOf, WriterOf
  <2> QED BY <2>3, <2>4 DEF block, safe
<1>3. CASE algorithm \in 24..27
  <2>1. \E times \in 0..16 : block = Reg!Pool(times)
    <3>1. block \in {Reg!maxpool, Reg!globalmaxpool, Reg!avgpool, Reg!globalavgpool}
      BY <1>3 DEF Reg!Block
    <3>2. block \in {Reg!Pool(8), Reg!Pool(6), Reg!Pool(10)}
      BY <3>1 DEF Reg!maxpool, Reg!globalmaxpool, Reg!avgpool, Reg!globalavgpool
    <3> QED BY <3>2
  <2> HIDE DEF safe, block
  <2>2. Piece(Reg!PoolUnits, "PPU", safe, block, TRUE, 48)
    BY <1>1, <2>1, PoolingFits
  <2>3. Piece(Reg!PoolUnits, "PPU", safe, block, TRUE, MostCommands)
    BY <1>1, <2>2, MoreRoom
  <2>4. UnitsOf(algorithm) = Reg!PoolUnits /\ WriterOf(algorithm) = "PPU"
    BY <1>3 DEF UnitsOf, WriterOf
  <2> QED BY <2>3, <2>4 DEF block, safe
<1>4. CASE algorithm \in (0..4) \cup {9, 10} \cup (16..20) \cup {22}
  <2>1. \E times \in 0..16 :
          \/ block = Reg!TwoOperands(times)
          \/ block = Reg!Binary(times, Reg!Src("weights", Reserved), Reg!Ew("input", 0))
    <3>1. block \in {Reg!minmax, Reg!add, Reg!div, Reg!minus, Reg!mul, Reg!relu, Reg!cmplt,
                     Reg!cmpeq_part2, Reg!cmpeq_part3, Reg!neg, Reg!cmple, Reg!abs}
      BY <1>4 DEF Reg!Block
    <3>2. \/ block = Reg!Binary(13, Reg!Src("weights", Reserved), Reg!Ew("input", 0))
          \/ block \in {Reg!TwoOperands(k) : k \in 12..16}
      BY <3>1 DEF Reg!minmax, Reg!add, Reg!div, Reg!minus, Reg!mul, Reg!relu, Reg!cmplt,
                  Reg!cmpeq_part2, Reg!cmpeq_part3, Reg!neg, Reg!cmple, Reg!abs
    <3> QED BY <3>2
  <2> HIDE DEF safe, block
  <2>2. Piece(Reg!AluUnits, "DPU", safe, block, TRUE, 48)
    <3>1. Reserved \in Nat /\ Reserved >= Reserved /\ 0 \in Nat
      BY RecorderAssumption DEF Reg!RegAssumption
    <3>2. \A buf \in {"input", "weights"}, at \in {0, Reserved} :
            (safe => buf = "input" \/ at >= Reserved)
              => /\ Passive(Reg!AluUnits, "DPU", safe, Reg!Src(buf, at))
                 /\ Reg!Src(buf, at).times = 1
                 /\ Passive(Reg!AluUnits, "DPU", safe, Reg!Ew(buf, at))
                 /\ Reg!Ew(buf, at).times = 1
      BY <1>1, <3>1, AluItems
    <3>3. \A times \in 0..16 :
            /\ Piece(Reg!AluUnits, "DPU", safe, Reg!TwoOperands(times), TRUE, 48)
            /\ Piece(Reg!AluUnits, "DPU", safe,
                     Reg!Binary(times, Reg!Src("weights", Reserved), Reg!Ew("input", 0)), TRUE, 48)
      BY <1>1, <3>1, <3>2, TwoOperandsFit DEF Reg!TwoOperands
    <3> QED BY <2>1, <3>3
  <2>3. Piece(Reg!AluUnits, "DPU", safe, block, TRUE, MostCommands)
    BY <1>1, <2>2, MoreRoom
  <2>4. UnitsOf(algorithm) = Reg!AluUnits /\ WriterOf(algorithm) = "DPU"
    BY <1>4 DEF UnitsOf, WriterOf
  <2> QED BY <2>3, <2>4 DEF block, safe
<1>5. CASE algorithm \in {14, 15, 23} \cup (28..55)
  <2>0. block = Reg!Block(algorithm)
    OBVIOUS
  <2> HIDE DEF safe, block
  <2>1. \/ block = Reg!sigmoid
        \/ block \in {Reg!tan, Reg!sin, Reg!cos, Reg!asin, Reg!acos, Reg!atan, Reg!asinh,
                       Reg!acosh, Reg!atanh, Reg!sinh, Reg!cosh}
        \/ block = Reg!silu \/ block = Reg!biased \/ block = Reg!roundoff
    <3>1. CASE algorithm = 14
      <4>1. block = Reg!sigmoid
        BY <2>0, <3>1 DEF Reg!Block
      <4> QED BY <4>1
    <3>2. CASE algorithm = 15
      <4>1. block = Reg!silu
        BY <2>0, <3>2 DEF Reg!Block
      <4> QED BY <4>1
    <3>3. CASE algorithm = 23
      <4>1. block = Reg!roundoff
        BY <2>0, <3>3 DEF Reg!Block
      <4> QED BY <4>1
    <3>4. CASE algorithm = 28
      <4>1. block = Reg!sin
        BY <2>0, <3>4 DEF Reg!Block
      <4> QED BY <4>1
    <3>5. CASE algorithm = 29
      <4>1. block = Reg!cos
        BY <2>0, <3>5 DEF Reg!Block
      <4> QED BY <4>1
    <3>6. CASE algorithm = 32
      <4>1. block = Reg!asin
        BY <2>0, <3>6 DEF Reg!Block
      <4> QED BY <4>1
    <3>7. CASE algorithm = 33
      <4>1. block = Reg!acos
        BY <2>0, <3>7 DEF Reg!Block
      <4> QED BY <4>1
    <3>8. CASE algorithm = 34
      <4>1. block = Reg!atan
        BY <2>0, <3>8 DEF Reg!Block
      <4> QED BY <4>1
    <3>9. CASE algorithm = 35
      <4>1. block = Reg!asinh
        BY <2>0, <3>9 DEF Reg!Block
      <4> QED BY <4>1
    <3>10. CASE algorithm = 36
      <4>1. block = Reg!acosh
        BY <2>0, <3>10 DEF Reg!Block
      <4> QED BY <4>1
    <3>11. CASE algorithm = 37
      <4>1. block = Reg!atanh
        BY <2>0, <3>11 DEF Reg!Block
      <4> QED BY <4>1
    <3>12. CASE algorithm = 38
      <4>1. block = Reg!sinh
        BY <2>0, <3>12 DEF Reg!Block
      <4> QED BY <4>1
    <3>13. CASE algorithm = 39
      <4>1. block = Reg!cosh
        BY <2>0, <3>13 DEF Reg!Block
      <4> QED BY <4>1
    <3>14. CASE algorithm \in {30, 31}
      <4>1. block = Reg!tan
        BY <2>0, <3>14 DEF Reg!Block
      <4> QED BY <4>1
    <3>15. CASE algorithm \in 40..55
      <4>1. block = Reg!biased
        BY <2>0, <3>15 DEF Reg!Block
      <4> QED BY <4>1
    <3> QED BY <1>5, <3>1, <3>2, <3>3, <3>4, <3>5, <3>6, <3>7, <3>8,
               <3>9, <3>10, <3>11, <3>12, <3>13, <3>14, <3>15
  <2>2. Piece(Reg!AluUnits, "DPU", safe, block, TRUE, MostCommands)
    <3>0. /\ {15, 20, 21, 23} \subseteq 0..23 /\ {2, 3} \subseteq 0..3
      OBVIOUS
    <3>1. CASE block = Reg!sigmoid
      BY <3>0, <1>1, <3>1, TablesFit DEF Reg!sigmoid
    <3>2. CASE block \in {Reg!tan, Reg!sin, Reg!cos, Reg!asin, Reg!acos, Reg!atan, Reg!asinh,
                          Reg!acosh, Reg!atanh, Reg!sinh, Reg!cosh}
      <4>1. block = Reg!tan
        BY <3>2 DEF Reg!tan, Reg!sin, Reg!cos, Reg!asin, Reg!acos, Reg!atan, Reg!asinh,
                    Reg!acosh, Reg!atanh, Reg!sinh, Reg!cosh
      <4> QED BY <1>1, <3>0, <4>1, TablesFit DEF Reg!tan
    <3>3. CASE block = Reg!silu
      BY <1>1, <3>0, <3>3, TablesFit DEF Reg!silu
    <3>4. CASE block = Reg!biased
      BY <1>1, <3>0, <3>4, TablesFit DEF Reg!biased
    <3>5. CASE block = Reg!roundoff
      <4>1. 20 \in 0..23 /\ 3 \in 0..3
        OBVIOUS
      <4> QED BY <1>1, <3>5, <4>1, TablesFit
    <3> QED BY <2>1, <3>1, <3>2, <3>3, <3>4, <3>5
  <2>3. UnitsOf(algorithm) = Reg!AluUnits /\ WriterOf(algorithm) = "DPU"
    BY <1>5 DEF UnitsOf, WriterOf
  <2> QED BY <2>2, <2>3 DEF block, safe
<1>6. CASE algorithm \notin Blocks
  <2>1. block = Reg!default(algorithm)
    BY <1>6 DEF Reg!Block, Blocks
  <2>2. safe = FALSE
    BY <1>6
  <2>3. algorithm \notin 11..13 /\ algorithm \notin 24..27
    BY <1>6 DEF Blocks
  <2> HIDE DEF safe, block
  <2>4. Piece(Reg!AluUnits, "DPU", safe, block, TRUE, 48)
    BY <2>1, <2>2, UnlabelledFits
  <2>5. Piece(Reg!AluUnits, "DPU", safe, block, TRUE, MostCommands)
    BY <1>1, <2>4, MoreRoom
  <2>6. UnitsOf(algorithm) = Reg!AluUnits /\ WriterOf(algorithm) = "DPU"
    BY <2>3 DEF UnitsOf, WriterOf
  <2> QED BY <2>5, <2>6 DEF block, safe
<1>7. \/ algorithm \notin Blocks \/ algorithm \in 11..13 \/ algorithm \in 24..27
      \/ algorithm \in (0..4) \cup {9, 10} \cup (16..20) \cup {22}
      \/ algorithm \in {14, 15, 23} \cup (28..55)
  BY DEF Blocks
<1> QED BY <1>2, <1>3, <1>4, <1>5, <1>6, <1>7


LEMMA Patched ==
  ASSUME reg_task_count = 1, Reg!PatchChain
  PROVE  regs' = Reg!Overwrite(Reg!Overwrite(regs, reg_pc_base[0], Reg!NextTask(0)),
                               reg_pc_amount[0], reg_task_lengths[0])
<1> DEFINE Step(x, t) == Reg!Overwrite(Reg!Overwrite(x, reg_pc_base[t - 1], Reg!NextTask(t - 1)),
                               reg_pc_amount[t - 1], reg_task_lengths[t - 1])
           q == [t \in 1..1 |-> t]
           D == DOMAIN q
           It(f) == f = [s \in SUBSET D |-> IF s = {} THEN regs ELSE
                           Step(f[s \ {Reg!Max(s)}], q[Reg!Max(s)])]
           g == [s \in SUBSET D |-> IF s = {} THEN regs ELSE Step(regs, 1)]
<1>1. regs' = (CHOOSE f : It(f))[D]
  BY DEF Reg!PatchChain, Reg!FoldLeft, Reg!MapThenFoldSet
<1>2. D = {1} /\ q[1] = 1
  OBVIOUS
<1>3. Reg!Max({1}) = 1
  BY DEF Reg!Max
<1> HIDE DEF Step, q, D
<1>4. \A s \in SUBSET D : s # {} => s = {1}
  BY <1>2
<1>5. {1} \ {1} = {} /\ {} \in SUBSET D /\ {1} \in SUBSET D
  BY <1>2
<1>6. ASSUME NEW f, It(f)
      PROVE  f[{1}] = Step(regs, 1)
  <2>1. f[{}] = regs
    BY <1>5, <1>6
  <2>2. f[{1}] = Step(f[{1} \ {Reg!Max({1})}], q[Reg!Max({1})])
    BY <1>5, <1>6
  <2> QED BY <1>2, <1>3, <1>5, <2>1, <2>2
<1>7. It(g)
  <2> DEFINE h == [s \in SUBSET D |-> IF s = {} THEN regs ELSE
                           Step(g[s \ {Reg!Max(s)}], q[Reg!Max(s)])]
  <2>1. ASSUME NEW s \in SUBSET D
        PROVE  (IF s = {} THEN regs ELSE Step(regs, 1))
                 = (IF s = {} THEN regs ELSE Step(g[s \ {Reg!Max(s)}], q[Reg!Max(s)]))
    <3>1. CASE s = {}
      BY <3>1
    <3>2. CASE s # {}
      <4>1. s = {1}
        BY <1>4, <3>2
      <4>2. g[{}] = regs
        BY <1>5
      <4> QED BY <1>2, <1>3, <1>5, <4>1, <4>2
    <3> QED BY <3>1, <3>2
  <2>2. g = h
    BY <2>1
  <2> QED BY <2>2
<1> HIDE DEF g
<1>8. It(CHOOSE f : It(f))
  <2>1. \E f : It(f)
    BY <1>7
  <2> HIDE DEF It
  <2> QED BY <2>1
<1>9. (CHOOSE f : It(f))[D] = Step(regs, 1)
  BY <1>2, <1>6, <1>8
<1> QED BY <1>1, <1>9 DEF Step


-----------------------------------------------------------------------------
(* The commands of the first k items of a block, as Commands unfolds.      *)
Runs(block) ==
  [k \in 1..Len(block) |->
    [i \in 1..block[k].times |->
      [unit |-> block[k].unit, reg |-> block[k].reg, val |-> block[k].val]]]
Recorded(block, k) == IF k = 0 THEN <<>> ELSE (CHOOSE f : Flattened(Runs(block), f))[k]

LEMMA RecordedGrows ==
  ASSUME NEW block, IsSequence(block), NEW k \in 1..Len(block)
  PROVE  /\ k > 1 => Recorded(block, k) = Recorded(block, k - 1) \o Runs(block)[k]
         /\ k = 1 => Recorded(block, k) = Runs(block)[k]
<1> DEFINE q == Runs(block)
           f == CHOOSE g : Flattened(q, g)
<1>1. Len(block) \in Nat /\ Len(q) = Len(block) /\ Len(q) \in Nat
  <2>1. Len(block) \in Nat
    BY Sequence
  <2>2. Len(q) = Len(block)
    BY <2>1 DEF Runs
  <2> QED BY <2>1, <2>2
<1> HIDE DEF q
<1>2. Flattened(q, f)
  <2>1. \E g : Flattened(q, g)
    BY <1>1, FlattenExists
  <2> QED BY <2>1
<1> HIDE DEF f
<1>3. f[k] = IF k = 1 THEN q[k] ELSE f[k - 1] \o q[k]
  BY <1>1, <1>2 DEF Flattened
<1>4. Recorded(block, k) = f[k] /\ (k > 1 => Recorded(block, k - 1) = f[k - 1])
  BY <1>1 DEF Recorded, q, f
<1>5. ASSUME k > 1 PROVE Recorded(block, k) = Recorded(block, k - 1) \o q[k]
  <2>1. k # 1
    BY <1>1, <1>5
  <2>2. f[k] = f[k - 1] \o q[k]
    BY <1>3, <2>1
  <2>3. Recorded(block, k) = f[k] /\ Recorded(block, k - 1) = f[k - 1]
    BY <1>4, <1>5
  <2> QED BY <2>2, <2>3, Zenon
<1>6. k = 1 => Recorded(block, k) = q[k]
  BY <1>1, <1>3, <1>4
<1> QED BY <1>5, <1>6 DEF q

LEMMA CommandsAre ==
  ASSUME NEW block, IsSequence(block), Len(block) # 0
  PROVE  Reg!Commands(block) = Recorded(block, Len(block))
<1> DEFINE q == Runs(block)
<1>1. Len(block) \in Nat /\ Len(q) = Len(block)
  <2>1. Len(block) \in Nat
    BY Sequence
  <2>2. Len(q) = Len(block)
    BY <2>1 DEF Runs
  <2> QED BY <2>1, <2>2
<1>2. Reg!Commands(block) = Reg!FlattenSeq(q)
  BY DEF Reg!Commands, Runs
<1> HIDE DEF q
<1>3. Reg!FlattenSeq(q) = (CHOOSE f : Flattened(q, f))[Len(q)]
  BY <1>1 DEF Reg!FlattenSeq, Flattened
<1> QED BY <1>1, <1>2, <1>3 DEF Recorded, q

(* One item more.                                                          *)
CommandOf(item) == [unit |-> item.unit, reg |-> item.reg, val |-> item.val]

LEMMA RecordedStep ==
  ASSUME NEW block, IsSequence(block), NEW k \in 1..Len(block),
         block[k].times \in Nat, IsSequence(Recorded(block, k - 1))
  PROVE  LET old == Recorded(block, k - 1)
             new == Recorded(block, k)
         IN  /\ new = old \o Filled(block[k].times, CommandOf(block[k]))
             /\ IsSequence(new) /\ Len(new) = Len(old) + block[k].times /\ Len(old) \in Nat
             /\ \A i \in 1..Len(old) : new[i] = old[i]
             /\ \A i \in (Len(old) + 1)..Len(new) : new[i] = CommandOf(block[k])
<1> DEFINE old == Recorded(block, k - 1)
           new == Recorded(block, k)
           run == Filled(block[k].times, CommandOf(block[k]))
<1>1. Runs(block)[k] = run
  BY DEF Runs, CommandOf, Filled
<1>2. new = old \o run
  <2>1. CASE k > 1
    BY <1>1, <2>1, RecordedGrows
  <2>2. CASE k = 1
    <3>1. new = run /\ old = <<>>
      <4>1. k - 1 = 0
        BY <2>2
      <4> QED BY <1>1, <2>2, <4>1, RecordedGrows DEF Recorded
    <3>2. run \in Seq({CommandOf(block[k])})
      BY DEF Filled
    <3> HIDE DEF run
    <3>3. <<>> \o run = run
      BY <3>2
    <3> HIDE DEF new, old
    <3> QED BY <3>1, <3>3
  <2>3. Len(block) \in Nat
    BY Sequence
  <2> QED BY <2>1, <2>2, <2>3
<1> HIDE DEF new
<1>3. LET t == old \o Filled(block[k].times, CommandOf(block[k]))
      IN  /\ IsSequence(t) /\ Len(t) = Len(old) + block[k].times /\ Len(old) \in Nat
          /\ \A i \in 1..Len(old) : t[i] = old[i]
          /\ \A i \in (Len(old) + 1)..Len(t) : t[i] = CommandOf(block[k])
  <2> DEFINE c == CommandOf(block[k])
  <2> HIDE DEF c, old
  <2>1. IsSequence(old)
    BY DEF old
  <2>2. LET t == old \o Filled(block[k].times, c)
        IN  /\ IsSequence(t) /\ Len(t) = Len(old) + block[k].times /\ Len(old) \in Nat
            /\ \A i \in 1..Len(old) : t[i] = old[i]
            /\ \A i \in (Len(old) + 1)..Len(t) : t[i] = c
    BY <2>1, Repeated
  <2> QED BY <2>2 DEF c
<1> QED BY <1>2, <1>3 DEF new


Enablers(s) == {i \in 1..Len(s) : s[i].reg = "OPERATION_ENABLE"}

(* A command, and what k items of a block recorded, e being the item that  *)
(* enables.                                                                *)
RecordedOk(on, out, safe, c) == CommandFits(on, out, safe, c) /\ c = CommandOf(c)

RecordedWell(on, out, safe, block, left, e, most, k) ==
  LET r == Recorded(block, k)
  IN  /\ IsSequence(r) /\ Len(r) + left[k] <= most
      /\ \A i \in 1..Len(r) : RecordedOk(on, out, safe, r[i])
      /\ k < e => Enablers(r) = {}
      /\ k >= e => \E j \in 1..Len(r) : Enablers(r) = {j}

LEMMA RecordedWellStep ==
  ASSUME NEW on, NEW out, NEW safe, NEW block, NEW left, NEW e, NEW most \in Nat,
         IsSequence(block), Budget(block, left, most), EnabledAt(block, e), e # 0,
         NEW k \in 1..Len(block), ItemFits(on, out, safe, block[k]),
         RecordedWell(on, out, safe, block, left, e, most, k - 1)
  PROVE  RecordedWell(on, out, safe, block, left, e, most, k)
<1> DEFINE old == Recorded(block, k - 1)
           new == Recorded(block, k)
           item == block[k]
<1>1. Len(block) \in Nat /\ e \in 1..Len(block) /\ k - 1 \in 0..Len(block) /\ k \in 0..Len(block)
  BY Sequence DEF EnabledAt
<1>2. /\ IsSequence(old) /\ Len(old) + left[k - 1] <= most
      /\ \A i \in 1..Len(old) : RecordedOk(on, out, safe, old[i])
      /\ k - 1 < e => Enablers(old) = {}
      /\ k - 1 >= e => \E j \in 1..Len(old) : Enablers(old) = {j}
  BY DEF RecordedWell
<1>3. /\ left[k - 1] = left[k] + item.times /\ left[k] \in Nat /\ left[k - 1] \in Nat
      /\ item.times \in Nat
      /\ CommandFits(on, out, safe, item)
      /\ item.reg = "OPERATION_ENABLE" => item.times = 1
      /\ item.reg = "OPERATION_ENABLE" <=> k = e
  BY <1>1 DEF Budget, EnabledAt, ItemFits
<1>4. /\ IsSequence(new) /\ Len(new) = Len(old) + item.times /\ Len(old) \in Nat
      /\ \A i \in 1..Len(old) : new[i] = old[i]
      /\ \A i \in (Len(old) + 1)..Len(new) : new[i] = CommandOf(item)
  BY <1>2, <1>3, RecordedStep
<1>5. RecordedOk(on, out, safe, CommandOf(item)) /\ CommandOf(item).reg = item.reg
  <2>1. CommandOf(item) = CommandOf(CommandOf(item))
    BY DEF CommandOf
  <2>2. CommandFits(on, out, safe, CommandOf(item)) /\ CommandOf(item).reg = item.reg
    BY <1>3 DEF CommandFits, CommandOf
  <2> QED BY <2>1, <2>2 DEF RecordedOk
<1> HIDE DEF old, new, item
<1>6. Len(new) \in Nat /\ \A i \in 1..Len(new) : i \in 1..Len(old) \/ i \in (Len(old) + 1)..Len(new)
  BY <1>3, <1>4
<1>7. Len(new) + left[k] <= most
  BY <1>2, <1>3, <1>4
<1>8. \A i \in 1..Len(new) : RecordedOk(on, out, safe, new[i])
  BY <1>2, <1>4, <1>5, <1>6
<1>9. CASE k < e
  <2>1. k # e /\ k - 1 < e
    BY <1>1, <1>9
  <2>2. \A i \in 1..Len(new) : new[i].reg # "OPERATION_ENABLE"
    BY <1>2, <1>3, <1>4, <1>5, <1>6, <2>1 DEF Enablers
  <2>3. Enablers(new) = {} /\ ~(k >= e)
    BY <1>1, <1>9, <2>2 DEF Enablers
  <2> QED BY <1>4, <1>7, <1>8, <2>3 DEF RecordedWell, new
<1>10. CASE k = e
  <2>1. k - 1 < e /\ ~(k < e)
    BY <1>1, <1>10
  <2>2. item.times = 1 /\ item.reg = "OPERATION_ENABLE"
    BY <1>3, <1>10
  <2>3. Len(new) \in 1..Len(new) /\ (Len(old) + 1)..Len(new) = {Len(new)}
    BY <1>4, <2>2
  <2>4. Enablers(new) = {Len(new)}
    BY <1>2, <1>4, <1>5, <1>6, <2>1, <2>2, <2>3 DEF Enablers
  <2> QED BY <1>4, <1>7, <1>8, <2>1, <2>3, <2>4 DEF RecordedWell, new
<1>11. CASE k > e
  <2>1. k - 1 >= e /\ k # e /\ ~(k < e)
    BY <1>1, <1>11
  <2>2. PICK j \in 1..Len(old) : Enablers(old) = {j}
    BY <1>2, <2>1
  <2>3. j \in 1..Len(new)
    BY <1>3, <1>4, <2>2
  <2>4. ASSUME NEW i \in 1..Len(new)
        PROVE  new[i].reg = "OPERATION_ENABLE" <=> i = j
    <3>1. CASE i \in 1..Len(old)
      BY <1>4, <2>2, <3>1 DEF Enablers
    <3>2. CASE i \in (Len(old) + 1)..Len(new)
      BY <1>3, <1>4, <1>5, <2>1, <2>2, <3>2
    <3> QED BY <1>6, <3>1, <3>2
  <2>5. Enablers(new) = {j}
    BY <2>3, <2>4 DEF Enablers
  <2> QED BY <1>4, <1>7, <1>8, <2>1, <2>3, <2>5 DEF RecordedWell, new
<1> QED BY <1>1, <1>9, <1>10, <1>11

LEMMA RecordedFits ==
  ASSUME NEW on, NEW out, NEW safe, NEW block, NEW most \in Nat,
         Piece(on, out, safe, block, TRUE, most)
  PROVE  /\ Len(block) \in Nat \ {0}
         /\ \A k \in 0..Len(block) :
              /\ IsSequence(Recorded(block, k)) /\ Len(Recorded(block, k)) \in 0..most
              /\ \A i \in 1..Len(Recorded(block, k)) :
                   RecordedOk(on, out, safe, Recorded(block, k)[i])
         /\ \E j \in 1..Len(Recorded(block, Len(block))) :
              Enablers(Recorded(block, Len(block))) = {j}
<1>1. PICK e : EnabledAt(block, e) /\ e # 0
  BY DEF Piece
<1>2. PICK left : Budget(block, left, most)
  BY DEF Piece
<1>3. Len(block) \in Nat /\ e \in 1..Len(block) /\ Len(block) # 0
  BY <1>1, Sequence DEF Piece, EnabledAt
<1> DEFINE Well(k) == RecordedWell(on, out, safe, block, left, e, most, k)
           T == {k \in Nat : k <= Len(block) => Well(k)}
<1>4. 0 \in T
  <2>1. IsSequence(<<>>) /\ Len(<<>>) = 0 /\ 1..0 = {}
    <3>1. <<>> \in Seq({}) /\ Len(<<>>) = 0 /\ 1..0 = {}
      OBVIOUS
    <3> QED BY <3>1 DEF IsSequence
  <2>2. Recorded(block, 0) = <<>>
    BY DEF Recorded
  <2>3. Len(<<>>) + left[0] <= most
    BY <1>2, <1>3, <2>1 DEF Budget
  <2>4. 0 < e /\ ~(0 >= e)
    BY <1>3
  <2>5. Well(0)
    BY <2>1, <2>2, <2>3, <2>4 DEF RecordedWell, Enablers
  <2> QED BY <2>5
<1>5. ASSUME NEW k \in T PROVE k + 1 \in T
  <2> SUFFICES ASSUME k + 1 <= Len(block) PROVE Well(k + 1)
    OBVIOUS
  <2>1. k \in Nat /\ k + 1 \in 1..Len(block) /\ (k + 1) - 1 = k
    BY <1>3
  <2>2. Well(k)
    BY <1>3, <2>1
  <2>3. ItemFits(on, out, safe, block[k + 1]) /\ IsSequence(block)
    BY <2>1 DEF Piece
  <2>4. RecordedWell(on, out, safe, block, left, e, most, (k + 1) - 1)
    BY <2>1, <2>2
  <2> HIDE DEF T
  <2> QED BY <1>1, <1>2, <2>1, <2>3, <2>4, RecordedWellStep
<1>6. T = Nat
  <2>1. T \in SUBSET Nat
    OBVIOUS
  <2> HIDE DEF T
  <2> QED BY <1>4, <1>5, <2>1, CountingUp
<1>7. ASSUME NEW k \in 0..Len(block) PROVE Well(k)
  <2>1. k \in T /\ k <= Len(block)
    BY <1>3, <1>6
  <2> QED BY <2>1
<1> HIDE DEF T, Well
<1>8. ASSUME NEW k \in 0..Len(block)
      PROVE  /\ IsSequence(Recorded(block, k)) /\ Len(Recorded(block, k)) \in 0..most
             /\ \A i \in 1..Len(Recorded(block, k)) :
                  RecordedOk(on, out, safe, Recorded(block, k)[i])
  <2>1. /\ IsSequence(Recorded(block, k)) /\ Len(Recorded(block, k)) + left[k] <= most
        /\ \A i \in 1..Len(Recorded(block, k)) : RecordedOk(on, out, safe, Recorded(block, k)[i])
    BY <1>7 DEF Well, RecordedWell
  <2>2. left[k] \in Nat /\ Len(Recorded(block, k)) \in Nat
    BY <1>2, <2>1, Sequence DEF Budget
  <2> QED BY <2>1, <2>2
<1>9. \E j \in 1..Len(Recorded(block, Len(block))) : Enablers(Recorded(block, Len(block))) = {j}
  <2>1. Len(block) \in 0..Len(block) /\ Len(block) >= e
    BY <1>3
  <2> QED BY <1>7, <2>1 DEF Well, RecordedWell
<1> QED BY <1>3, <1>8, <1>9

LEMMA BlockRecorded ==
  ASSUME NEW algorithm \in Nat
  PROVE  LET b == Reg!Block(algorithm)
             on == UnitsOf(algorithm)
             out == WriterOf(algorithm)
             safe == algorithm \in Blocks
         IN  /\ IsSequence(b) /\ Len(b) \in Nat \ {0}
             /\ \A k \in 1..Len(b) : ItemFits(on, out, safe, b[k])
             /\ \A k \in 0..Len(b) :
                  /\ IsSequence(Recorded(b, k)) /\ Len(Recorded(b, k)) \in 0..MostCommands
                  /\ \A i \in 1..Len(Recorded(b, k)) : RecordedOk(on, out, safe, Recorded(b, k)[i])
             /\ \E j \in 1..Len(Recorded(b, Len(b))) : Enablers(Recorded(b, Len(b))) = {j}
             /\ Reg!Commands(b) = Recorded(b, Len(b))
<1> DEFINE b == Reg!Block(algorithm)
           on == UnitsOf(algorithm)
           out == WriterOf(algorithm)
           safe == algorithm \in Blocks
<1>1. Piece(on, out, safe, b, TRUE, MostCommands)
  BY BlockFits
<1>2. MostCommands \in Nat
  BY RecorderAssumption DEF Reg!RegAssumption, MostCommands
<1> HIDE DEF b, on, out, safe
<1>3. /\ Len(b) \in Nat \ {0}
      /\ \A k \in 0..Len(b) :
           /\ IsSequence(Recorded(b, k)) /\ Len(Recorded(b, k)) \in 0..MostCommands
           /\ \A i \in 1..Len(Recorded(b, k)) : RecordedOk(on, out, safe, Recorded(b, k)[i])
      /\ \E j \in 1..Len(Recorded(b, Len(b))) : Enablers(Recorded(b, Len(b))) = {j}
  BY <1>1, <1>2, RecordedFits
<1>4. IsSequence(b) /\ \A k \in 1..Len(b) : ItemFits(on, out, safe, b[k])
  BY <1>1 DEF Piece
<1>5. Reg!Commands(b) = Recorded(b, Len(b))
  BY <1>3, <1>4, CommandsAre
<1> QED BY <1>3, <1>4, <1>5 DEF b, on, out, safe


-----------------------------------------------------------------------------
(* While a block is recorded: k of its items were emitted, the recorded    *)
(* commands are theirs, and a chain register that was noted is where the   *)
(* note says.                                                              *)
Recording == Reg!Block(current_alu_algorithm)
Finished == Recorded(Recording, Len(Recording))

Noted(indices, reg) ==
  indices[0] = 0 \/ (indices[0] \in 1..Len(regs) /\ regs[indices[0]].reg = reg)

RegTyped ==
  /\ reg_pc \in {"idle", "emit", "patch", "table", "built"}
  /\ current_alu_algorithm \in Algorithms \cup {2}
  /\ reg_pc # "idle" => current_alu_algorithm \in Algorithms
  /\ reg_task_count \in 0..MaxRegTasks
  /\ reg_task_offsets \in [0..MaxRegTasks -> Nat]
  /\ reg_task_lengths \in [Reg!Slots -> Nat]
  /\ reg_pc_base \in [Reg!Slots -> Nat] /\ reg_pc_amount \in [Reg!Slots -> Nat]
  /\ \A t \in DOMAIN tasks : tasks[t].interrupt \in {"DPU", "PPU"}
  /\ flags \subseteq {"PC", "BLOCK", "PINGPONG"}
  /\ IsSequence(regs) /\ Len(regs) <= MostCommands + 7

Emitted(k) ==
  /\ IsSequence(todo) /\ Len(todo) = Len(Recording) - k
  /\ \A j \in 1..Len(todo) : todo[j] = Recording[k + j]
  /\ regs = Recorded(Recording, k)

Emitting ==
  /\ \E k \in 0..Len(Recording) : Emitted(k)
  /\ reg_task_count = 0 /\ reg_task_offsets[0] = 0
  /\ Noted(reg_pc_base, "BASE_ADDRESS") /\ Noted(reg_pc_amount, "REGISTER_AMOUNTS")

(* The command at a place of a finished task: what its block emitted, but  *)
(* for the value of a chain register.                                      *)
Kept(i) ==
  /\ regs[i].unit = Finished[i].unit /\ regs[i].reg = Finished[i].reg
  /\ regs[i].reg \in ChainRegisters \/ regs[i] = Finished[i]
  /\ regs[i].reg = "BASE_ADDRESS" => regs[i].val = <<0>>
  /\ regs[i] = CommandOf(regs[i])

Behind ==
  /\ Len(regs) % 8 = 0 /\ Len(regs) >= Len(Finished)
  /\ \A i \in 1..Len(Finished) : Kept(i)
  /\ \A i \in (Len(Finished) + 1)..Len(regs) : regs[i] = Reg!Pad
  /\ reg_task_count = 1 /\ reg_task_lengths[0] = Len(Finished) /\ reg_task_offsets[0] = 0

RegInv ==
  process = "regcmd" =>
    /\ RegTyped
    /\ reg_pc = "emit" => Emitting
    /\ reg_pc \in {"patch", "table", "built"} => Behind
    /\ reg_pc = "patch" =>
         Noted(reg_pc_base, "BASE_ADDRESS") /\ Noted(reg_pc_amount, "REGISTER_AMOUNTS")
    /\ reg_pc = "built" =>
         tasks = [t \in 1..1 |-> [interrupt |-> WriterOf(current_alu_algorithm),
                                  regcfg_amount |-> Len(Finished), regcfg_offset |-> 0]]

LEMMA RegConstants ==
  /\ Algorithms \subseteq Nat /\ 2 \in Nat /\ 0 \in Reg!Slots /\ 0 \in 0..MaxRegTasks
  /\ 1 \in 0..MaxRegTasks /\ 0 < MaxRegTasks /\ MaxRegTasks \in Nat
  /\ MostCommands \in Nat /\ Reserved \in Nat
BY RecorderAssumption DEF Reg!RegAssumption, Reg!Slots, MostCommands

LEMMA NoCommands == IsSequence(<<>>) /\ Len(<<>>) = 0
<1>1. <<>> \in Seq({}) /\ Len(<<>>) = 0
  OBVIOUS
<1> QED BY <1>1 DEF IsSequence

LEMMA RegStart ==
  ASSUME process = "regcmd", ConvolutionInit
  PROVE  RegInv
<1>1. Reg!Init
  BY DEF ConvolutionInit
<1>2. RegTyped
  BY <1>1, RegConstants, NoCommands DEF Reg!Init, Reg!NoTracking, RegTyped
<1> QED BY <1>1, <1>2 DEF Reg!Init, RegInv

LEMMA RegCreate ==
  ASSUME process = "regcmd", process' = process, RegInv, NEW algorithm \in Algorithms,
         Reg!CreateRegCmd(algorithm)
  PROVE  RegInv'
<1>1. RegTyped
  BY DEF RegInv
<1>2. RegTyped'
  BY <1>1, RegConstants, NoCommands DEF RegTyped, Reg!CreateRegCmd, Reg!NoTracking
<1>3. /\ Recording' = Reg!Block(algorithm) /\ todo' = Reg!Block(algorithm) /\ regs' = <<>>
      /\ reg_pc' = "emit"
  BY DEF Reg!CreateRegCmd, Recording, Reg!Block
<1>4. IsSequence(Recording') /\ Len(Recording') \in Nat \ {0}
  <2>1. algorithm \in Nat
    BY RegConstants
  <2> QED BY <1>3, <2>1, BlockRecorded
<1>5. Emitted(0)'
  <2>1. \A j \in 1..Len(todo') : todo'[j] = Recording'[0 + j]
    BY <1>3, <1>4
  <2>2. regs' = Recorded(Recording', 0)
    BY <1>3 DEF Recorded
  <2> QED BY <1>3, <1>4, <2>1, <2>2 DEF Emitted
<1>6. 0 \in 0..Len(Recording')
  BY <1>4
<1>7. Emitting'
  BY <1>5, <1>6, RegConstants DEF Emitting, Reg!CreateRegCmd, Reg!NoTracking, Noted
<1> QED BY <1>2, <1>3, <1>7 DEF RegInv


LEMMA HeadTail ==
  ASSUME NEW s, IsSequence(s), s # <<>>
  PROVE  /\ Len(s) \in Nat \ {0} /\ Head(s) = s[1]
         /\ IsSequence(Tail(s)) /\ Len(Tail(s)) = Len(s) - 1
         /\ \A i \in 1..(Len(s) - 1) : Tail(s)[i] = s[i + 1]
<1>1. PICK T : s \in Seq(T)
  BY DEF IsSequence
<1>2. Tail(s) \in Seq(T) /\ Len(s) \in Nat \ {0} /\ Head(s) = s[1] /\ Len(Tail(s)) = Len(s) - 1
  BY <1>1, EmptySeq
<1>3. \A i \in 1..(Len(s) - 1) : Tail(s)[i] = s[i + 1]
  BY <1>1, <1>2
<1> QED BY <1>2, <1>3 DEF IsSequence

LEMMA RegEmit ==
  ASSUME process = "regcmd", process' = process, RegInv, Reg!EmitRaw
  PROVE  RegInv'
<1> DEFINE b == Recording
           item == Head(todo)
<1>1. RegTyped /\ Emitting /\ reg_pc = "emit" /\ todo # <<>>
  BY DEF RegInv, Reg!EmitRaw
<1>2. PICK k \in 0..Len(b) : Emitted(k)
  BY <1>1 DEF Emitting
<1>3. /\ IsSequence(b) /\ Len(b) \in Nat \ {0}
      /\ \A j \in 1..Len(b) :
           ItemFits(UnitsOf(current_alu_algorithm), WriterOf(current_alu_algorithm),
                    current_alu_algorithm \in Blocks, b[j])
      /\ \A j \in 0..Len(b) : IsSequence(Recorded(b, j)) /\ Len(Recorded(b, j)) \in 0..MostCommands
  <2>1. current_alu_algorithm \in Nat
    BY <1>1, RegConstants DEF RegTyped
  <2> QED BY <2>1, BlockRecorded DEF Recording
<1> HIDE DEF b, item
<1>4. /\ item = todo[1] /\ IsSequence(Tail(todo)) /\ Len(todo) \in Nat \ {0}
      /\ Len(Tail(todo)) = Len(todo) - 1
      /\ \A j \in 1..(Len(todo) - 1) : Tail(todo)[j] = todo[j + 1]
  BY <1>1, <1>2, HeadTail DEF Emitted, item
<1>5. k + 1 \in 1..Len(b) /\ (k + 1) - 1 = k /\ item = b[k + 1] /\ Len(todo) = Len(b) - k
  BY <1>2, <1>3, <1>4 DEF Emitted, b
<1>6. /\ item.times \in Nat
      /\ item.reg \in ChainRegisters => item.times = 1
  BY <1>3, <1>5 DEF ItemFits
<1>7. regs' = regs \o Filled(item.times, CommandOf(item)) /\ regs = Recorded(b, k)
  <2>1. regs' = regs \o Filled(item.times, CommandOf(item))
    BY DEF Reg!EmitRaw, Filled, CommandOf, item
  <2> QED BY <1>2, <2>1 DEF Emitted, b
<1>8. /\ Recorded(b, k + 1) = regs'
      /\ Len(regs') = Len(regs) + item.times /\ Len(regs) \in Nat
      /\ \A i \in 1..Len(regs) : regs'[i] = regs[i]
      /\ \A i \in (Len(regs) + 1)..Len(regs') : regs'[i] = CommandOf(item)
  <2>1. IsSequence(Recorded(b, (k + 1) - 1)) /\ b[k + 1].times \in Nat
    BY <1>3, <1>5, <1>6
  <2> DEFINE j == k + 1
  <2>2. j \in 1..Len(b) /\ j - 1 = k /\ b[j] = item
    BY <1>5
  <2> HIDE DEF j
  <2>3. LET old == Recorded(b, j - 1)
            new == Recorded(b, j)
        IN  /\ new = old \o Filled(b[j].times, CommandOf(b[j]))
            /\ IsSequence(new) /\ Len(new) = Len(old) + b[j].times /\ Len(old) \in Nat
            /\ \A i \in 1..Len(old) : new[i] = old[i]
            /\ \A i \in (Len(old) + 1)..Len(new) : new[i] = CommandOf(b[j])
    <3>1. IsSequence(b) /\ b[j].times \in Nat /\ IsSequence(Recorded(b, j - 1))
      BY <1>3, <1>6, <2>1, <2>2 DEF j
    <3> QED BY <2>2, <3>1, RecordedStep
  <2>4. regs' = Recorded(b, j)
    BY <1>7, <2>2, <2>3
  <2> QED BY <1>7, <2>2, <2>3, <2>4 DEF j
<1>9. /\ reg_pc' = reg_pc /\ current_alu_algorithm' = current_alu_algorithm
      /\ reg_task_count' = reg_task_count /\ reg_task_offsets' = reg_task_offsets
      /\ reg_task_lengths' = reg_task_lengths /\ tasks' = tasks /\ flags' = flags
      /\ todo' = Tail(todo) /\ b' = b
  BY DEF Reg!EmitRaw, b, Recording, Reg!Block
<1>10. Emitted(k + 1)'
  <2>1. IsSequence(todo') /\ Len(todo') = Len(b) - (k + 1)
    BY <1>4, <1>5, <1>9
  <2>2. ASSUME NEW j \in 1..Len(todo') PROVE todo'[j] = b[(k + 1) + j]
    <3>1. j \in 1..(Len(todo) - 1) /\ j + 1 \in 1..Len(todo) /\ k + (j + 1) = (k + 1) + j
      BY <1>4, <1>5, <1>9
    <3>2. todo[j + 1] = b[k + (j + 1)]
      BY <1>2, <3>1 DEF Emitted, b
    <3> QED BY <1>4, <1>9, <3>1, <3>2
  <2> QED BY <1>8, <1>9, <2>1, <2>2 DEF Emitted, b
<1> DEFINE Updated(indices, reg) ==
             IF item.reg = reg /\ reg_task_count < MaxRegTasks
             THEN [indices EXCEPT ![reg_task_count] = Len(regs) + item.times] ELSE indices
<1>11. ASSUME NEW indices, NEW reg \in ChainRegisters,
              indices \in [Reg!Slots -> Nat], Noted(indices, reg)
       PROVE  LET indices2 == Updated(indices, reg)
              IN  /\ indices2 \in [Reg!Slots -> Nat]
                  /\ \/ indices2[0] = 0
                     \/ indices2[0] \in 1..Len(regs') /\ regs'[indices2[0]].reg = reg
  <2> DEFINE indices2 == Updated(indices, reg)
  <2>1. reg_task_count = 0 /\ 0 < MaxRegTasks /\ 0 \in Reg!Slots
    BY <1>1, RegConstants DEF Emitting
  <2>2. CASE item.reg = reg
    <3>1. item.times = 1
      BY <1>6, <2>2
    <3>2. indices2 \in [Reg!Slots -> Nat] /\ indices2[0] = Len(regs) + 1
      BY <1>8, <1>11, <2>1, <2>2, <3>1
    <3>3. Len(regs) + 1 \in (Len(regs) + 1)..Len(regs') /\ Len(regs) + 1 \in 1..Len(regs')
      BY <1>8, <3>1
    <3>4. regs'[Len(regs) + 1].reg = reg
      BY <1>8, <2>2, <3>3 DEF CommandOf
    <3> QED BY <3>2, <3>3, <3>4
  <2>3. CASE item.reg # reg
    <3>1. indices2 = indices
      BY <1>11, <2>3
    <3>2. 1..Len(regs) \subseteq 1..Len(regs')
      BY <1>6, <1>8
    <3> QED BY <1>8, <1>11, <3>1, <3>2 DEF Noted
  <2> QED BY <2>2, <2>3
<1>12. /\ reg_pc_base' \in [Reg!Slots -> Nat] /\ Noted(reg_pc_base, "BASE_ADDRESS")'
  <2>1. reg_pc_base' = Updated(reg_pc_base, "BASE_ADDRESS")
    BY DEF Reg!EmitRaw, item
  <2>2. "BASE_ADDRESS" \in ChainRegisters /\ reg_pc_base \in [Reg!Slots -> Nat]
        /\ Noted(reg_pc_base, "BASE_ADDRESS")
    BY <1>1 DEF ChainRegisters, RegTyped, Emitting
  <2> HIDE DEF Updated
  <2> QED BY <1>11, <2>1, <2>2 DEF Noted
<1>13. /\ reg_pc_amount' \in [Reg!Slots -> Nat] /\ Noted(reg_pc_amount, "REGISTER_AMOUNTS")'
  <2>1. reg_pc_amount' = Updated(reg_pc_amount, "REGISTER_AMOUNTS")
    BY DEF Reg!EmitRaw, item
  <2>2. "REGISTER_AMOUNTS" \in ChainRegisters /\ reg_pc_amount \in [Reg!Slots -> Nat]
        /\ Noted(reg_pc_amount, "REGISTER_AMOUNTS")
    BY <1>1 DEF ChainRegisters, RegTyped, Emitting
  <2> HIDE DEF Updated
  <2> QED BY <1>11, <2>1, <2>2 DEF Noted
<1>14. IsSequence(regs') /\ Len(regs') <= MostCommands + 7
  <2>1. k + 1 \in 0..Len(b)
    BY <1>3, <1>5
  <2>2. IsSequence(Recorded(b, k + 1)) /\ Len(Recorded(b, k + 1)) \in 0..MostCommands
    BY <1>3, <2>1
  <2> QED BY <1>8, <2>2, RegConstants
<1>15. RegTyped'
  BY <1>1, <1>9, <1>12, <1>13, <1>14 DEF RegTyped
<1>16. Emitting'
  <2>1. k + 1 \in 0..Len(Recording')
    BY <1>3, <1>5, <1>9 DEF b
  <2>2. \E j \in 0..Len(Recording') : Emitted(j)'
    BY <1>10, <2>1
  <2> QED BY <1>1, <1>9, <1>12, <1>13, <2>2 DEF Emitting
<1> QED BY <1>1, <1>9, <1>15, <1>16 DEF RegInv


(* What is known of the block being recorded.                              *)
LEMMA OfRecording ==
  ASSUME RegTyped, reg_pc # "idle"
  PROVE  /\ IsSequence(Finished) /\ Len(Finished) \in 0..MostCommands
         /\ \A i \in 1..Len(Finished) :
              RecordedOk(UnitsOf(current_alu_algorithm), WriterOf(current_alu_algorithm),
                         current_alu_algorithm \in Blocks, Finished[i])
         /\ \E j \in 1..Len(Finished) : Enablers(Finished) = {j}
         /\ Reg!Commands(Recording) = Finished /\ Len(Recording) \in Nat \ {0}
<1>1. current_alu_algorithm \in Nat
  BY RegConstants DEF RegTyped
<1>2. Len(Recording) \in Nat \ {0}
  BY <1>1, BlockRecorded DEF Recording
<1>3. Len(Recording) \in 0..Len(Recording)
  BY <1>2
<1> QED BY <1>1, <1>2, <1>3, BlockRecorded DEF Finished, Recording

LEMMA PadLength ==
  ASSUME NEW m \in Nat
  PROVE  /\ (8 - (m % 8)) % 8 \in 0..7 /\ (m + ((8 - (m % 8)) % 8)) % 8 = 0
<1>1. m % 8 \in 0..7 /\ m = 8 * (m \div 8) + (m % 8) /\ m \div 8 \in Nat
  OBVIOUS
<1> DEFINE r == m % 8
           d == m \div 8
<1>2. r \in 0..7 /\ m = 8 * d + r /\ d \in Nat
  BY <1>1
<1> HIDE DEF r, d
<1>3. CASE r = 0
  BY <1>2, <1>3 DEF r
<1>4. CASE r # 0
  <2>1. (8 - r) % 8 = 8 - r
    BY <1>2, <1>4
  <2>2. m + (8 - r) = 8 * (d + 1)
    BY <1>2
  <2>3. (8 * (d + 1)) % 8 = 0
    BY <1>2
  <2> QED BY <1>2, <1>4, <2>1, <2>2, <2>3 DEF r
<1> QED BY <1>3, <1>4

LEMMA RegFinish ==
  ASSUME process = "regcmd", process' = process, RegInv, Reg!FinishCurrentTask
  PROVE  RegInv'
<1> DEFINE padding == (8 - (Len(regs) % 8)) % 8
<1>1. RegTyped /\ Emitting /\ reg_pc = "emit" /\ todo = <<>>
  BY DEF RegInv, Reg!FinishCurrentTask
<1>2. /\ IsSequence(Finished) /\ Len(Finished) \in 0..MostCommands
      /\ \A i \in 1..Len(Finished) :
           RecordedOk(UnitsOf(current_alu_algorithm), WriterOf(current_alu_algorithm),
                      current_alu_algorithm \in Blocks, Finished[i])
      /\ Len(Recording) \in Nat \ {0}
  BY <1>1, OfRecording
<1>3. regs = Finished
  <2>1. PICK k \in 0..Len(Recording) : Emitted(k)
    BY <1>1 DEF Emitting
  <2>2. k = Len(Recording)
    BY <1>1, <1>2, <2>1, NoCommands DEF Emitted
  <2> QED BY <2>1, <2>2 DEF Emitted, Finished
<1>4. padding \in 0..7 /\ (Len(regs) + padding) % 8 = 0
  BY <1>2, <1>3, PadLength
<1>5. /\ reg_pc' = "patch" /\ current_alu_algorithm' = current_alu_algorithm
      /\ reg_task_count' = 1 /\ reg_pc_base' = reg_pc_base /\ reg_pc_amount' = reg_pc_amount
      /\ tasks' = tasks /\ flags' = flags
      /\ regs' = regs \o Filled(padding, Reg!Pad)
      /\ reg_task_lengths' = [reg_task_lengths EXCEPT ![0] = Len(regs)]
      /\ reg_task_offsets' = [reg_task_offsets EXCEPT ![1] = Len(regs')]
  <2>1. reg_task_count = 0 /\ reg_task_offsets[0] = 0 /\ Len(regs) - 0 = Len(regs)
    BY <1>1, <1>2, <1>3 DEF Emitting
  <2> QED BY <2>1 DEF Reg!FinishCurrentTask, Filled
<1> HIDE DEF padding
<1>6. /\ IsSequence(regs') /\ Len(regs') = Len(regs) + padding /\ Len(regs) \in Nat
      /\ \A i \in 1..Len(regs) : regs'[i] = regs[i]
      /\ \A i \in (Len(regs) + 1)..Len(regs') : regs'[i] = Reg!Pad
  <2>1. padding \in Nat /\ IsSequence(regs)
    BY <1>2, <1>3, <1>4
  <2> QED BY <1>5, <2>1, Repeated
<1>7. Len(regs') \in Nat /\ Len(regs') <= MostCommands + 7 /\ Len(regs') >= Len(regs)
      /\ Len(regs') % 8 = 0
  BY <1>2, <1>3, <1>4, <1>6, RegConstants
<1>8. RegTyped'
  <2>1. reg_task_offsets' \in [0..MaxRegTasks -> Nat]
    BY <1>1, <1>5, <1>7, RegConstants DEF RegTyped
  <2>2. reg_task_lengths' \in [Reg!Slots -> Nat]
    BY <1>1, <1>5, <1>6, RegConstants DEF RegTyped
  <2> QED BY <1>1, <1>5, <1>6, <1>7, <2>1, <2>2, RegConstants DEF RegTyped
<1>9. Finished' = Finished
  BY <1>5 DEF Finished, Recording, Reg!Block
<1>10. Behind'
  <2>1. ASSUME NEW i \in 1..Len(Finished) PROVE Kept(i)'
    <3>1. regs'[i] = Finished[i]
      BY <1>3, <1>6
    <3>2. RecordedOk(UnitsOf(current_alu_algorithm), WriterOf(current_alu_algorithm),
                     current_alu_algorithm \in Blocks, regs'[i])
      BY <1>2, <3>1
    <3>3. regs'[i] = CommandOf(regs'[i]) /\ (regs'[i].reg = "BASE_ADDRESS" => regs'[i].val = <<0>>)
      BY <3>2 DEF RecordedOk, CommandFits
    <3> QED BY <1>9, <3>1, <3>3 DEF Kept
  <2>2. reg_task_lengths'[0] = Len(Finished)
    BY <1>1, <1>3, <1>5, RegConstants DEF RegTyped
  <2>3. reg_task_offsets'[0] = 0
    BY <1>1, <1>5, RegConstants DEF RegTyped, Emitting
  <2> QED BY <1>3, <1>5, <1>6, <1>7, <1>9, <2>1, <2>2, <2>3 DEF Behind
<1>11. Noted(reg_pc_base, "BASE_ADDRESS")' /\ Noted(reg_pc_amount, "REGISTER_AMOUNTS")'
  <2>1. 1..Len(regs) \subseteq 1..Len(regs')
    BY <1>6, <1>7
  <2> QED BY <1>1, <1>5, <1>6, <2>1 DEF Emitting, Noted
<1> QED BY <1>5, <1>8, <1>10, <1>11 DEF RegInv

(* A command with another value.                                           *)
Revalued(c, v) == [unit |-> c.unit, reg |-> c.reg, val |-> v]

LEMMA RevaluedIs ==
  ASSUME NEW c, NEW v
  PROVE  /\ Revalued(c, v).unit = c.unit /\ Revalued(c, v).reg = c.reg
         /\ Revalued(c, v).val = v /\ Revalued(c, v) = CommandOf(Revalued(c, v))
BY DEF Revalued, CommandOf

LEMMA Overwritten ==
  ASSUME NEW s, IsSequence(s), NEW index, NEW value,
         index = 0 \/ (index \in 1..Len(s) /\ s[index] = CommandOf(s[index]))
  PROVE  LET t == Reg!Overwrite(s, index, value)
         IN  /\ IsSequence(t) /\ Len(t) = Len(s)
             /\ \A i \in 1..Len(s) :
                  t[i] = s[i] \/ (i = index /\ t[i] = Revalued(s[i], <<value>>))
<1> DEFINE t == Reg!Overwrite(s, index, value)
<1>1. Len(s) \in Nat /\ DOMAIN s = 1..Len(s)
  BY Sequence
<1>2. CASE index = 0
  <2>1. t = s
    BY <1>1, <1>2 DEF Reg!Overwrite
  <2> QED BY <2>1
<1>3. CASE index # 0
  <2>1. index \in DOMAIN s /\ s[index] = CommandOf(s[index])
    BY <1>1, <1>3
  <2>2. t = WithValue(s, index, <<value>>)
    BY <2>1 DEF Reg!Overwrite, WithValue
  <2> HIDE DEF t
  <2>3. /\ IsSequence(t) /\ Len(t) = Len(s)
        /\ \A j \in 1..Len(s) : j # index => t[j] = s[j]
        /\ t[index] = [s[index] EXCEPT !.val = <<value>>]
    BY <2>1, <2>2, Changed
  <2>4. t[index] = Revalued(s[index], <<value>>)
    <3>1. [CommandOf(s[index]) EXCEPT !.val = <<value>>] = Revalued(s[index], <<value>>)
      BY DEF CommandOf, Revalued
    <3> QED BY <2>1, <2>3, <3>1
  <2> QED BY <2>1, <2>3, <2>4 DEF t
<1> QED BY <1>2, <1>3


LEMMA RegPatch ==
  ASSUME process = "regcmd", process' = process, RegInv, Reg!PatchChain
  PROVE  RegInv'
<1> DEFINE s == Reg!Overwrite(regs, reg_pc_base[0], 0)
           last == reg_task_lengths[0]
           t == Reg!Overwrite(s, reg_pc_amount[0], last)
<1>1. /\ RegTyped /\ Behind /\ reg_pc = "patch"
      /\ Noted(reg_pc_base, "BASE_ADDRESS") /\ Noted(reg_pc_amount, "REGISTER_AMOUNTS")
  BY DEF RegInv, Reg!PatchChain
<1>2. IsSequence(Finished) /\ Len(Finished) \in Nat /\ IsSequence(regs) /\ Len(regs) \in Nat
  BY <1>1, OfRecording, Sequence DEF RegTyped
<1>3. regs' = t
  <2>1. reg_task_count = 1 /\ Reg!NextTask(0) = 0
    BY <1>1 DEF Behind, Reg!NextTask
  <2> QED BY <2>1, Patched
<1>4. /\ reg_pc' = "table" /\ current_alu_algorithm' = current_alu_algorithm
      /\ reg_task_count' = reg_task_count /\ reg_task_offsets' = reg_task_offsets
      /\ reg_task_lengths' = reg_task_lengths /\ reg_pc_base' = reg_pc_base
      /\ reg_pc_amount' = reg_pc_amount /\ tasks' = tasks /\ flags' = flags
  BY DEF Reg!PatchChain, Reg!tracking
<1>5. ASSUME NEW i \in 1..Len(regs) PROVE regs[i] = CommandOf(regs[i])
  <2>1. CASE i \in 1..Len(Finished)
    BY <1>1, <2>1 DEF Behind, Kept
  <2>2. CASE i \notin 1..Len(Finished)
    <3>1. i \in (Len(Finished) + 1)..Len(regs)
      BY <1>2, <2>2
    <3>2. regs[i] = Reg!Pad
      BY <1>1, <3>1 DEF Behind
    <3> QED BY <3>2 DEF Reg!Pad, CommandOf
  <2> QED BY <2>1, <2>2
<1>6. /\ IsSequence(s) /\ Len(s) = Len(regs)
      /\ \A i \in 1..Len(regs) :
           s[i] = regs[i] \/ (regs[i].reg = "BASE_ADDRESS" /\ s[i] = Revalued(regs[i], <<0>>))
  <2> DEFINE index == reg_pc_base[0]
  <2>1. \/ index = 0
        \/ /\ index \in 1..Len(regs) /\ regs[index].reg = "BASE_ADDRESS"
           /\ regs[index] = CommandOf(regs[index])
    BY <1>1, <1>5 DEF Noted
  <2> HIDE DEF index
  <2>2. LET u == Reg!Overwrite(regs, index, 0)
        IN  /\ IsSequence(u) /\ Len(u) = Len(regs)
            /\ \A i \in 1..Len(regs) :
                 u[i] = regs[i] \/ (i = index /\ u[i] = Revalued(regs[i], <<0>>))
    BY <1>2, <2>1, Overwritten
  <2> QED BY <2>1, <2>2 DEF index
<1> HIDE DEF s
<1>7. \A i \in 1..Len(regs) : s[i].reg = regs[i].reg /\ s[i] = CommandOf(s[i])
  <2> SUFFICES ASSUME NEW i \in 1..Len(regs)
               PROVE  s[i].reg = regs[i].reg /\ s[i] = CommandOf(s[i])
    OBVIOUS
  <2>1. CASE s[i] = regs[i]
    BY <1>5, <2>1
  <2>2. CASE s[i] = Revalued(regs[i], <<0>>)
    BY <2>2, RevaluedIs
  <2> QED BY <1>6, <2>1, <2>2
<1>8. /\ IsSequence(t) /\ Len(t) = Len(regs)
      /\ \A i \in 1..Len(regs) :
           t[i] = s[i] \/ (s[i].reg = "REGISTER_AMOUNTS" /\ t[i] = Revalued(s[i], <<last>>))
  <2> DEFINE index == reg_pc_amount[0]
  <2>1. \/ index = 0
        \/ /\ index \in 1..Len(s) /\ s[index].reg = "REGISTER_AMOUNTS"
           /\ s[index] = CommandOf(s[index])
    BY <1>1, <1>6, <1>7 DEF Noted
  <2> HIDE DEF index, last
  <2>2. LET u == Reg!Overwrite(s, index, last)
        IN  /\ IsSequence(u) /\ Len(u) = Len(s)
            /\ \A i \in 1..Len(s) :
                 u[i] = s[i] \/ (i = index /\ u[i] = Revalued(s[i], <<last>>))
    BY <1>6, <2>1, Overwritten
  <2> QED BY <1>6, <2>1, <2>2 DEF index
<1> HIDE DEF t, last
<1>9. RegTyped'
  BY <1>1, <1>3, <1>4, <1>8 DEF RegTyped
<1>10. Finished' = Finished
  BY <1>4 DEF Finished, Recording, Reg!Block
<1>11. ASSUME NEW i \in 1..Len(Finished) PROVE Kept(i)'
  <2>1. i \in 1..Len(regs) /\ Kept(i)
    BY <1>1, <1>2 DEF Behind
  <2>2. /\ s[i].unit = regs[i].unit /\ s[i].reg = regs[i].reg
        /\ s[i].reg = "BASE_ADDRESS" => s[i].val = <<0>>
        /\ s[i] = regs[i] \/ s[i].reg = "BASE_ADDRESS"
    <3>1. CASE s[i] = regs[i]
      BY <2>1, <3>1 DEF Kept
    <3>2. CASE regs[i].reg = "BASE_ADDRESS" /\ s[i] = Revalued(regs[i], <<0>>)
      BY <3>2, RevaluedIs
    <3> QED BY <1>6, <2>1, <3>1, <3>2
  <2>3. /\ t[i].unit = s[i].unit /\ t[i].reg = s[i].reg /\ t[i] = CommandOf(t[i])
        /\ t[i] = s[i] \/ t[i].reg = "REGISTER_AMOUNTS"
    <3>1. CASE t[i] = s[i]
      BY <1>7, <2>1, <3>1
    <3>2. CASE s[i].reg = "REGISTER_AMOUNTS" /\ t[i] = Revalued(s[i], <<last>>)
      BY <3>2, RevaluedIs
    <3> QED BY <1>8, <2>1, <3>1, <3>2
  <2>4. /\ t[i].unit = regs[i].unit /\ t[i].reg = regs[i].reg
        /\ t[i].reg = "BASE_ADDRESS" => t[i].val = <<0>>
        /\ t[i] = regs[i] \/ t[i].reg \in ChainRegisters
    BY <2>2, <2>3 DEF ChainRegisters
  <2> QED BY <1>3, <1>10, <2>1, <2>3, <2>4 DEF Kept
<1>12. ASSUME NEW i \in (Len(Finished) + 1)..Len(regs) PROVE t[i] = Reg!Pad
  <2>1. i \in 1..Len(regs) /\ regs[i] = Reg!Pad
    BY <1>1, <1>2 DEF Behind
  <2>2. regs[i].reg = "pad"
    BY <2>1 DEF Reg!Pad
  <2> QED BY <1>6, <1>7, <1>8, <2>1, <2>2
<1>13. Behind'
  BY <1>1, <1>3, <1>4, <1>8, <1>10, <1>11, <1>12 DEF Behind
<1> QED BY <1>4, <1>9, <1>13 DEF RegInv

LEMMA RegTable ==
  ASSUME process = "regcmd", process' = process, RegInv, Reg!FillTasks
  PROVE  RegInv'
<1> DEFINE task == [interrupt |-> WriterOf(current_alu_algorithm),
                    regcfg_amount |-> Len(Finished), regcfg_offset |-> 0]
<1>1. RegTyped /\ Behind /\ reg_pc = "table" /\ reg_pc' = "built"
  BY DEF RegInv, Reg!FillTasks
<1>2. /\ current_alu_algorithm' = current_alu_algorithm /\ todo' = todo /\ regs' = regs
      /\ reg_task_count' = reg_task_count /\ reg_task_offsets' = reg_task_offsets
      /\ reg_task_lengths' = reg_task_lengths /\ reg_pc_base' = reg_pc_base
      /\ reg_pc_amount' = reg_pc_amount /\ flags' = flags
  BY DEF Reg!FillTasks, Reg!tracking
<1>3. Finished' = Finished /\ WriterOf(current_alu_algorithm)' = WriterOf(current_alu_algorithm)
  BY <1>2 DEF Finished, Recording, Reg!Block, WriterOf
<1>4. tasks' = [t \in 1..1 |-> task]
  <2>1. current_alu_algorithm \in Nat
    BY <1>1, RegConstants DEF RegTyped
  <2>2. WriterOf(current_alu_algorithm) = IF Reg!Pooling THEN "PPU" ELSE "DPU"
    BY <2>1 DEF WriterOf, Reg!Pooling
  <2>3. reg_task_count = 1 /\ reg_task_lengths[0] = Len(Finished) /\ reg_task_offsets[0] = 0
    BY <1>1 DEF Behind
  <2> DEFINE row(t) ==
         LET is_small == current_alu_algorithm = 13 /\ (t - 1) % 2 = 0 /\ t # 1
         IN  [interrupt |-> IF is_small \/ Reg!Pooling THEN "PPU" ELSE "DPU",
              regcfg_amount |-> reg_task_lengths[t - 1],
              regcfg_offset |-> reg_task_offsets[t - 1] * 8]
  <2>4. tasks' = [t \in 1..reg_task_count |-> row(t)]
    BY DEF Reg!FillTasks
  <2>5. \A t \in 1..1 : row(t) = task
    BY <2>2, <2>3
  <2> HIDE DEF row, task
  <2> QED BY <2>3, <2>4, <2>5
<1>5. \A t \in DOMAIN tasks' : tasks'[t].interrupt \in {"DPU", "PPU"}
  BY <1>4 DEF WriterOf
<1>6. RegTyped'
  BY <1>1, <1>2, <1>5 DEF RegTyped
<1>7. Behind'
  BY <1>1, <1>2, <1>3 DEF Behind, Kept
<1> QED BY <1>1, <1>3, <1>4, <1>6, <1>7 DEF RegInv

LEMMA RegSubmit ==
  ASSUME process = "regcmd", process' = process, RegInv, Reg!SubmitTask
  PROVE  RegInv'
<1>1. /\ RegTyped /\ reg_pc' = "idle" /\ flags' \subseteq {"PC", "BLOCK", "PINGPONG"}
      /\ current_alu_algorithm' = current_alu_algorithm /\ regs' = regs
      /\ reg_task_count' = reg_task_count /\ reg_task_offsets' = reg_task_offsets
      /\ reg_task_lengths' = reg_task_lengths /\ reg_pc_base' = reg_pc_base
      /\ reg_pc_amount' = reg_pc_amount /\ tasks' = tasks
  BY DEF RegInv, Reg!SubmitTask, Reg!tracking
<1>2. RegTyped'
  BY <1>1 DEF RegTyped
<1> QED BY <1>1, <1>2 DEF RegInv

LEMMA RegSame ==
  ASSUME process = "regcmd", process' = process, RegInv, UNCHANGED regVars
  PROVE  RegInv'
<1>1. /\ reg_pc' = reg_pc /\ current_alu_algorithm' = current_alu_algorithm /\ todo' = todo
      /\ regs' = regs /\ reg_task_count' = reg_task_count
      /\ reg_task_offsets' = reg_task_offsets /\ reg_task_lengths' = reg_task_lengths
      /\ reg_pc_base' = reg_pc_base /\ reg_pc_amount' = reg_pc_amount /\ tasks' = tasks
      /\ flags' = flags
  BY DEF regVars
<1>2. Recording' = Recording
  BY <1>1 DEF Recording, Reg!Block
<1>3. Finished' = Finished /\ WriterOf(current_alu_algorithm)' = WriterOf(current_alu_algorithm)
  BY <1>1, <1>2 DEF Finished, WriterOf
<1>4. RegTyped => RegTyped'
  BY <1>1 DEF RegTyped
<1>5. Emitting => Emitting'
  <2>1. \A k : Emitted(k) => Emitted(k)'
    BY <1>1, <1>2 DEF Emitted
  <2> QED BY <1>1, <1>2, <2>1 DEF Emitting, Noted
<1>6. Behind => Behind'
  BY <1>1, <1>3 DEF Behind, Kept
<1> QED BY <1>1, <1>3, <1>4, <1>5, <1>6 DEF RegInv, Noted

LEMMA RegInvHolds == ConvolutionSpec => []RegInv
<1>1. ConvolutionInit => RegInv
  BY RegStart DEF RegInv
<1>2. RegInv /\ [ConvolutionNext]_<<process, vars, conv1dVars, regVars>> => RegInv'
  <2> SUFFICES ASSUME RegInv, [ConvolutionNext]_<<process, vars, conv1dVars, regVars>>,
                      process' = "regcmd"
               PROVE  RegInv'
    BY DEF RegInv
  <2>1. process = "regcmd" /\ process' = process
    BY DEF ConvolutionNext
  <2>2. Reg!Next \/ UNCHANGED regVars
    BY <2>1 DEF ConvolutionNext
  <2> QED BY <2>1, <2>2, RegCreate, RegEmit, RegFinish, RegPatch, RegTable, RegSubmit, RegSame
          DEF Reg!Next
<1> QED BY <1>1, <1>2, PTL DEF ConvolutionSpec


(* What a finished task looks like.                                        *)
LEMMA FinishedTask ==
  ASSUME process = "regcmd", RegInv, reg_pc = "built"
  PROVE  /\ Len(Finished) \in Nat /\ Len(regs) \in Nat /\ DOMAIN regs = 1..Len(regs)
         /\ Len(Finished) <= Len(regs) /\ Len(regs) % 8 = 0
         /\ \A i \in 1..Len(Finished) :
              /\ Kept(i)
              /\ CommandFits(UnitsOf(current_alu_algorithm), WriterOf(current_alu_algorithm),
                            current_alu_algorithm \in Blocks, Finished[i])
         /\ \A i \in (Len(Finished) + 1)..Len(regs) : regs[i] = Reg!Pad
         /\ \A i \in 1..Len(regs) : i \in 1..Len(Finished) \/ i \in (Len(Finished) + 1)..Len(regs)
         /\ \E j \in 1..Len(Finished) : Enablers(Finished) = {j}
<1>1. RegTyped /\ Behind /\ reg_pc # "idle"
  BY DEF RegInv
<1>2. /\ Len(Finished) \in Nat
      /\ \A i \in 1..Len(Finished) :
           RecordedOk(UnitsOf(current_alu_algorithm), WriterOf(current_alu_algorithm),
                      current_alu_algorithm \in Blocks, Finished[i])
      /\ \E j \in 1..Len(Finished) : Enablers(Finished) = {j}
  BY <1>1, OfRecording
<1>3. Len(regs) \in Nat /\ DOMAIN regs = 1..Len(regs)
  BY <1>1, Sequence DEF RegTyped
<1> QED BY <1>1, <1>2, <1>3 DEF Behind, RecordedOk

LEMMA UnitsStarted ==
  ASSUME process = "regcmd", RegInv, reg_pc = "built"
  PROVE  /\ \E j : Reg!Enables(1, Len(Finished)) = {j}
         /\ UNION {regs[i].val.on : i \in Reg!Enables(1, Len(regs))}
              = UnitsOf(current_alu_algorithm)
<1>1. PICK j \in 1..Len(Finished) : Enablers(Finished) = {j}
  BY FinishedTask
<1>2. \A i \in 1..Len(Finished) :
        /\ Kept(i)
        /\ CommandFits(UnitsOf(current_alu_algorithm), WriterOf(current_alu_algorithm),
                      current_alu_algorithm \in Blocks, Finished[i])
  BY FinishedTask
<1>3. /\ Len(Finished) \in Nat /\ Len(regs) \in Nat /\ Len(Finished) <= Len(regs)
      /\ \A i \in (Len(Finished) + 1)..Len(regs) : regs[i] = Reg!Pad
      /\ \A i \in 1..Len(regs) : i \in 1..Len(Finished) \/ i \in (Len(Finished) + 1)..Len(regs)
  BY FinishedTask
<1>4. \A i \in 1..Len(Finished) : regs[i].reg = "OPERATION_ENABLE" <=> i = j
  BY <1>1, <1>2 DEF Kept, Enablers
<1>5. \A i \in (Len(Finished) + 1)..Len(regs) : regs[i].reg # "OPERATION_ENABLE"
  BY <1>3 DEF Reg!Pad
<1>6. Reg!Enables(1, Len(Finished)) = {j}
  BY <1>1, <1>4 DEF Reg!Enables
<1>7. Reg!Enables(1, Len(regs)) = {j}
  BY <1>1, <1>3, <1>4, <1>5 DEF Reg!Enables
<1>8. regs[j].val.on = UnitsOf(current_alu_algorithm)
  BY <1>1, <1>2, <1>4 DEF Kept, ChainRegisters, CommandFits
<1> QED BY <1>6, <1>7, <1>8

(***************************************************************************)
(* TasksSound for every set of algorithms, the ones without a block of     *)
(* their own included, every size of the tables and of the task table, in  *)
(* any order of the ops: what an op left in the globals of the recorder    *)
(* does not reach the task table or the commands of the next.              *)
(***************************************************************************)
THEOREM TasksAreSound == ConvolutionSpec => []TasksSound
<1>1. RegInv => TasksSound
  <2> SUFFICES ASSUME RegInv, process = "regcmd"
               PROVE  /\ Reg!TypeOK /\ Reg!TasksCoverCommands /\ Reg!OnlyChainPatched
                      /\ Reg!ChainEnds /\ Reg!WaitsForOutputUnit
    BY DEF TasksSound
  <2>1. Reg!TypeOK
    BY DEF RegInv, RegTyped, Reg!TypeOK
  <2>2. CASE reg_pc # "built"
    BY <2>1, <2>2 DEF Reg!Built, Reg!TasksCoverCommands, Reg!OnlyChainPatched, Reg!ChainEnds,
                      Reg!WaitsForOutputUnit
  <2>3. CASE reg_pc = "built"
    <3> DEFINE task == [interrupt |-> WriterOf(current_alu_algorithm),
                        regcfg_amount |-> Len(Finished), regcfg_offset |-> 0]
               F == Len(Finished)
               L == Len(regs)
               Good(c) == CommandFits(UnitsOf(current_alu_algorithm),
                                      WriterOf(current_alu_algorithm),
                                      current_alu_algorithm \in Blocks, c)
    <3>1. /\ F \in Nat /\ L \in Nat /\ DOMAIN regs = 1..L /\ F <= L /\ L % 8 = 0
          /\ \A i \in 1..F : Kept(i) /\ Good(Finished[i])
          /\ \A i \in (F + 1)..L : regs[i] = Reg!Pad
          /\ \A i \in 1..L : i \in 1..F \/ i \in (F + 1)..L
      BY <2>3, FinishedTask
    <3>2. DOMAIN tasks = {1} /\ Len(tasks) = 1 /\ tasks # <<>> /\ tasks[1] = task
      <4>1. tasks = [t \in 1..1 |-> task]
        BY <2>3 DEF RegInv
      <4> HIDE DEF task
      <4>2. [t \in 1..1 |-> task] \in Seq({task}) /\ Len([t \in 1..1 |-> task]) = 1
            /\ DOMAIN [t \in 1..1 |-> task] = 1..1
        OBVIOUS
      <4>3. 1..1 = {1}
        OBVIOUS
      <4> QED BY <4>1, <4>2, <4>3
    <3>3. /\ task.interrupt = WriterOf(current_alu_algorithm)
          /\ task.regcfg_amount = F /\ task.regcfg_offset = 0
      OBVIOUS
    <3> HIDE DEF task, F, L, Good
    <3>4. \A i \in 1..F : regs[i].reg # "pad"
      BY <3>1 DEF Kept, Good, CommandFits
    <3>5. \A i \in (F + 1)..L : regs[i].reg = "pad" /\ regs[i].unit = "none"
      BY <3>1 DEF Reg!Pad
    <3>6. Reg!TasksCoverCommands
      <4>1. 0 \div 8 + 1 = 1 /\ (1 + F) - 1 = F /\ 0 % 64 = 0
        BY <3>1
      <4>2. Reg!Cardinality(Reg!Enables(1, F)) = 1
        <5>1. Cardinality(Reg!Enables(1, F)) = 1
          BY <2>3, UnitsStarted, FS_Singleton DEF F
        <5>2. Reg!Cardinality(Reg!Enables(1, F)) = Cardinality(Reg!Enables(1, F))
          BY DEF Reg!Cardinality, Cardinality
        <5> QED BY <5>1, <5>2
      <4>3. /\ tasks[1].regcfg_offset \div 8 + 1 = 1
            /\ tasks[1].regcfg_offset \div 8 + 1 + tasks[1].regcfg_amount - 1 = F
            /\ tasks[1].regcfg_offset % 64 = 0
        BY <3>1, <3>2, <3>3, <4>1
      <4>4. Len(regs) = L /\ L % 8 = 0 /\ F <= L
        BY <3>1 DEF L
      <4>5. ASSUME NEW t \in DOMAIN tasks
            PROVE  LET first == tasks[t].regcfg_offset \div 8 + 1
                       last == first + tasks[t].regcfg_amount - 1
                       end == IF t = Len(tasks) THEN Len(regs)
                              ELSE tasks[t + 1].regcfg_offset \div 8
                   IN  /\ tasks[t].regcfg_offset % 64 = 0 /\ end % 8 = 0
                       /\ last <= end
                       /\ \A i \in first..last : regs[i].reg # "pad"
                       /\ \A i \in (last + 1)..end : regs[i].reg = "pad"
                       /\ Reg!Cardinality(Reg!Enables(first, last)) = 1
        <5> DEFINE first == tasks[t].regcfg_offset \div 8 + 1
                   last == first + tasks[t].regcfg_amount - 1
                   end == IF t = Len(tasks) THEN Len(regs)
                          ELSE tasks[t + 1].regcfg_offset \div 8
        <5>1. t = 1 /\ t = Len(tasks)
          BY <3>2
        <5>2. first = 1 /\ last = F /\ end = L
          BY <5>1, <4>3, <4>4
        <5> HIDE DEF first, last, end
        <5>3. /\ tasks[t].regcfg_offset % 64 = 0 /\ end % 8 = 0
              /\ last <= end
              /\ \A i \in first..last : regs[i].reg # "pad"
              /\ \A i \in (last + 1)..end : regs[i].reg = "pad"
              /\ Reg!Cardinality(Reg!Enables(first, last)) = 1
          BY <3>4, <3>5, <4>2, <4>3, <4>4, <5>1, <5>2
        <5> QED BY <5>3 DEF first, last, end
      <4>6. tasks # <<>> /\ tasks[1].regcfg_offset = 0
        BY <3>2, <3>3
      <4> QED BY <4>5, <4>6 DEF Reg!TasksCoverCommands
    <3>7. Reg!OnlyChainPatched
      <4>1. /\ Reg!Commands(Reg!Block(current_alu_algorithm)) = Finished
            /\ DOMAIN Finished = 1..F
        <5>1. RegTyped
          BY DEF RegInv
        <5> QED BY <2>3, <5>1, OfRecording, Sequence DEF Recording, F
      <4>2. \A i \in 1..F :
              /\ regs[i].reg = Finished[i].reg /\ regs[i].unit = Finished[i].unit
              /\ regs[i].reg \in {"BASE_ADDRESS", "REGISTER_AMOUNTS"} \/ regs[i] = Finished[i]
        BY <3>1 DEF Kept, ChainRegisters
      <4> QED BY <4>1, <4>2 DEF Reg!OnlyChainPatched
    <3>8. Reg!ChainEnds
      <4> SUFFICES ASSUME NEW i \in 1..L, regs[i].reg = "BASE_ADDRESS"
                   PROVE  \E t \in DOMAIN tasks :
                            /\ tasks[t].regcfg_offset \div 8 < i
                            /\ i <= tasks[t].regcfg_offset \div 8 + tasks[t].regcfg_amount
                            /\ regs[i].val = IF t = Len(tasks) THEN <<0>>
                                             ELSE <<tasks[t + 1].regcfg_offset>>
        BY <3>1 DEF Reg!ChainEnds
      <4>1. i \in 1..F
        BY <3>1, <3>5
      <4>2. regs[i].val = <<0>>
        BY <3>1, <4>1 DEF Kept
      <4>3. 0 \div 8 < i /\ i <= 0 \div 8 + F
        BY <3>1, <4>1
      <4> QED BY <3>2, <3>3, <4>2, <4>3
    <3>9. Reg!WaitsForOutputUnit
      <4>1. ASSUME NEW i \in 1..L
            PROVE  /\ regs[i].reg = "DST_BASE_ADDR"
                        => regs[i].unit = WriterOf(current_alu_algorithm)
                   /\ regs[i].unit \notin {"PC", "none"}
                        => regs[i].unit \in UnitsOf(current_alu_algorithm)
        <5>1. CASE i \in 1..F
          BY <3>1, <5>1 DEF Kept, Good, CommandFits
        <5>2. CASE i \in (F + 1)..L
          BY <3>5, <5>2
        <5> QED BY <3>1, <5>1, <5>2
      <4> QED BY <2>3, <3>1, <3>2, <3>3, <4>1, UnitsStarted DEF Reg!WaitsForOutputUnit
    <3> QED BY <2>1, <3>6, <3>7, <3>8, <3>9
  <2> QED BY <2>2, <2>3
<1> QED BY <1>1, RegInvHolds, PTL

(***************************************************************************)
(* CommandsApart where the tables fit the reserve, for the algorithms that *)
(* have a block: the one block of the others reads an operand from the     *)
(* front of the weights buffer, where the commands are.                    *)
(***************************************************************************)
THEOREM CommandsLieApart ==
  ASSUME Algorithms \subseteq Blocks, 8 * (2 * LutEntries + 55) <= Reserved
  PROVE  ConvolutionSpec => []CommandsApart
<1>1. RegInv => CommandsApart
  <2> SUFFICES ASSUME RegInv, process = "regcmd"
               PROVE  Reg!CommandsInReserve /\ Reg!OperandsBesideCommands
    BY DEF CommandsApart
  <2>1. Len(regs) \in Nat /\ Len(regs) * 8 <= Reserved /\ Reserved \in Nat
    <3>1. Len(regs) \in Nat /\ Len(regs) <= MostCommands + 7
      BY Sequence DEF RegInv, RegTyped
    <3>2. LutEntries \in Nat /\ Reserved \in Nat
      BY RecorderAssumption DEF Reg!RegAssumption
    <3> QED BY <3>1, <3>2 DEF MostCommands
  <2>2. ASSUME reg_pc = "built", NEW i \in 1..Len(regs), regs[i].reg \in OperandRegisters
        PROVE  regs[i].val.buf = "input" \/ regs[i].val.at >= Len(regs) * 8
    <3>1. current_alu_algorithm \in Blocks
      BY <2>2 DEF RegInv, RegTyped
    <3>2. i \in 1..Len(Finished)
      BY <2>2, FinishedTask DEF Reg!Pad, OperandRegisters
    <3>3. regs[i] = Finished[i] /\ regs[i].reg = Finished[i].reg
      BY <2>2, <3>2, FinishedTask DEF Kept, ChainRegisters, OperandRegisters
    <3>4. \/ regs[i].val.buf = "input"
          \/ regs[i].val.at \in Nat /\ regs[i].val.at >= Reserved
      BY <2>2, <3>1, <3>2, <3>3, FinishedTask DEF CommandFits
    <3> QED BY <2>1, <3>4
  <2>3. DOMAIN regs = 1..Len(regs)
    BY Sequence DEF RegInv, RegTyped
  <2> QED BY <2>1, <2>2, <2>3
          DEF Reg!CommandsInReserve, Reg!OperandsBesideCommands, Reg!Built, OperandRegisters
<1> QED BY <1>1, RegInvHolds, PTL
=============================================================================
