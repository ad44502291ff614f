--------------------------- MODULE MCMatmul_proofs ---------------------------
(***************************************************************************)
(* The tiled matmul, for every shape, layout and device: first the loops   *)
(* of rknpu_matmul_run as MatmulSplit has them, whose partial products add *)
(* up to the product, then the packers and the layouts of the tensors they *)
(* work on.                                                                *)
(***************************************************************************)
EXTENDS MCMatmul, IndexArithmetic, SequenceTheorems, FiniteSetTheorems, TLAPS

(* align_up_int returns a multiple of Align, less than Align above.        *)
LEMMA AlignUpMultiple ==
  ASSUME NEW x \in Nat
  PROVE  \E q \in Nat, r \in 0..(Align - 1) :
           x + Align - 1 = q * Align + r /\ AlignUp(x) = q * Align
<1>1. Align \in Nat \ {0} /\ x + Align - 1 \in Nat
  BY TileAssumption
<1> DEFINE q == (x + Align - 1) \div Align
           r == (x + Align - 1) % Align
<1>2. q \in Nat /\ r \in 0..(Align - 1) /\ x + Align - 1 = q * Align + r
  BY <1>1, DivMod
<1> QED BY <1>2 DEF AlignUp

LEMMA AlignUpFacts ==
  ASSUME NEW x \in Nat
  PROVE  AlignUp(x) \in Nat /\ x <= AlignUp(x) /\ (x > 0 => AlignUp(x) > 0)
<1>1. PICK q \in Nat, r \in 0..(Align - 1) :
           x + Align - 1 = q * Align + r /\ AlignUp(x) = q * Align
  BY AlignUpMultiple
<1>2. Align \in Nat \ {0} /\ q * Align \in Nat
  BY TileAssumption, MulNext
<1> QED BY <1>1, <1>2

LEMMA AlignUpMonotone ==
  ASSUME NEW x \in Nat, NEW y \in Nat, x <= y
  PROVE  AlignUp(x) <= AlignUp(y)
<1>1. PICK p \in Nat, r \in 0..(Align - 1) :
           x + Align - 1 = p * Align + r /\ AlignUp(x) = p * Align
  BY AlignUpMultiple
<1>2. PICK q \in Nat, s \in 0..(Align - 1) :
           y + Align - 1 = q * Align + s /\ AlignUp(y) = q * Align
  BY AlignUpMultiple
<1>3. Align \in Nat \ {0}
  BY TileAssumption
<1>4. p <= q
  <2> SUFFICES ASSUME q + 1 <= p PROVE FALSE
    OBVIOUS
  <2>1. (q + 1) * Align <= p * Align
    BY <1>3, MulMonotone
  <2>2. (q + 1) * Align = q * Align + Align /\ q * Align \in Nat /\ p * Align \in Nat
    BY <1>3, MulNext
  <2> QED BY <1>1, <1>2, <1>3, <2>1, <2>2
<1>5. p * Align <= q * Align
  BY <1>3, <1>4, MulMonotone
<1> QED BY <1>1, <1>2, <1>5

(* The largest tile is aligned already.                                    *)
LEMMA AlignUpMaxTile == AlignUp(MaxTile) = MaxTile
<1>1. Align \in Nat \ {0} /\ MaxTile \in Nat /\ MaxTile % Align = 0
  BY TileAssumption
<1>2. PICK d \in Nat : MaxTile = d * Align
  <2>1. /\ MaxTile \div Align \in Nat
        /\ MaxTile = (MaxTile \div Align) * Align + (MaxTile % Align)
    BY <1>1, DivMod
  <2>2. (MaxTile \div Align) * Align \in Nat
    BY <1>1, <2>1, MulNext
  <2>3. MaxTile = (MaxTile \div Align) * Align
    BY <1>1, <2>1, <2>2
  <2> QED BY <2>1, <2>3
<1>3. PICK q \in Nat, r \in 0..(Align - 1) :
           MaxTile + Align - 1 = q * Align + r /\ AlignUp(MaxTile) = q * Align
  BY <1>1, AlignUpMultiple
<1>4. d <= q
  <2> SUFFICES ASSUME q + 1 <= d PROVE FALSE
    OBVIOUS
  <2>1. (q + 1) * Align <= d * Align
    BY <1>1, MulMonotone
  <2>2. (q + 1) * Align = q * Align + Align /\ q * Align \in Nat
    BY <1>1, MulNext
  <2> QED BY <1>1, <1>2, <1>3, <2>1, <2>2
<1>5. q <= d
  <2> SUFFICES ASSUME d + 1 <= q PROVE FALSE
    OBVIOUS
  <2>1. (d + 1) * Align <= q * Align
    BY <1>1, MulMonotone
  <2>2. (d + 1) * Align = d * Align + Align /\ q * Align \in Nat
    BY <1>1, MulNext
  <2> QED BY <1>1, <1>2, <1>3, <2>1, <2>2
<1>6. q = d
  BY <1>4, <1>5
<1> QED BY <1>2, <1>3, <1>6

(***************************************************************************)
(* matmul_max_m_tile: unless it falls back to one row, that many rows fit  *)
(* the banks left for data; and one row always fits.                       *)
(***************************************************************************)
LEMMA MaxRowsFit ==
  ASSUME NEW k \in Nat \ {0}
  PROVE  /\ MaxRows(k) \in Nat \ {0}
         /\ \A w \in Nat \ {0}, m \in Nat :
              w <= k /\ w <= MaxTile /\ m <= MaxRows(k)
                => InputBytes(m, w) <= (Banks - 2) * BankSize
<1> DEFINE e == IF k > MaxTile THEN MaxTile ELSE k
           row == 2 * AlignUp(e)
           budget == (Banks - 2) * BankSize
           fit == budget \div row
<1>1. MaxTile \in Nat \ {0} /\ 2 * MaxTile <= budget /\ budget \in Int
  BY TileAssumption
<1>2. budget \in Nat
  BY <1>1
<1>3. e \in Nat \ {0} /\ e <= MaxTile
  BY <1>1
<1>4. AlignUp(e) \in Nat \ {0} /\ AlignUp(e) <= MaxTile
  BY <1>1, <1>3, AlignUpFacts, AlignUpMonotone, AlignUpMaxTile
<1>5. row \in Nat \ {0} /\ row <= budget
  BY <1>1, <1>4
<1>6. InputBytes(1, e) = row
  BY <1>4 DEF InputBytes
<1> HIDE DEF budget, row
<1>7. fit \in Nat /\ fit * row <= budget
  BY <1>2, <1>5, DivMod
<1>8. MaxRows(k) = IF fit < 1 THEN 1 ELSE fit
  BY <1>6 DEF MaxRows, budget
<1> HIDE DEF fit, e
<1>9. MaxRows(k) \in Nat \ {0} /\ MaxRows(k) * row <= budget
  BY <1>2, <1>5, <1>7, <1>8
<1>10. ASSUME NEW w \in Nat \ {0}, NEW m \in Nat,
              w <= k, w <= MaxTile, m <= MaxRows(k)
       PROVE  InputBytes(m, w) <= budget
  <2>1. w <= e
    BY <1>10 DEF e
  <2>2. 2 * AlignUp(w) <= row /\ AlignUp(w) \in Nat
    BY <1>3, <2>1, AlignUpFacts, AlignUpMonotone, <1>4 DEF row
  <2>3. (2 * AlignUp(w)) * m <= row * m
    BY <1>5, <2>2, MulMonotone
  <2>4. m * row <= MaxRows(k) * row
    BY <1>5, <1>9, <1>10, MulMonotone
  <2>5. InputBytes(m, w) = (2 * AlignUp(w)) * m /\ row * m = m * row
    BY <1>5, <2>2 DEF InputBytes
  <2> HIDE DEF InputBytes
  <2> QED BY <1>2, <1>5, <1>9, <2>2, <2>3, <2>4, <2>5, MulMonotone
<1> QED BY <1>9, <1>10 DEF budget

-----------------------------------------------------------------------------
(* Where tile t of a split along N or K starts.                            *)
TileOffset(total, t) ==
  t * MaxTile -
    (IF Borrow(total) > 0 /\ t = FullTiles(total) THEN Borrow(total) ELSE 0)

LEMMA RestFacts ==
  ASSUME NEW total \in Nat
  PROVE  /\ FullTiles(total) \in Nat /\ Rest(total) \in 0..(MaxTile - 1)
         /\ FullTiles(total) * MaxTile \in Nat
         /\ total = FullTiles(total) * MaxTile + Rest(total)
         /\ Borrow(total) \in 0..(MinTail - 1)
         /\ Tail0(total) \in 0..MaxTile
         /\ Tail0(total) > 0 <=> Rest(total) > 0
         /\ Borrow(total) > 0 => /\ FullTiles(total) > 0
                                 /\ Tail0(total) = MinTail
         /\ FullTiles(total) > 0 /\ Rest(total) > 0 => Tail0(total) >= MinTail
<1>1. MaxTile \in Nat \ {0} /\ MinTail \in Nat \ {0} /\ 2 * MinTail <= MaxTile
  BY TileAssumption
<1>2. /\ FullTiles(total) \in Nat /\ Rest(total) \in 0..(MaxTile - 1)
      /\ total = FullTiles(total) * MaxTile + Rest(total)
  BY <1>1, DivMod DEF FullTiles, Rest
<1>3. FullTiles(total) * MaxTile \in Nat
  BY <1>1, <1>2, MulNext
<1>4. Borrow(total) \in 0..(MinTail - 1)
  BY <1>1, <1>2 DEF Borrow
<1> QED BY <1>1, <1>2, <1>3, <1>4 DEF Tail0, Borrow

(***************************************************************************)
(* The tiles of a dimension follow one another from 0 to its end, none is  *)
(* longer than MaxTile, and with more than one none is below MinTail.      *)
(***************************************************************************)
LEMMA TileFacts ==
  ASSUME NEW total \in Nat \ {0}, NEW t \in 0..(TileCount(total) - 1)
  PROVE  /\ TileSize(total, t) \in Nat \ {0}
         /\ TileSize(total, t) <= MaxTile
         /\ TileOffset(total, t) \in Nat
         /\ TileOffset(total, t) + TileSize(total, t) <= total
         /\ t = TileCount(total) - 1 <=>
              TileOffset(total, t) + TileSize(total, t) = total
         /\ t < TileCount(total) - 1 =>
              TileOffset(total, t + 1) = TileOffset(total, t) + TileSize(total, t)
         /\ total > MaxTile => TileSize(total, t) >= MinTail
<1> DEFINE q == FullTiles(total)
           r == Rest(total)
           lent == Borrow(total)
           tail == Tail0(total)
           start == t * MaxTile
           whole == q * MaxTile
<1>1. MaxTile \in Nat \ {0} /\ MinTail \in Nat \ {0} /\ 2 * MinTail <= MaxTile
  BY TileAssumption
<1>2. /\ q \in Nat /\ r \in 0..(MaxTile - 1) /\ whole \in Nat
      /\ total = whole + r
      /\ lent \in 0..(MinTail - 1) /\ tail \in 0..MaxTile
      /\ tail = r + lent
      /\ tail > 0 <=> r > 0
      /\ lent > 0 => q > 0 /\ tail = MinTail
      /\ q > 0 /\ r > 0 => tail >= MinTail
  BY RestFacts DEF Tail0
<1>3. t \in Nat /\ t <= q /\ (t = q => r > 0)
  BY <1>2 DEF TileCount
<1>4. start \in Nat /\ (t + 1) * MaxTile = start + MaxTile
  BY <1>1, <1>3, MulNext
<1>5. q > 0 => whole >= MaxTile
  BY <1>1, <1>2, MulMonotone, 1 * MaxTile = MaxTile
<1>6. q = 0 => whole = 0
  BY <1>1
<1>7. TileCount(total) = IF r > 0 THEN q + 1 ELSE q
  BY <1>2 DEF TileCount
<1>8. CASE t = q
  <2>1. TileSize(total, t) = tail /\ TileOffset(total, t) = whole - lent
    BY <1>1, <1>2, <1>3, <1>8 DEF TileSize, TileOffset
  <2> HIDE DEF q, r, lent, tail, start, whole
  <2> QED BY <1>1, <1>2, <1>3, <1>5, <1>6, <1>7, <1>8, <2>1
<1>9. CASE t + 1 = q
  <2>1. start + MaxTile = whole
    BY <1>4, <1>9
  <2>2. TileSize(total, t) = MaxTile - lent /\ TileOffset(total, t) = start
    BY <1>1, <1>2, <1>3, <1>4, <1>9 DEF TileSize, TileOffset
  <2>3. TileOffset(total, t + 1) = whole - lent
    BY <1>1, <1>2, <1>9 DEF TileOffset
  <2> HIDE DEF q, r, lent, tail, start, whole
  <2> QED BY <1>1, <1>2, <1>3, <1>4, <1>7, <1>9, <2>1, <2>2, <2>3
<1>10. CASE t + 1 < q
  <2>1. (t + 1) * MaxTile + MaxTile <= whole
    <3>1. (t + 2) * MaxTile <= whole
      BY <1>1, <1>2, <1>3, <1>10, MulMonotone
    <3>2. ((t + 1) + 1) * MaxTile = (t + 1) * MaxTile + MaxTile
      BY <1>1, <1>3, MulNext
    <3>3. (t + 1) + 1 = t + 2
      BY <1>3
    <3> QED BY <3>1, <3>2, <3>3
  <2>2. TileSize(total, t) = MaxTile /\ TileOffset(total, t) = start
    BY <1>1, <1>2, <1>3, <1>4, <1>10 DEF TileSize, TileOffset
  <2>3. TileOffset(total, t + 1) = start + MaxTile
    BY <1>1, <1>2, <1>3, <1>4, <1>10 DEF TileOffset
  <2> HIDE DEF q, r, lent, tail, start, whole
  <2> QED BY <1>1, <1>2, <1>3, <1>4, <1>7, <1>10, <2>1, <2>2, <2>3
<1> HIDE DEF q
<1> QED BY <1>2, <1>3, <1>8, <1>9, <1>10

(* The same for the rows, where a tail is left as it is.                   *)
LEMMA RowTileFacts ==
  ASSUME NEW total \in Nat \ {0}, NEW rows \in Nat \ {0},
         NEW t \in 0..(RowTileCount(total, rows) - 1)
  PROVE  /\ RowTileSize(total, rows, t) \in 1..rows
         /\ t * rows \in Nat
         /\ t * rows + RowTileSize(total, rows, t) <= total
         /\ t = RowTileCount(total, rows) - 1 <=>
              t * rows + RowTileSize(total, rows, t) = total
         /\ t < RowTileCount(total, rows) - 1 =>
              (t + 1) * rows = t * rows + RowTileSize(total, rows, t)
<1> DEFINE q == total \div rows
           r == total % rows
           start == t * rows
           whole == q * rows
<1>1. q \in Nat /\ r \in 0..(rows - 1) /\ total = whole + r
  BY DivMod
<1>2. RowTileCount(total, rows) = IF r > 0 THEN q + 1 ELSE q
  BY <1>1 DEF RowTileCount
<1>3. t \in Nat /\ t <= q /\ (t = q => r > 0)
  BY <1>1, <1>2
<1>4. start \in Nat /\ whole \in Nat /\ (t + 1) * rows = start + rows
  BY <1>1, <1>3, MulNext
<1>5. CASE t = q
  <2>1. RowTileSize(total, rows, t) = r /\ start = whole
    BY <1>5 DEF RowTileSize
  <2> HIDE DEF q, r, start, whole
  <2> QED BY <1>1, <1>2, <1>3, <1>4, <1>5, <2>1
<1>6. CASE t < q
  <2>1. RowTileSize(total, rows, t) = rows
    BY <1>1, <1>3, <1>6 DEF RowTileSize
  <2>2. (t + 1) * rows <= whole /\ (t + 1 = q => (t + 1) * rows = whole)
    BY <1>1, <1>3, <1>6, MulMonotone
  <2>3. t + 1 < q => (t + 1) * rows + rows <= whole
    <3>1. ((t + 1) + 1) * rows = (t + 1) * rows + rows
      BY <1>3, MulNext
    <3>2. t + 1 < q => ((t + 1) + 1) * rows <= whole
      BY <1>1, <1>3, MulMonotone
    <3> QED BY <3>1, <3>2
  <2> HIDE DEF q, r, start, whole
  <2> QED BY <1>1, <1>2, <1>3, <1>4, <1>6, <2>1, <2>2, <2>3
<1> HIDE DEF q
<1> QED BY <1>1, <1>3, <1>5, <1>6

(* Every dimension has a first tile, at 0.                                 *)
LEMMA FirstTile ==
  ASSUME NEW total \in Nat \ {0}
  PROVE  /\ TileCount(total) \in Nat \ {0}
         /\ 0 \in 0..(TileCount(total) - 1) /\ TileOffset(total, 0) = 0
<1> DEFINE q == FullTiles(total)
           r == Rest(total)
<1>1. MaxTile \in Nat \ {0} /\ 0 * MaxTile = 0
  BY TileAssumption
<1>2. /\ q \in Nat /\ r \in Nat /\ total = q * MaxTile + r
      /\ Tail0(total) > 0 <=> r > 0
      /\ Borrow(total) > 0 => q > 0
  BY RestFacts
<1>3. q = 0 => q * MaxTile = 0
  BY <1>1
<1>4. TileCount(total) = IF r > 0 THEN q + 1 ELSE q
  BY <1>2 DEF TileCount
<1>5. TileOffset(total, 0) =
        0 - (IF Borrow(total) > 0 /\ 0 = q THEN Borrow(total) ELSE 0)
  BY <1>1 DEF TileOffset
<1>6. TileOffset(total, 0) = 0
  BY <1>2, <1>5
<1> HIDE DEF q, r
<1> QED BY <1>2, <1>3, <1>4, <1>6

LEMMA FirstRowTile ==
  ASSUME NEW total \in Nat \ {0}, NEW rows \in Nat \ {0}
  PROVE  /\ RowTileCount(total, rows) \in Nat \ {0}
         /\ 0 \in 0..(RowTileCount(total, rows) - 1) /\ 0 * rows = 0
<1> DEFINE q == total \div rows
           r == total % rows
<1>1. q \in Nat /\ r \in 0..(rows - 1) /\ total = q * rows + r
  BY DivMod
<1>2. q = 0 => q * rows = 0
  OBVIOUS
<1>3. RowTileCount(total, rows) = IF r > 0 THEN q + 1 ELSE q
  BY <1>1 DEF RowTileCount
<1> HIDE DEF q, r
<1> QED BY <1>1, <1>2, <1>3

-----------------------------------------------------------------------------
(***************************************************************************)
(* The inductive invariant: while tiles are being computed, each loop      *)
(* stands at a tile it has and its offset is where that tile starts.       *)
(***************************************************************************)
AtTile ==
  /\ tile.m \in 0..(RowTileCount(shape.M, MaxRows(shape.K)) - 1)
  /\ tile.n \in 0..(TileCount(shape.N) - 1)
  /\ tile.k \in 0..(TileCount(shape.K) - 1)
  /\ offset.m = tile.m * MaxRows(shape.K)
  /\ offset.n = TileOffset(shape.N, tile.n)
  /\ offset.k = TileOffset(shape.K, tile.k)

LoopInv ==
  /\ TypeOK
  /\ pc = "idle" => tile = Start /\ offset = Start
  /\ pc = "job" => AtTile

LEMMA CurrentTile ==
  ASSUME LoopInv, pc = "job"
  PROVE  /\ tile_m \in Nat \ {0} /\ tile_n \in Nat \ {0} /\ tile_k \in Nat \ {0}
         /\ tile_m <= MaxRows(shape.K)
         /\ JobFits /\ TilesInside
<1>1. /\ shape.M \in Nat \ {0} /\ shape.N \in Nat \ {0} /\ shape.K \in Nat \ {0}
      /\ AtTile
  BY DEF LoopInv, TypeOK
<1>2. MaxRows(shape.K) \in Nat \ {0}
  BY <1>1, MaxRowsFit
<1>3. /\ tile_m \in 1..MaxRows(shape.K)
      /\ offset.m + tile_m <= shape.M
      /\ LastM <=> offset.m + tile_m = shape.M
  BY <1>1, <1>2, RowTileFacts DEF AtTile, tile_m, LastM
<1>4. /\ tile_n \in Nat \ {0} /\ tile_n <= MaxTile
      /\ offset.n + tile_n <= shape.N
      /\ LastN <=> offset.n + tile_n = shape.N
      /\ SplitN => tile_n >= MinTail
  BY <1>1, TileFacts DEF AtTile, tile_n, LastN, SplitN
<1>5. /\ tile_k \in Nat \ {0} /\ tile_k <= MaxTile
      /\ offset.k \in Nat /\ offset.k + tile_k <= shape.K
      /\ LastK <=> offset.k + tile_k = shape.K
      /\ SplitK => tile_k >= MinTail
  BY <1>1, TileFacts DEF AtTile, tile_k, LastK, SplitK
<1>6. InputBytes(tile_m, tile_k) <= (Banks - 2) * BankSize
  <2>1. tile_k <= shape.K /\ tile_m \in Nat /\ tile_m <= MaxRows(shape.K)
    BY <1>1, <1>2, <1>3, <1>5
  <2> QED BY <1>1, <1>5, <2>1, MaxRowsFit
<1> QED BY <1>2, <1>3, <1>4, <1>5, <1>6 DEF JobFits, TilesInside

LEMMA LoopInvInit == Init => LoopInv
BY DEF Init, LoopInv, TypeOK, Start

LEMMA LoopInvStep == LoopInv /\ [Next]_vars => LoopInv'
<1> SUFFICES ASSUME LoopInv, [Next]_vars PROVE LoopInv'
  OBVIOUS
<1> USE DEF LoopInv
<1>1. ASSUME NEW s \in Shapes, Begin(s)
      PROVE  LoopInv'
  <2>1. /\ s \in [M : Nat \ {0}, N : Nat \ {0}, K : Nat \ {0}]
        /\ shape' = s /\ tile' = Start /\ offset' = Start
        /\ pc = "idle" /\ pc' = "job" /\ status' = status
    BY <1>1, TileAssumption DEF Begin
  <2>2. AtTile'
    BY <2>1, MaxRowsFit, FirstTile, FirstRowTile DEF AtTile, Start
  <2>3. TypeOK'
    BY <2>1 DEF TypeOK, Start
  <2> QED BY <2>1, <2>2, <2>3
<1>2. CASE Job
  <2>1. pc = "job" /\ AtTile /\ shape' = shape
    BY <1>2 DEF Job
  <2>2. /\ tile_m \in Nat \ {0} /\ tile_n \in Nat \ {0} /\ tile_k \in Nat \ {0}
    BY <2>1, CurrentTile
  <2>3. /\ pc' \in {"job", "done"}
        /\ pc' = "job" => ~(LastK /\ LastN /\ LastM)
        /\ IF pc' = "job" THEN status' = status ELSE status' = "ok"
        /\ Advance
    BY <1>2, <2>1 DEF Job
  <2>4. /\ shape \in [M : Nat \ {0}, N : Nat \ {0}, K : Nat \ {0}]
        /\ tile \in [m : Nat, n : Nat, k : Nat]
        /\ offset \in [m : Nat, n : Nat, k : Nat]
        /\ MaxRows(shape.K) \in Nat \ {0}
    BY MaxRowsFit DEF TypeOK
  <2>5. TypeOK'
    <3>1. /\ tile.m + 1 \in Nat /\ tile.n + 1 \in Nat /\ tile.k + 1 \in Nat
          /\ offset.m + tile_m \in Nat /\ offset.n + tile_n \in Nat
          /\ offset.k + tile_k \in Nat
      BY <2>2, <2>4
    <3> DEFINE Loops == [m : Nat, n : Nat, k : Nat]
    <3>2. \A x \in Nat : /\ [tile EXCEPT !.k = x] \in Loops
                          /\ [offset EXCEPT !.k = x] \in Loops
                          /\ [tile EXCEPT !.k = 0, !.n = x] \in Loops
                          /\ [offset EXCEPT !.k = 0, !.n = x] \in Loops
                          /\ [Start EXCEPT !.m = x] \in Loops
      BY <2>4 DEF Start
    <3>3. tile' \in Loops /\ offset' \in Loops
      <4> HIDE DEF Loops
      <4>1. tile \in Loops /\ offset \in Loops
        BY <2>4 DEF Loops
      <4> QED BY <2>3, <3>1, <3>2, <4>1 DEF Advance
    <3> QED BY <2>1, <2>3, <3>3 DEF TypeOK
  <2>6. ASSUME pc' = "job" PROVE AtTile'
    <3>1. CASE ~LastK
      <4>1. /\ tile' = [tile EXCEPT !.k = tile.k + 1]
            /\ offset' = [offset EXCEPT !.k = offset.k + tile_k]
        BY <2>3, <3>1 DEF Advance
      <4>2. /\ tile.k + 1 \in 0..(TileCount(shape.K) - 1)
            /\ TileOffset(shape.K, tile.k + 1) = offset.k + tile_k
        BY <2>1, <2>4, <3>1, TileFacts, FirstTile DEF AtTile, LastK, tile_k
      <4> QED BY <2>1, <2>4, <4>1, <4>2 DEF AtTile
    <3>2. CASE LastK /\ ~LastN
      <4>1. /\ tile' = [tile EXCEPT !.k = 0, !.n = tile.n + 1]
            /\ offset' = [offset EXCEPT !.k = 0, !.n = offset.n + tile_n]
        BY <2>3, <3>2 DEF Advance
      <4>2. /\ tile.n + 1 \in 0..(TileCount(shape.N) - 1)
            /\ TileOffset(shape.N, tile.n + 1) = offset.n + tile_n
        BY <2>1, <2>4, <3>2, TileFacts, FirstTile DEF AtTile, LastN, tile_n
      <4>3. 0 \in 0..(TileCount(shape.K) - 1) /\ TileOffset(shape.K, 0) = 0
        BY <2>4, FirstTile
      <4> QED BY <2>1, <2>4, <4>1, <4>2, <4>3 DEF AtTile
    <3>3. CASE LastK /\ LastN /\ ~LastM
      <4>1. /\ tile' = [Start EXCEPT !.m = tile.m + 1]
            /\ offset' = [Start EXCEPT !.m = offset.m + tile_m]
        BY <2>3, <3>3 DEF Advance
      <4>2. /\ tile.m + 1 \in 0..(RowTileCount(shape.M, MaxRows(shape.K)) - 1)
            /\ (tile.m + 1) * MaxRows(shape.K) = offset.m + tile_m
        <5> DEFINE rows == MaxRows(shape.K)
                   count == RowTileCount(shape.M, rows)
        <5>1. /\ tile.m \in 0..(count - 1) /\ tile.m # count - 1
              /\ count \in Nat /\ offset.m = tile.m * rows
              /\ tile_m = RowTileSize(shape.M, rows, tile.m)
          BY <2>1, <2>4, <3>3, FirstRowTile DEF AtTile, LastM, tile_m
        <5>2. tile.m + 1 \in 0..(count - 1) /\ tile.m < count - 1
          <6> HIDE DEF count
          <6> QED BY <5>1
        <5>3. (tile.m + 1) * rows = tile.m * rows + tile_m
          <6>1. shape.M \in Nat \ {0} /\ rows \in Nat \ {0}
            BY <2>4
          <6> HIDE DEF rows
          <6>2. \A t \in 0..(count - 1) : t < count - 1 =>
                  (t + 1) * rows = t * rows + RowTileSize(shape.M, rows, t)
            BY <6>1, RowTileFacts
          <6> HIDE DEF count
          <6> QED BY <5>1, <5>2, <6>2
        <5> QED BY <5>1, <5>2, <5>3
      <4>3. /\ 0 \in 0..(TileCount(shape.K) - 1) /\ TileOffset(shape.K, 0) = 0
            /\ 0 \in 0..(TileCount(shape.N) - 1) /\ TileOffset(shape.N, 0) = 0
        BY <2>4, FirstTile
      <4> QED BY <2>1, <2>4, <4>1, <4>2, <4>3 DEF AtTile, Start
    <3> QED BY <2>3, <2>6, <3>1, <3>2, <3>3
  <2> QED BY <2>3, <2>5, <2>6
<1>3. CASE JobFails \/ BufferFails
  BY <1>3 DEF JobFails, BufferFails, TypeOK
<1>4. CASE Done \/ UNCHANGED vars
  BY <1>4 DEF Done, vars, TypeOK, AtTile
<1> QED BY <1>1, <1>2, <1>3, <1>4 DEF Next

LEMMA LoopInvCorrect == Spec => []LoopInv
<1> QED BY LoopInvInit, LoopInvStep, PTL DEF Spec

(* The loops stand where they should, of the types they should have.       *)
THEOREM LoopsTyped == Spec => []TypeOK
<1>1. LoopInv => TypeOK
  BY DEF LoopInv
<1> QED BY <1>1, LoopInvCorrect, PTL

(* No job is ever asked for that the NPU's banks cannot hold.              *)
THEOREM EveryJobFits == Spec => []JobFits
<1>1. LoopInv => JobFits
  BY CurrentTile DEF JobFits
<1> QED BY <1>1, LoopInvCorrect, PTL

(* The tiles lie inside their dimension and the last one ends it.          *)
THEOREM TilesCover == Spec => []TilesInside
<1>1. LoopInv => TilesInside
  BY CurrentTile DEF TilesInside
<1> QED BY <1>1, LoopInvCorrect, PTL

(***************************************************************************)
(* After a success the global layout is that of the whole product, however *)
(* the splits were nested. A status is given only at the end, so the job   *)
(* that gives it is the last of all three loops.                           *)
(***************************************************************************)
THEOREM LayoutOfWhole == Spec => []ParamsRestored
<1>1. Init => ParamsRestored
  BY DEF Init, ParamsRestored
<1>2. LoopInv /\ ParamsRestored /\ [Next]_vars => ParamsRestored'
  <2> SUFFICES ASSUME LoopInv, ParamsRestored, [Next]_vars,
                      status' = "ok"
               PROVE  matmul_params' = MatmulParams(shape'.M, shape'.N, shape'.K)
    BY DEF ParamsRestored, MatmulParams, AlignUp
  <2>1. pc # "done" => status = "none"
    BY DEF LoopInv, TypeOK
  <2>2. ASSUME NEW s \in Shapes, Begin(s)
        PROVE  FALSE
    BY <2>1, <2>2 DEF Begin
  <2>3. CASE Job
    <3>1. LastK /\ LastN /\ LastM
      BY <2>1, <2>3 DEF Job
    <3>2. matmul_params' = ParamsAfterJob /\ shape' = shape
      BY <2>3 DEF Job
    <3> QED BY <3>1, <3>2 DEF ParamsAfterJob
  <2>4. CASE JobFails \/ BufferFails
    BY <2>4 DEF JobFails, BufferFails
  <2>5. CASE Done \/ UNCHANGED vars
    BY <2>5 DEF Done, vars, ParamsRestored
  <2> QED BY <2>2, <2>3, <2>4, <2>5 DEF Next
<1> QED BY <1>1, <1>2, LoopInvCorrect, PTL DEF Spec

-----------------------------------------------------------------------------
(* A dimension of at most MaxTile is one tile.                             *)
LEMMA OneTile ==
  ASSUME NEW total \in Nat \ {0}, total <= MaxTile
  PROVE  TileCount(total) = 1
<1> DEFINE q == FullTiles(total)
           r == Rest(total)
<1>1. MaxTile \in Nat \ {0}
  BY TileAssumption
<1>2. /\ q \in Nat /\ r \in 0..(MaxTile - 1) /\ q * MaxTile \in Nat
      /\ total = q * MaxTile + r
      /\ Tail0(total) \in Nat /\ (Tail0(total) > 0 <=> r > 0)
  BY RestFacts
<1> HIDE DEF q, r
<1>3. q < 2
  <2> SUFFICES ASSUME 2 <= q PROVE FALSE
    BY <1>2
  <2>1. 2 * MaxTile <= q * MaxTile
    BY <1>1, <1>2, MulMonotone
  <2> QED BY <1>1, <1>2, <2>1
<1>4. q = 0 => q * MaxTile = 0
  BY <1>1
<1>5. q = 1 => q * MaxTile = MaxTile
  BY <1>1
<1> QED BY <1>1, <1>2, <1>3, <1>4, <1>5 DEF TileCount, q

(* Only the first tile starts at 0.                                        *)
LEMMA LaterTile ==
  ASSUME NEW total \in Nat \ {0}, NEW t \in 0..(TileCount(total) - 1)
  PROVE  TileOffset(total, t) > 0 <=> t > 0
<1>1. TileCount(total) \in Nat \ {0} /\ TileOffset(total, 0) = 0
  BY FirstTile
<1>2. CASE t > 0
  <2>1. t - 1 \in 0..(TileCount(total) - 1) /\ t - 1 < TileCount(total) - 1
    BY <1>1, <1>2
  <2>2. /\ TileOffset(total, (t - 1) + 1)
             = TileOffset(total, t - 1) + TileSize(total, t - 1)
        /\ TileOffset(total, t - 1) \in Nat /\ TileSize(total, t - 1) \in Nat \ {0}
    BY <2>1, TileFacts
  <2>3. (t - 1) + 1 = t
    BY <1>1
  <2> QED BY <1>2, <2>2, <2>3
<1> QED BY <1>1, <1>2

(***************************************************************************)
(* What the loops say of the current job, in numbers.                      *)
(***************************************************************************)
LEMMA JobNumbers ==
  ASSUME LoopInv, pc = "job"
  PROVE  /\ shape.M \in Nat \ {0} /\ shape.N \in Nat \ {0} /\ shape.K \in Nat \ {0}
         /\ offset.m \in Nat /\ offset.n \in Nat /\ offset.k \in Nat
         /\ tile_m \in Nat \ {0} /\ tile_n \in Nat \ {0} /\ tile_k \in Nat \ {0}
         /\ offset.m + tile_m <= shape.M /\ (LastM <=> offset.m + tile_m = shape.M)
         /\ offset.n + tile_n <= shape.N /\ (LastN <=> offset.n + tile_n = shape.N)
         /\ offset.k + tile_k <= shape.K /\ (LastK <=> offset.k + tile_k = shape.K)
         /\ tile_n <= MaxTile
         /\ ~SplitN => offset.n = 0 /\ tile_n = shape.N
         /\ offset.k > 0 <=> SplitK /\ tile.k > 0
<1>1. /\ shape.M \in Nat \ {0} /\ shape.N \in Nat \ {0} /\ shape.K \in Nat \ {0}
      /\ offset.m \in Nat /\ offset.n \in Nat /\ offset.k \in Nat
      /\ AtTile
  BY DEF LoopInv, TypeOK
<1>2. /\ tile_m \in Nat \ {0} /\ tile_n \in Nat \ {0} /\ tile_k \in Nat \ {0}
      /\ offset.m + tile_m <= shape.M /\ (LastM <=> offset.m + tile_m = shape.M)
      /\ offset.n + tile_n <= shape.N /\ (LastN <=> offset.n + tile_n = shape.N)
      /\ offset.k + tile_k <= shape.K /\ (LastK <=> offset.k + tile_k = shape.K)
      /\ tile_n <= MaxTile
  BY CurrentTile DEF TilesInside, JobFits
<1>3. MaxTile \in Nat
  BY TileAssumption
<1>4. ASSUME ~SplitN PROVE offset.n = 0 /\ tile_n = shape.N
  <2>1. TileCount(shape.N) = 1
    BY <1>1, <1>3, <1>4, OneTile DEF SplitN
  <2>2. tile.n = 0 /\ LastN
    BY <1>1, <2>1 DEF AtTile, LastN
  <2>3. offset.n = 0
    BY <1>1, <2>2, FirstTile DEF AtTile
  <2> QED BY <1>1, <1>2, <2>2, <2>3
<1>5. offset.k > 0 <=> tile.k > 0
  BY <1>1, LaterTile DEF AtTile
<1>6. tile.k > 0 => SplitK
  <2> SUFFICES ASSUME ~SplitK PROVE ~(tile.k > 0)
    OBVIOUS
  <2>1. TileCount(shape.K) = 1
    BY <1>1, <1>3, OneTile DEF SplitK
  <2> QED BY <1>1, <2>1 DEF AtTile
<1> QED BY <1>1, <1>2, <1>4, <1>5, <1>6

(***************************************************************************)
(* The operands of a job are the block of rows and columns it stands at.   *)
(***************************************************************************)
LEMMA Operands ==
  ASSUME LoopInv, pc = "job",
         NEW row \in 0..(tile_m - 1), NEW col \in 0..(tile_n - 1),
         NEW j \in 0..(tile_k - 1)
  PROVE  /\ a_tile[row * tile_k + j] = <<offset.m + row, offset.k + j>>
         /\ b_tile[j * tile_n + col] = <<offset.k + j, offset.n + col>>
<1> DEFINE M == shape.M  N == shape.N  K == shape.K
           om == offset.m  on == offset.n  ok == offset.k
           tm == tile_m  tn == tile_n  tk == tile_k
<1>1. /\ M \in Nat \ {0} /\ N \in Nat \ {0} /\ K \in Nat \ {0}
      /\ om \in Nat /\ on \in Nat /\ ok \in Nat
      /\ tm \in Nat \ {0} /\ tn \in Nat \ {0} /\ tk \in Nat \ {0}
      /\ om + tm <= M /\ on + tn <= N /\ ok + tk <= K
  BY JobNumbers
<1>2. /\ a_tile = Gather(a, om * K + ok, K, tm, tk)
      /\ b_tile = Gather(b_of_n, ok * tn, tn, tk, tn)
      /\ b_of_n = Gather(b, on, N, K, tn)
      /\ a = [i \in 0..(M * K - 1) |-> <<i \div K, i % K>>]
      /\ b = [i \in 0..(K * N - 1) |-> <<i \div N, i % N>>]
  BY DEF a_tile, b_tile, b_of_n, a, b
<1>3. /\ row \in 0..(tm - 1) /\ col \in 0..(tn - 1) /\ j \in 0..(tk - 1)
  OBVIOUS
<1> HIDE DEF M, N, K, om, on, ok, tm, tn, tk
<1>4. a_tile[row * tk + j] = <<om + row, ok + j>>
  <2> DEFINE i == row * tk + j
  <2>1. i \in 0..(tm * tk - 1) /\ i \div tk = row /\ i % tk = j
    BY <1>1, <1>3, RowMajor
  <2>2. a_tile[i] = a[om * K + ok + row * K + j]
    <3> HIDE DEF i
    <3> QED BY <1>2, <2>1 DEF Gather
  <2>3. om * K + ok + row * K + j = (om + row) * K + (ok + j)
    <3>1. om * K \in Nat /\ row * K \in Nat /\ (om + row) * K = om * K + row * K
      BY <1>1, <1>3
    <3> QED BY <1>1, <1>3, <3>1
  <2>4. /\ (om + row) * K + (ok + j) \in 0..(M * K - 1)
        /\ ((om + row) * K + (ok + j)) \div K = om + row
        /\ ((om + row) * K + (ok + j)) % K = ok + j
    BY <1>1, <1>3, RowMajor
  <2> HIDE DEF i
  <2>5. a[(om + row) * K + (ok + j)] = <<om + row, ok + j>>
    BY <1>2, <2>4
  <2> QED BY <2>2, <2>3, <2>5 DEF i
<1>5. b_tile[j * tn + col] = <<ok + j, on + col>>
  <2> DEFINE i == j * tn + col
  <2>1. i \in 0..(tk * tn - 1) /\ i \div tn = j /\ i % tn = col
    BY <1>1, <1>3, RowMajor
  <2>2. b_tile[i] = b_of_n[ok * tn + j * tn + col]
    <3> HIDE DEF i
    <3> QED BY <1>2, <2>1 DEF Gather
  <2>3. ok * tn + j * tn + col = (ok + j) * tn + col
    <3>1. ok * tn \in Nat /\ j * tn \in Nat /\ (ok + j) * tn = ok * tn + j * tn
      BY <1>1, <1>3
    <3> QED BY <1>1, <1>3, <3>1
  <2> DEFINE i2 == (ok + j) * tn + col
  <2>4. i2 \in 0..(K * tn - 1) /\ i2 \div tn = ok + j /\ i2 % tn = col
    BY <1>1, <1>3, RowMajor
  <2>5. b_of_n[i2] = b[on + (ok + j) * N + col]
    <3> HIDE DEF i2
    <3> QED BY <1>2, <2>4 DEF Gather
  <2>6. on + (ok + j) * N + col = (ok + j) * N + (on + col)
    <3>1. (ok + j) * N \in Nat
      BY <1>1, <1>3
    <3> QED BY <1>1, <1>3, <3>1
  <2>7. /\ (ok + j) * N + (on + col) \in 0..(K * N - 1)
        /\ ((ok + j) * N + (on + col)) \div N = ok + j
        /\ ((ok + j) * N + (on + col)) % N = on + col
    BY <1>1, <1>3, RowMajor
  <2>8. b[(ok + j) * N + (on + col)] = <<ok + j, on + col>>
    BY <1>2, <2>7
  <2> QED BY <2>2, <2>3, <2>5, <2>6, <2>8
<1> QED BY <1>4, <1>5 DEF om, on, ok, tn, tk

(* A row of the output is made of whole planes.                            *)
LEMMA WholePlanes ==
  ASSUME NEW params \in [M : Nat, N : Nat, K : Nat, align_in : Nat, align_out : Nat],
         NEW n \in Nat \ {0}, params.align_out = AlignUp(n)
  PROVE  /\ C2(params) \in Nat \ {0}
         /\ \E planes \in Nat : AlignUp(n) = planes * C2(params)
<1>1. AlignUp(n) \in Nat \ {0}
  BY AlignUpFacts
<1>2. CASE C2(params) = AlignUp(n)
  <2>1. AlignUp(n) = 1 * AlignUp(n)
    BY <1>1
  <2> QED BY <1>1, <1>2, <2>1
<1>3. CASE C2(params) = PlaneWidth
  <2>1. PlaneWidth \in Nat \ {0} /\ Align \in Nat \ {0} /\ Align % PlaneWidth = 0
    BY TileAssumption, PlaneAssumption
  <2> DEFINE d == Align \div PlaneWidth
  <2>2. d \in Nat /\ d * PlaneWidth \in Nat /\ Align = d * PlaneWidth + (Align % PlaneWidth)
    BY <2>1, DivMod, MulNext
  <2>3. Align = d * PlaneWidth
    BY <2>1, <2>2
  <2>4. PICK q \in Nat : AlignUp(n) = q * Align
    BY AlignUpMultiple
  <2> HIDE DEF d
  <2>5. q * d \in Nat /\ q * (d * PlaneWidth) = (q * d) * PlaneWidth
    BY <2>1, <2>2
  <2> QED BY <1>3, <2>1, <2>3, <2>4, <2>5
<1> QED BY <1>2, <1>3 DEF C2

(* The terms of one element of a job's product, from the job's operands.   *)
DotTerms(n, k, row, col) ==
  [j \in 1..k |-> <<a_tile[row * k + j - 1], b_tile[(j - 1) * n + col]>>]

(***************************************************************************)
(* What is unpacked with the layout of its own job is the product of the   *)
(* job's operands, in planes or not.                                       *)
(***************************************************************************)
LEMMA UnpackedProduct ==
  ASSUME NEW m \in Nat \ {0}, NEW n \in Nat \ {0}, NEW k \in Nat \ {0},
         NEW row \in 0..(m - 1), NEW col \in 0..(n - 1)
  PROVE  Unpack(NpuOutput(m, n, k), MatmulParams(m, n, k), m, n)[row * n + col]
           = DotTerms(n, k, row, col)
<1> DEFINE params == MatmulParams(m, n, k)
           c2 == C2(params)
           width == AlignUp(n)
           q == col \div c2
           s == col % c2
           inner == row * c2 + s
           plane == m * c2
           idx == q * plane + inner
<1>1. width \in Nat \ {0} /\ n <= width
  BY AlignUpFacts
<1>2. c2 \in Nat \ {0} /\ \E planes \in Nat : width = planes * c2
  <2>1. params \in [M : Nat, N : Nat, K : Nat, align_in : Nat, align_out : Nat]
    BY <1>1, AlignUpFacts DEF MatmulParams
  <2>2. params.align_out = AlignUp(n)
    BY DEF MatmulParams
  <2> HIDE DEF params
  <2> QED BY <2>1, <2>2, WholePlanes
<1>3. PICK planes \in Nat : width = planes * c2
  BY <1>2
<1> DEFINE element(r, c) == IF c < n THEN DotTerms(n, k, r, c) ELSE <<>>
           computed(i) ==
             element((i % (m * c2)) \div c2, (i \div (m * c2)) * c2 + (i % c2))
<1>4. NpuOutput(m, n, k) = [i \in 0..(m * width - 1) |-> computed(i)]
  BY DEF NpuOutput, DotTerms
<1>5. Unpack(NpuOutput(m, n, k), params, m, n)[row * n + col]
        = NpuOutput(m, n, k)[q * m * c2 + row * c2 + s]
  <2>1. /\ row * n + col \in 0..(m * n - 1)
        /\ (row * n + col) \div n = row /\ (row * n + col) % n = col
    BY RowMajor
  <2> DEFINE i == row * n + col
  <2> HIDE DEF i, params
  <2>2. Unpack(NpuOutput(m, n, k), params, m, n)[i]
          = NpuOutput(m, n, k)[((i % n) \div c2) * m * c2 + (i \div n) * c2 + ((i % n) % c2)]
    BY <2>1 DEF Unpack, i
  <2> QED BY <2>1, <2>2 DEF i
<1> HIDE DEF c2, width, params
<1>6. /\ col \in Nat /\ q \in Nat /\ s \in 0..(c2 - 1) /\ col = q * c2 + s
  <2>1. col \in Nat
    OBVIOUS
  <2> QED BY <1>2, <2>1, DivMod
<1>7. q \in 0..(planes - 1)
  <2>1. col \in 0..(planes * c2 - 1)
    BY <1>1, <1>3
  <2> QED BY <1>2, <2>1, RowMajorAll
<1> HIDE DEF q, s
<1>8. inner \in 0..(plane - 1) /\ inner \div c2 = row /\ inner % c2 = s
  BY <1>2, <1>6, RowMajor
<1>9. plane \in Nat \ {0} /\ q * m \in Nat
  BY <1>2, <1>6
<1>10. q * m * c2 + row * c2 + s = idx
  <2>1. q * m * c2 = q * (m * c2) /\ q * m * c2 \in Nat /\ row * c2 \in Nat
    BY <1>2, <1>6
  <2> QED BY <1>6, <2>1
<1>11. idx = (q * m + row) * c2 + s
  <2>1. (q * m + row) * c2 = q * m * c2 + row * c2
    BY <1>2, <1>6, <1>9
  <2>2. q * m * c2 \in Nat /\ row * c2 \in Nat
    BY <1>2, <1>6
  <2> QED BY <1>6, <1>10, <2>1, <2>2
<1>12. idx % c2 = s
  <2>1. q * m + row \in Nat
    BY <1>9
  <2> HIDE DEF idx
  <2> QED BY <1>2, <1>6, <1>11, <2>1, DivModUnique
<1> HIDE DEF inner, plane
<1>13. /\ idx \in 0..(planes * plane - 1)
       /\ idx \div plane = q /\ idx % plane = inner
  BY <1>7, <1>8, <1>9, RowMajor
<1> HIDE DEF idx
<1>14. planes * plane = m * width
  <2>1. planes * (m * c2) = m * (planes * c2)
    BY <1>2
  <2> QED BY <1>3, <2>1 DEF plane
<1>15. NpuOutput(m, n, k)[idx] = computed(idx)
  BY <1>4, <1>13, <1>14
<1>16. computed(idx) = DotTerms(n, k, row, col)
  <2>1. (idx % (m * c2)) \div c2 = row
    BY <1>8, <1>13 DEF plane
  <2>2. (idx \div (m * c2)) * c2 + (idx % c2) = col
    BY <1>6, <1>12, <1>13 DEF plane
  <2>3. computed(idx) = element(row, col)
    <3> HIDE DEF element
    <3> QED BY <2>1, <2>2
  <2>4. col < n
    OBVIOUS
  <2> QED BY <2>3, <2>4
<1> HIDE DEF computed
<1> QED BY <1>5, <1>10, <1>15, <1>16 DEF params

-----------------------------------------------------------------------------
(***************************************************************************)
(* The terms an element of the result is the sum of, and those of a part   *)
(* of the inner dimension.                                                 *)
(***************************************************************************)
Term(r, c, j) == <<<<r, j>>, <<j, c>>>>
Terms(r, c, first, count) == [j \in 1..count |-> Term(r, c, first + j - 1)]

LEMMA TermsFollow ==
  ASSUME NEW r \in Nat, NEW c \in Nat, NEW x \in Nat, NEW w \in Nat
  PROVE  Terms(r, c, 0, x) \o Terms(r, c, x, w) = Terms(r, c, 0, x + w)
<1> DEFINE All == {Term(r, c, j) : j \in Nat}
           s == Terms(r, c, 0, x)
           t == Terms(r, c, x, w)
           u == Terms(r, c, 0, x + w)
<1>1. \A first \in Nat, count \in Nat :
        /\ Terms(r, c, first, count) \in Seq(All)
        /\ Len(Terms(r, c, first, count)) = count
        /\ \A j \in 1..count :
             Terms(r, c, first, count)[j] = Term(r, c, first + j - 1)
  <2> SUFFICES ASSUME NEW first \in Nat, NEW count \in Nat
               PROVE  /\ Terms(r, c, first, count) \in Seq(All)
                      /\ Len(Terms(r, c, first, count)) = count
                      /\ \A j \in 1..count :
                           Terms(r, c, first, count)[j] = Term(r, c, first + j - 1)
    OBVIOUS
  <2>1. \A j \in 1..count : Term(r, c, first + j - 1) \in All
    <3> SUFFICES ASSUME NEW j \in 1..count PROVE first + j - 1 \in Nat
      OBVIOUS
    <3> QED OBVIOUS
  <2> HIDE DEF All
  <2>2. Terms(r, c, first, count) \in [1..count -> All]
    BY <2>1 DEF Terms
  <2>3. Terms(r, c, first, count) \in Seq(All)
    BY <2>2, SeqDef
  <2> QED BY <2>2, <2>3 DEF Terms
<1> HIDE DEF All
<1>2. s \in Seq(All) /\ t \in Seq(All) /\ Len(s) = x /\ Len(t) = w
  BY <1>1
<1>3. u \in Seq(All) /\ Len(u) = x + w
  BY <1>1
<1> HIDE DEF s, t, u
<1>4. /\ s \o t \in Seq(All) /\ Len(s \o t) = x + w
      /\ \A i \in 1..(x + w) : (s \o t)[i] = IF i <= x THEN s[i] ELSE t[i - x]
  BY <1>2, ConcatProperties
<1>5. \A i \in 1..(x + w) : (s \o t)[i] = u[i]
  <2> USE DEF s, t, u
  <2> SUFFICES ASSUME NEW i \in 1..(x + w) PROVE (s \o t)[i] = u[i]
    OBVIOUS
  <2>1. u[i] = Term(r, c, i - 1)
    <3>1. u[i] = Term(r, c, 0 + i - 1)
      BY <1>1
    <3>2. 0 + i - 1 = i - 1
      OBVIOUS
    <3> QED BY <3>1, <3>2
  <2>2. CASE i <= x
    <3>1. s[i] = Term(r, c, 0 + i - 1) /\ 0 + i - 1 = i - 1
      BY <1>1, <2>2
    <3> QED BY <1>4, <2>1, <2>2, <3>1
  <2>3. CASE ~(i <= x)
    <3>1. i - x \in 1..w /\ x + (i - x) - 1 = i - 1
      BY <2>3
    <3>2. t[i - x] = Term(r, c, x + (i - x) - 1)
      BY <1>1, <3>1
    <3> QED BY <1>4, <2>1, <2>3, <3>1, <3>2
  <2> QED BY <2>2, <2>3
<1> QED BY <1>2, <1>3, <1>4, <1>5, SeqEqual DEF s, t, u

(* The tile a job computes, as float16_matmul returns it.                  *)
JobOutput ==
  Unpack(NpuOutput(tile_m, tile_n, tile_k), MatmulParams(tile_m, tile_n, tile_k),
         tile_m, tile_n)

LEMMA JobOutputTerms ==
  ASSUME LoopInv, pc = "job",
         NEW row \in 0..(tile_m - 1), NEW col \in 0..(tile_n - 1)
  PROVE  JobOutput[row * tile_n + col]
           = Terms(offset.m + row, offset.n + col, offset.k, tile_k)
<1>1. /\ tile_m \in Nat \ {0} /\ tile_n \in Nat \ {0} /\ tile_k \in Nat \ {0}
      /\ offset.k \in Nat
  BY JobNumbers
<1>2. JobOutput[row * tile_n + col]
        = DotTerms(tile_n, tile_k, row, col)
  BY <1>1, UnpackedProduct DEF JobOutput
<1>3. ASSUME NEW j \in 1..tile_k
      PROVE  <<a_tile[row * tile_k + j - 1], b_tile[(j - 1) * tile_n + col]>>
               = Term(offset.m + row, offset.n + col, offset.k + j - 1)
  <2>1. j - 1 \in 0..(tile_k - 1)
    BY <1>1
  <2>2. /\ a_tile[row * tile_k + (j - 1)] = <<offset.m + row, offset.k + (j - 1)>>
        /\ b_tile[(j - 1) * tile_n + col] = <<offset.k + (j - 1), offset.n + col>>
    BY <2>1, Operands
  <2>3. /\ row * tile_k + (j - 1) = row * tile_k + j - 1
        /\ offset.k + (j - 1) = offset.k + j - 1
    <3>1. row * tile_k \in Nat
      BY <1>1
    <3> QED BY <1>1, <3>1
  <2> QED BY <2>2, <2>3 DEF Term
<1> QED BY <1>2, <1>3 DEF Terms, DotTerms

(* A job's terms follow those of the tiles before it.                      *)
LEMMA NextTerms ==
  ASSUME offset.k \in Nat, tile_k \in Nat
  PROVE  \A r, c \in Nat : Terms(r, c, 0, offset.k) \o Terms(r, c, offset.k, tile_k)
                             = Terms(r, c, 0, offset.k + tile_k)
BY TermsFollow

(***************************************************************************)
(* Accumulating a job's tile adds its terms to those of the tiles before   *)
(* it along the inner dimension, and touches nothing beside the tile.      *)
(***************************************************************************)
LEMMA AccumulatedTile ==
  ASSUME LoopInv, pc = "job", NEW dst, NEW base \in Nat
  PROVE  LET sum == Accumulate(dst, base, tile_m * tile_n, JobOutput)
         IN  /\ DOMAIN sum = DOMAIN dst
             /\ \A i \in DOMAIN dst \ (base..(base + tile_m * tile_n - 1)) : sum[i] = dst[i]
             /\ \A row \in 0..(tile_m - 1), col \in 0..(tile_n - 1) :
                  LET i == base + (row * tile_n + col)
                      r == offset.m + row
                      c == offset.n + col
                  IN  i \in DOMAIN dst /\ (offset.k > 0 => dst[i] = Terms(r, c, 0, offset.k))
                        => sum[i] = Terms(r, c, 0, offset.k + tile_k)
<1> DEFINE count == tile_m * tile_n
           sum == Accumulate(dst, base, count, JobOutput)
<1>1. /\ offset.m \in Nat /\ offset.n \in Nat /\ offset.k \in Nat
      /\ tile_m \in Nat \ {0} /\ tile_n \in Nat \ {0} /\ tile_k \in Nat \ {0}
      /\ offset.k > 0 <=> SplitK /\ tile.k > 0
  BY JobNumbers
<1>2. sum = [i \in DOMAIN dst |->
               IF i \notin base..(base + count - 1) THEN dst[i]
               ELSE IF offset.k > 0 THEN dst[i] \o JobOutput[i - base]
               ELSE JobOutput[i - base]]
  <2> HIDE DEF count
  <2> QED BY <1>1 DEF Accumulate
<1>3. ASSUME NEW row \in 0..(tile_m - 1), NEW col \in 0..(tile_n - 1),
             base + (row * tile_n + col) \in DOMAIN dst,
             offset.k > 0 =>
               dst[base + (row * tile_n + col)]
                 = Terms(offset.m + row, offset.n + col, 0, offset.k)
      PROVE  sum[base + (row * tile_n + col)]
               = Terms(offset.m + row, offset.n + col, 0, offset.k + tile_k)
  <2> DEFINE x == row * tile_n + col
             i == base + x
             r == offset.m + row
             c == offset.n + col
  <2>1. x \in 0..(count - 1)
    BY <1>1, RowMajor
  <2>2. JobOutput[x] = Terms(r, c, offset.k, tile_k)
    BY JobOutputTerms
  <2>3. r \in Nat /\ c \in Nat
    BY <1>1
  <2>4. count \in Nat
    BY <1>1
  <2>5. i \in DOMAIN dst /\ (offset.k > 0 => dst[i] = Terms(r, c, 0, offset.k))
    BY <1>3
  <2> HIDE DEF x, r, c, count, sum
  <2>6. i \in base..(base + count - 1) /\ i - base = x
    BY <2>1, <2>4
  <2> HIDE DEF i
  <2>7. sum[i] = IF offset.k > 0 THEN dst[i] \o JobOutput[x] ELSE JobOutput[x]
    BY <1>2, <2>5, <2>6
  <2>8. sum[i] = Terms(r, c, 0, offset.k + tile_k)
    <3>1. CASE offset.k > 0
      <4>1. Terms(r, c, 0, offset.k) \o Terms(r, c, offset.k, tile_k)
              = Terms(r, c, 0, offset.k + tile_k)
        <5>1. tile_k \in Nat
          BY <1>1
        <5> QED BY <1>1, <2>3, <5>1, NextTerms
      <4> QED BY <2>2, <2>5, <2>7, <3>1, <4>1
    <3>2. CASE ~(offset.k > 0)
      <4>1. offset.k = 0 /\ offset.k + tile_k = tile_k
        BY <1>1, <3>2
      <4> QED BY <2>2, <2>7, <4>1
    <3> QED BY <3>1, <3>2
  <2> QED BY <2>8 DEF i, x, r, c
<1> HIDE DEF count
<1>4. DOMAIN sum = DOMAIN dst
  BY <1>2
<1>5. \A i \in DOMAIN dst \ (base..(base + count - 1)) : sum[i] = dst[i]
  BY <1>2
<1> HIDE DEF sum
<1> QED BY <1>3, <1>4, <1>5 DEF sum, count

(* An array of h rows of w with a block of src in it.                      *)
Placed(new, dst, src, h, w, top, left, rows, cols) ==
  /\ DOMAIN new = DOMAIN dst
  /\ \A r \in 0..(h - 1), c \in 0..(w - 1) :
       new[r * w + c] =
         IF r \in top..(top + rows - 1) /\ c \in left..(left + cols - 1)
         THEN src[(r - top) * cols + (c - left)] ELSE dst[r * w + c]

(***************************************************************************)
(* Scattering a tile of rows x cols into an array of the given stride puts *)
(* it where it belongs and leaves everything else as it is.                *)
(***************************************************************************)
LEMMA ScatteredTile ==
  ASSUME NEW dst, NEW src, NEW h \in Nat \ {0}, NEW w \in Nat \ {0},
         DOMAIN dst = 0..(h * w - 1),
         NEW top \in Nat, NEW left \in Nat,
         NEW rows \in Nat \ {0}, NEW cols \in Nat \ {0},
         top + rows <= h, left + cols <= w
  PROVE  Placed(Scatter(dst, top * w + left, w, rows, cols, src), dst, src,
                h, w, top, left, rows, cols)
<1> DEFINE base == top * w + left
           new == Scatter(dst, base, w, rows, cols, src)
           inside(i) == i >= base /\ (i - base) \div w < rows /\ (i - base) % w < cols
<1>1. base \in Nat /\ top * w \in Nat
  OBVIOUS
<1>2. new = [i \in DOMAIN dst |->
               IF inside(i)
               THEN src[((i - base) \div w) * cols + ((i - base) % w)] ELSE dst[i]]
  BY DEF Scatter
<1>3. ASSUME NEW r \in 0..(h - 1), NEW c \in 0..(w - 1)
      PROVE  new[r * w + c] =
               IF r \in top..(top + rows - 1) /\ c \in left..(left + cols - 1)
               THEN src[(r - top) * cols + (c - left)] ELSE dst[r * w + c]
  <2> DEFINE i == r * w + c
  <2>1. i \in DOMAIN dst /\ i \in Nat /\ r * w \in Nat
    BY RowMajor
  <2>2. CASE r < top
    <3>1. (r + 1) * w <= top * w /\ (r + 1) * w = r * w + w
      BY <2>2, MulMonotone, MulNext
    <3>2. i < base
      BY <1>1, <2>1, <3>1
    <3>3. ~inside(i) /\ r \notin top..(top + rows - 1)
      BY <1>1, <2>1, <2>2, <3>2
    <3> HIDE DEF i, inside
    <3> QED BY <1>2, <2>1, <3>3 DEF i
  <2>3. CASE r >= top /\ c >= left
    <3> DEFINE q == r - top
               s == c - left
    <3>1. q \in Nat /\ s \in 0..(w - 1) /\ q * w + top * w = r * w
      <4>1. q \in Nat /\ q + top = r
        BY <2>3
      <4>2. (q + top) * w = q * w + top * w
        BY <4>1
      <4>3. s \in 0..(w - 1)
        BY <2>3
      <4> QED BY <4>1, <4>2, <4>3
    <3>2. q * w \in Nat
      BY <3>1
    <3>3. i - base = q * w + s
      BY <1>1, <2>1, <3>1, <3>2
    <3>4. (i - base) \div w = q /\ (i - base) % w = s /\ i >= base
      <4> HIDE DEF i, base, q, s
      <4>1. (q * w + s) \div w = q /\ (q * w + s) % w = s /\ q * w + s \in Nat
        BY <3>1, DivModUnique
      <4> QED BY <1>1, <2>1, <3>1, <3>3, <4>1
    <3>5. inside(i) <=> r \in top..(top + rows - 1) /\ c \in left..(left + cols - 1)
      <4>1. inside(i) <=> q < rows /\ s < cols
        <5> HIDE DEF i, base, q, s
        <5> QED BY <3>4
      <4> QED BY <2>3, <4>1
    <3> HIDE DEF i, base, inside, q, s
    <3> QED BY <1>2, <2>1, <3>4, <3>5 DEF i, q, s
  <2>4. CASE r = top /\ c < left
    <3>1. i < base
      BY <1>1, <2>1, <2>4
    <3>2. ~inside(i) /\ c \notin left..(left + cols - 1)
      BY <1>1, <2>1, <2>4, <3>1
    <3> HIDE DEF i, inside
    <3> QED BY <1>2, <2>1, <3>2 DEF i
  <2>5. CASE r > top /\ c < left
    <3> DEFINE q == r - top - 1
               s == w + c - left
    <3>1. q \in Nat /\ s \in 0..(w - 1) /\ q * w + w + top * w = r * w
      <4>1. q \in Nat /\ q + 1 + top = r
        BY <2>5
      <4>2. (q + 1 + top) * w = q * w + w + top * w
        BY <4>1
      <4>3. s \in 0..(w - 1)
        BY <2>5
      <4> QED BY <4>1, <4>2, <4>3
    <3>2. q * w \in Nat
      BY <3>1
    <3>3. i - base = q * w + s
      BY <1>1, <2>1, <3>1, <3>2
    <3>4. (i - base) % w = s
      <4> HIDE DEF i, base, q, s
      <4>1. (q * w + s) % w = s
        BY <3>1, DivModUnique
      <4> QED BY <3>3, <4>1
    <3>5. s >= cols /\ c \notin left..(left + cols - 1)
      BY <2>5
    <3>6. ~inside(i)
      <4> HIDE DEF i, base, s
      <4> QED BY <3>1, <3>4, <3>5
    <3> HIDE DEF i, inside
    <3> QED BY <1>2, <2>1, <3>5, <3>6 DEF i
  <2>6. r < top \/ (r >= top /\ c >= left) \/ (r = top /\ c < left) \/ (r > top /\ c < left)
    OBVIOUS
  <2> QED BY <2>2, <2>3, <2>4, <2>5, <2>6
<1>4. DOMAIN new = DOMAIN dst
  BY <1>2
<1> HIDE DEF new
<1> QED BY <1>3, <1>4 DEF new, base, Placed

-----------------------------------------------------------------------------
(***************************************************************************)
(* The inductive invariant of the data: the elements of earlier tiles of   *)
(* rows, and of this one's earlier tiles of columns, are complete; those   *)
(* of the current tile have the terms of the inner tiles before this one.  *)
(***************************************************************************)
Finished(r, c) == r < offset.m \/ (r < offset.m + tile_m /\ c < offset.n)

(* Where matmul_split_k adds up the current tile.                          *)
Sums(row, col) ==
  IF SplitN THEN tile_out[row * tile_n + col]
  ELSE actual[(offset.m + row) * shape.N + offset.n + col]

Complete(r, c) == actual[r * shape.N + c] = Terms(r, c, 0, shape.K)

ArraysFit ==
  /\ DOMAIN actual = 0..(shape.M * shape.N - 1)
  /\ SplitN => DOMAIN tile_out = 0..(shape.M * MaxTile - 1)

ResultRows == 0..(shape.M - 1)
ResultCols == 0..(shape.N - 1)

FinishedComplete ==
  \A r \in ResultRows, c \in ResultCols : Finished(r, c) => Complete(r, c)

TileSummed ==
  offset.k > 0 =>
    \A row \in 0..(tile_m - 1), col \in 0..(tile_n - 1) :
      Sums(row, col) = Terms(offset.m + row, offset.n + col, 0, offset.k)

ProductInv ==
  /\ pc = "job" => ArraysFit /\ FinishedComplete /\ TileSummed
  /\ status = "ok" => \A r \in ResultRows, c \in ResultCols : Complete(r, c)

(* The destination of the current tile after its job.                      *)
Columns == Accumulate(tile_out, 0, tile_m * tile_n, JobOutput)

LEMMA JobEffect ==
  ASSUME Job
  PROVE  /\ pc = "job" /\ shape' = shape
         /\ SplitN => /\ tile_out' = Columns
                      /\ actual' = IF LastK
                           THEN Scatter(actual, offset.m * shape.N + offset.n, shape.N,
                                        tile_m, tile_n, Columns)
                           ELSE actual
         /\ ~SplitN => /\ actual' = Accumulate(actual, offset.m * shape.N,
                                               tile_m * tile_n, JobOutput)
                       /\ tile_out' = tile_out
BY DEF Job, Columns, JobOutput

(***************************************************************************)
(* What a job does to the sums, split by columns: the tile is added up in  *)
(* tile_out and scattered into the result after its last inner tile.       *)
(***************************************************************************)
LEMMA SplitJob ==
  ASSUME LoopInv, ProductInv, Job, SplitN
  PROVE  /\ ArraysFit'
         /\ \A row \in 0..(tile_m - 1), col \in 0..(tile_n - 1) :
              tile_out'[row * tile_n + col]
                = Terms(offset.m + row, offset.n + col, 0, offset.k + tile_k)
         /\ \A r \in ResultRows, c \in ResultCols :
              actual'[r * shape.N + c] =
                IF LastK /\ r \in offset.m..(offset.m + tile_m - 1)
                         /\ c \in offset.n..(offset.n + tile_n - 1)
                THEN Terms(r, c, 0, shape.K) ELSE actual[r * shape.N + c]
<1>1. /\ pc = "job" /\ shape' = shape /\ tile_out' = Columns
      /\ actual' = IF LastK
           THEN Scatter(actual, offset.m * shape.N + offset.n, shape.N,
                        tile_m, tile_n, Columns)
           ELSE actual
  BY JobEffect
<1>2. /\ shape.M \in Nat \ {0} /\ shape.N \in Nat \ {0}
      /\ offset.m \in Nat /\ offset.n \in Nat /\ offset.k \in Nat
      /\ tile_m \in Nat \ {0} /\ tile_n \in Nat \ {0} /\ tile_k \in Nat \ {0}
      /\ offset.m + tile_m <= shape.M /\ offset.n + tile_n <= shape.N
      /\ LastK <=> offset.k + tile_k = shape.K
      /\ tile_n <= MaxTile /\ MaxTile \in Nat
  BY <1>1, JobNumbers, TileAssumption
<1>3. /\ DOMAIN actual = 0..(shape.M * shape.N - 1)
      /\ DOMAIN tile_out = 0..(shape.M * MaxTile - 1)
      /\ TileSummed
  BY <1>1 DEF ProductInv, ArraysFit
<1>4. DOMAIN Columns = DOMAIN tile_out
  BY <1>1, AccumulatedTile DEF Columns
<1>5. ASSUME NEW row \in 0..(tile_m - 1), NEW col \in 0..(tile_n - 1)
      PROVE  Columns[row * tile_n + col]
               = Terms(offset.m + row, offset.n + col, 0, offset.k + tile_k)
  <2>1. row * tile_n + col \in 0..(tile_m * tile_n - 1)
    BY <1>2, RowMajor
  <2>2. tile_m * tile_n <= shape.M * MaxTile
    <3>1. tile_m * tile_n <= shape.M * tile_n
      BY <1>2, MulMonotone
    <3>2. tile_n * shape.M <= MaxTile * shape.M
      BY <1>2, MulMonotone
    <3>3. /\ tile_n * shape.M = shape.M * tile_n /\ MaxTile * shape.M = shape.M * MaxTile
          /\ tile_m * tile_n \in Nat /\ shape.M * tile_n \in Nat /\ shape.M * MaxTile \in Nat
      BY <1>2
    <3> QED BY <3>1, <3>2, <3>3
  <2>3. row * tile_n + col \in DOMAIN tile_out /\ 0 + (row * tile_n + col) = row * tile_n + col
    <3>1. tile_m * tile_n \in Nat /\ shape.M * MaxTile \in Nat /\ row * tile_n + col \in Nat
      BY <1>2, <2>1
    <3> QED BY <1>3, <2>1, <2>2, <3>1
  <2>4. offset.k > 0 => tile_out[row * tile_n + col]
                          = Terms(offset.m + row, offset.n + col, 0, offset.k)
    BY <1>3 DEF TileSummed, Sums
  <2> QED BY <1>1, <2>3, <2>4, AccumulatedTile DEF Columns
<1>6. /\ DOMAIN actual' = DOMAIN actual
      /\ \A r \in ResultRows, c \in ResultCols :
           actual'[r * shape.N + c] =
             IF LastK /\ r \in offset.m..(offset.m + tile_m - 1)
                      /\ c \in offset.n..(offset.n + tile_n - 1)
             THEN Columns[(r - offset.m) * tile_n + (c - offset.n)]
             ELSE actual[r * shape.N + c]
  <2>1. CASE LastK
    <3>1. actual' = Scatter(actual, offset.m * shape.N + offset.n, shape.N,
                            tile_m, tile_n, Columns)
      BY <1>1, <2>1
    <3>2. Placed(actual', actual, Columns, shape.M, shape.N, offset.m, offset.n,
                 tile_m, tile_n)
      BY <1>2, <1>3, <3>1, ScatteredTile
    <3> QED BY <2>1, <3>2 DEF Placed, ResultRows, ResultCols
  <2>2. CASE ~LastK
    BY <1>1, <2>2
  <2> QED BY <2>1, <2>2
<1>7. ASSUME NEW r \in ResultRows, NEW c \in ResultCols,
             LastK, r \in offset.m..(offset.m + tile_m - 1),
             c \in offset.n..(offset.n + tile_n - 1)
      PROVE  Columns[(r - offset.m) * tile_n + (c - offset.n)] = Terms(r, c, 0, shape.K)
  <2>1. r - offset.m \in 0..(tile_m - 1) /\ c - offset.n \in 0..(tile_n - 1)
    BY <1>2, <1>7
  <2>2. offset.m + (r - offset.m) = r /\ offset.n + (c - offset.n) = c
    BY <1>2, <1>7
  <2>3. offset.k + tile_k = shape.K
    BY <1>2, <1>7
  <2> QED BY <1>5, <2>1, <2>2, <2>3
<1>8. ArraysFit'
  BY <1>1, <1>3, <1>4, <1>6 DEF ArraysFit, SplitN
<1> QED BY <1>1, <1>5, <1>6, <1>7, <1>8

(* And not split by columns: the tile is added up in the rows of the       *)
(* result it belongs to.                                                   *)
LEMMA WholeRowsJob ==
  ASSUME LoopInv, ProductInv, Job, ~SplitN
  PROVE  /\ ArraysFit'
         /\ \A row \in 0..(tile_m - 1), col \in 0..(tile_n - 1) :
              actual'[(offset.m + row) * shape.N + offset.n + col]
                = Terms(offset.m + row, offset.n + col, 0, offset.k + tile_k)
         /\ \A r \in ResultRows, c \in ResultCols :
              r < offset.m => actual'[r * shape.N + c] = actual[r * shape.N + c]
<1> DEFINE base == offset.m * shape.N
<1>1. /\ pc = "job" /\ shape' = shape
      /\ actual' = Accumulate(actual, base, tile_m * tile_n, JobOutput)
      /\ tile_out' = tile_out
  BY JobEffect
<1>2. /\ shape.M \in Nat \ {0} /\ shape.N \in Nat \ {0}
      /\ offset.m \in Nat /\ offset.k \in Nat
      /\ tile_m \in Nat \ {0} /\ tile_k \in Nat \ {0}
      /\ offset.m + tile_m <= shape.M
      /\ offset.n = 0 /\ tile_n = shape.N
  BY <1>1, JobNumbers
<1>3. DOMAIN actual = 0..(shape.M * shape.N - 1) /\ TileSummed
  BY <1>1 DEF ProductInv, ArraysFit
<1>4. base \in Nat
  BY <1>2
<1> HIDE DEF base
<1>5. DOMAIN actual' = DOMAIN actual
  BY <1>1, <1>4, AccumulatedTile
<1>6. ASSUME NEW row \in 0..(tile_m - 1), NEW col \in 0..(tile_n - 1)
      PROVE  actual'[(offset.m + row) * shape.N + offset.n + col]
               = Terms(offset.m + row, offset.n + col, 0, offset.k + tile_k)
  <2> DEFINE i == base + (row * tile_n + col)
  <2>1. i = (offset.m + row) * shape.N + offset.n + col
    <3>1. (offset.m + row) * shape.N = offset.m * shape.N + row * shape.N
      BY <1>2
    <3>2. offset.m * shape.N \in Nat /\ row * shape.N \in Nat
      BY <1>2
    <3> QED BY <1>2, <3>1, <3>2 DEF base
  <2>2. i \in DOMAIN actual
    <3>1. offset.m + row \in 0..(shape.M - 1) /\ col \in 0..(shape.N - 1)
      BY <1>2
    <3>2. (offset.m + row) * shape.N + col \in 0..(shape.M * shape.N - 1)
      BY <1>2, <3>1, RowMajor
    <3>3. (offset.m + row) * shape.N \in Nat
      BY <1>2
    <3> HIDE DEF i
    <3> QED BY <1>2, <1>3, <2>1, <3>2, <3>3
  <2>3. offset.k > 0 => actual[i] = Terms(offset.m + row, offset.n + col, 0, offset.k)
    BY <1>3, <2>1 DEF TileSummed, Sums
  <2>4. actual'[i] = Terms(offset.m + row, offset.n + col, 0, offset.k + tile_k)
    BY <1>1, <1>4, <2>2, <2>3, AccumulatedTile
  <2> HIDE DEF i
  <2> QED BY <2>1, <2>4
<1>7. ASSUME NEW r \in ResultRows, NEW c \in ResultCols, r < offset.m
      PROVE  actual'[r * shape.N + c] = actual[r * shape.N + c]
  <2>1. r \in 0..(shape.M - 1) /\ c \in 0..(shape.N - 1)
    BY DEF ResultRows, ResultCols
  <2>2. r * shape.N + c \in DOMAIN actual
    BY <1>2, <1>3, <2>1, RowMajor
  <2>3. r * shape.N + c < base
    <3>1. (r + 1) * shape.N <= offset.m * shape.N /\ (r + 1) * shape.N = r * shape.N + shape.N
      BY <1>2, <1>7, <2>1, MulMonotone, MulNext
    <3>2. r * shape.N \in Nat /\ offset.m * shape.N \in Nat
      BY <1>2, <2>1
    <3> QED BY <1>2, <2>1, <3>1, <3>2 DEF base
  <2>4. r * shape.N + c \in DOMAIN actual \ (base..(base + tile_m * tile_n - 1))
    <3> DEFINE i == r * shape.N + c
    <3> HIDE DEF i
    <3>1. i \in DOMAIN actual /\ i < base
      BY <2>2, <2>3 DEF i
    <3>2. i \notin base..(base + tile_m * tile_n - 1)
      <4>1. tile_m * tile_n \in Nat
        BY <1>2
      <4> QED BY <1>4, <3>1, <4>1
    <3> QED BY <3>1, <3>2 DEF i
  <2> QED BY <1>1, <1>4, <2>4, AccumulatedTile
<1>8. ArraysFit'
  BY <1>1, <1>3, <1>5 DEF ArraysFit, SplitN
<1> QED BY <1>6, <1>7, <1>8

(***************************************************************************)
(* Split or not, a job completes the elements of its tile if it is the     *)
(* last along the inner dimension, and disturbs none completed before.     *)
(***************************************************************************)
LEMMA JobProgress ==
  ASSUME LoopInv, ProductInv, Job
  PROVE  /\ ArraysFit'
         /\ \A row \in 0..(tile_m - 1), col \in 0..(tile_n - 1) :
              (IF SplitN THEN tile_out'[row * tile_n + col]
               ELSE actual'[(offset.m + row) * shape.N + offset.n + col])
                = Terms(offset.m + row, offset.n + col, 0, offset.k + tile_k)
         /\ \A r \in ResultRows, c \in ResultCols :
              /\ Finished(r, c) => actual'[r * shape.N + c] = Terms(r, c, 0, shape.K)
              /\ LastK /\ r \in offset.m..(offset.m + tile_m - 1)
                       /\ c \in offset.n..(offset.n + tile_n - 1)
                   => actual'[r * shape.N + c] = Terms(r, c, 0, shape.K)
<1>1. /\ pc = "job" /\ FinishedComplete
  BY JobEffect DEF ProductInv
<1>2. /\ shape.M \in Nat \ {0} /\ shape.N \in Nat \ {0}
      /\ offset.m \in Nat /\ offset.n \in Nat
      /\ tile_m \in Nat \ {0} /\ tile_n \in Nat \ {0}
      /\ LastK => offset.k + tile_k = shape.K
      /\ ~SplitN => offset.n = 0 /\ tile_n = shape.N
  BY <1>1, JobNumbers
<1>3. CASE SplitN
  <2>1. ASSUME NEW r \in ResultRows, NEW c \in ResultCols, Finished(r, c)
        PROVE  ~(r \in offset.m..(offset.m + tile_m - 1)
                 /\ c \in offset.n..(offset.n + tile_n - 1))
               /\ actual[r * shape.N + c] = Terms(r, c, 0, shape.K)
    <3>1. actual[r * shape.N + c] = Terms(r, c, 0, shape.K)
      BY <1>1, <2>1 DEF FinishedComplete, Complete
    <3>2. r \in Nat /\ c \in Nat
      BY <1>2 DEF ResultRows, ResultCols
    <3> QED BY <1>2, <2>1, <3>1, <3>2 DEF Finished
  <2> QED BY <1>3, <2>1, SplitJob
<1>4. CASE ~SplitN
  <2>1. ASSUME NEW r \in ResultRows, NEW c \in ResultCols
        PROVE  /\ r < offset.m => actual[r * shape.N + c] = Terms(r, c, 0, shape.K)
               /\ Finished(r, c) => r < offset.m
    <3>1. r \in Nat /\ c \in Nat /\ offset.n = 0
      BY <1>2, <1>4 DEF ResultRows, ResultCols
    <3>2. Finished(r, c) <=> r < offset.m
      BY <3>1 DEF Finished
    <3> QED BY <1>1, <3>2 DEF FinishedComplete, Complete
  <2>2. ASSUME NEW r \in ResultRows, NEW c \in ResultCols,
               LastK, r \in offset.m..(offset.m + tile_m - 1)
        PROVE  actual'[r * shape.N + c] = Terms(r, c, 0, shape.K)
    <3> DEFINE row == r - offset.m
    <3>1. row \in 0..(tile_m - 1) /\ c \in 0..(tile_n - 1) /\ offset.m + row = r
          /\ offset.n + c = c
      BY <1>2, <1>4, <2>2 DEF ResultRows, ResultCols
    <3>2. r * shape.N \in Nat
      BY <1>2 DEF ResultRows
    <3>3. r * shape.N + offset.n + c = r * shape.N + c
      BY <1>2, <1>4, <3>1, <3>2
    <3>4. offset.k + tile_k = shape.K
      BY <1>2, <2>2
    <3> HIDE DEF row
    <3>5. actual'[(offset.m + row) * shape.N + offset.n + c]
            = Terms(offset.m + row, offset.n + c, 0, offset.k + tile_k)
      BY <1>4, <3>1, WholeRowsJob
    <3> QED BY <3>1, <3>3, <3>4, <3>5
  <2> QED BY <1>4, <2>1, <2>2, WholeRowsJob
<1> QED BY <1>3, <1>4

LEMMA ProductInvInit == Init => ProductInv
BY DEF Init, ProductInv

LEMMA ProductInvBegin ==
  ASSUME LoopInv, NEW s \in Shapes, Begin(s)
  PROVE  ProductInv'
<1>1. /\ pc = "idle" /\ pc' = "job" /\ shape' = s /\ status' = status
      /\ actual' = Floats(s.M * s.N)
      /\ tile_out' = Floats(IF s.N > MaxTile THEN s.M * MaxTile ELSE 0)
      /\ tile' = tile /\ offset' = offset
  BY DEF Begin
<1>2. tile = Start /\ offset = Start /\ status # "ok"
  BY <1>1 DEF LoopInv, TypeOK
<1>3. /\ offset'.m = 0 /\ offset'.n = 0 /\ offset'.k = 0
  BY <1>1, <1>2 DEF Start
<1>4. ArraysFit'
  BY <1>1 DEF ArraysFit, Floats, SplitN
<1>5. ASSUME NEW r \in ResultRows', NEW c \in ResultCols'
      PROVE  ~(Finished(r, c)')
  <2>1. r \in Nat /\ c \in Nat
    BY DEF ResultRows, ResultCols
  <2> QED BY <1>3, <2>1 DEF Finished
<1>6. FinishedComplete' /\ TileSummed'
  BY <1>3, <1>5 DEF FinishedComplete, TileSummed
<1> QED BY <1>1, <1>2, <1>4, <1>6 DEF ProductInv

LEMMA ProductInvJob ==
  ASSUME LoopInv, LoopInv', ProductInv, Job
  PROVE  ProductInv'
<1>1. /\ pc = "job" /\ shape' = shape /\ Advance
      /\ IF LastK /\ LastN /\ LastM
           THEN pc' = "done" /\ status' = "ok"
           ELSE pc' = pc /\ status' = status
  BY DEF Job
<1>2. status # "ok"
  BY <1>1 DEF LoopInv, TypeOK
<1>3. /\ shape.M \in Nat \ {0} /\ shape.N \in Nat \ {0}
      /\ offset.m \in Nat /\ offset.n \in Nat /\ offset.k \in Nat
      /\ tile_m \in Nat \ {0} /\ tile_n \in Nat \ {0} /\ tile_k \in Nat \ {0}
      /\ offset.m + tile_m <= shape.M /\ (LastM <=> offset.m + tile_m = shape.M)
      /\ offset.n + tile_n <= shape.N /\ (LastN <=> offset.n + tile_n = shape.N)
      /\ LastK <=> offset.k + tile_k = shape.K
      /\ ArraysFit'
  BY <1>1, JobNumbers, JobProgress
<1>4. /\ tile \in [m : Nat, n : Nat, k : Nat] /\ offset \in [m : Nat, n : Nat, k : Nat]
  BY DEF LoopInv, TypeOK
<1>5. ASSUME NEW r \in ResultRows, NEW c \in ResultCols
      PROVE  r \in Nat /\ c \in Nat /\ r < shape.M /\ c < shape.N
  BY <1>3 DEF ResultRows, ResultCols
<1>6. ASSUME NEW r \in ResultRows, NEW c \in ResultCols,
             \/ Finished(r, c)
             \/ /\ LastK
                /\ \/ r < offset.m
                   \/ r < offset.m + tile_m /\ c < offset.n + tile_n
      PROVE  Complete(r, c)'
  <2>1. \/ Finished(r, c)
        \/ LastK /\ r \in offset.m..(offset.m + tile_m - 1)
                 /\ c \in offset.n..(offset.n + tile_n - 1)
    BY <1>3, <1>5, <1>6 DEF Finished
  <2> QED BY <1>1, <2>1, JobProgress DEF Complete
<1>7. CASE ~LastK
  <2>1. /\ offset' = [offset EXCEPT !.k = offset.k + tile_k]
        /\ tile' = [tile EXCEPT !.k = tile.k + 1]
        /\ pc' = "job" /\ status' = status
    BY <1>1, <1>7 DEF Advance
  <2>2. /\ offset'.m = offset.m /\ offset'.n = offset.n /\ offset'.k = offset.k + tile_k
        /\ tile_m' = tile_m /\ tile_n' = tile_n
    BY <1>1, <1>4, <2>1 DEF tile_m, tile_n
  <2>3. FinishedComplete'
    <3>1. ASSUME NEW r \in ResultRows, NEW c \in ResultCols, Finished(r, c)'
          PROVE  Complete(r, c)'
      BY <1>6, <2>2, <3>1 DEF Finished
    <3> QED BY <1>1, <3>1 DEF FinishedComplete, ResultRows, ResultCols
  <2>4. TileSummed'
    BY <1>1, <2>2, JobProgress DEF TileSummed, Sums, SplitN
  <2> QED BY <1>2, <1>3, <2>1, <2>3, <2>4 DEF ProductInv
<1>8. CASE LastK /\ ~LastN
  <2>1. /\ offset' = [offset EXCEPT !.k = 0, !.n = offset.n + tile_n]
        /\ tile' = [tile EXCEPT !.k = 0, !.n = tile.n + 1]
        /\ pc' = "job" /\ status' = status
    BY <1>1, <1>8 DEF Advance
  <2>2. /\ offset'.m = offset.m /\ offset'.n = offset.n + tile_n /\ offset'.k = 0
        /\ tile_m' = tile_m
    BY <1>1, <1>4, <2>1 DEF tile_m
  <2>3. FinishedComplete'
    <3>1. ASSUME NEW r \in ResultRows, NEW c \in ResultCols, Finished(r, c)'
          PROVE  Complete(r, c)'
      BY <1>6, <1>8, <2>2, <3>1 DEF Finished
    <3> QED BY <1>1, <3>1 DEF FinishedComplete, ResultRows, ResultCols
  <2>4. TileSummed'
    BY <2>2 DEF TileSummed
  <2> QED BY <1>2, <1>3, <2>1, <2>3, <2>4 DEF ProductInv
<1>9. CASE LastK /\ LastN /\ ~LastM
  <2>1. /\ offset' = [Start EXCEPT !.m = offset.m + tile_m]
        /\ tile' = [Start EXCEPT !.m = tile.m + 1]
        /\ pc' = "job" /\ status' = status
    BY <1>1, <1>9 DEF Advance
  <2>2. /\ offset'.m = offset.m + tile_m /\ offset'.n = 0 /\ offset'.k = 0
    BY <1>1, <1>4, <2>1 DEF Start
  <2>3. FinishedComplete'
    <3>1. ASSUME NEW r \in ResultRows, NEW c \in ResultCols, Finished(r, c)'
          PROVE  Complete(r, c)'
      <4>1. r < offset.m + tile_m
        BY <1>5, <2>2, <3>1 DEF Finished
      <4>2. c < offset.n + tile_n
        BY <1>3, <1>5, <1>9
      <4> QED BY <1>6, <1>9, <4>1, <4>2
    <3> QED BY <1>1, <3>1 DEF FinishedComplete, ResultRows, ResultCols
  <2>4. TileSummed'
    BY <2>2 DEF TileSummed
  <2> QED BY <1>2, <1>3, <2>1, <2>3, <2>4 DEF ProductInv
<1>10. CASE LastK /\ LastN /\ LastM
  <2>1. ASSUME NEW r \in ResultRows, NEW c \in ResultCols
        PROVE  Complete(r, c)'
    <3>1. r < offset.m + tile_m /\ c < offset.n + tile_n
      BY <1>3, <1>5, <1>10
    <3> QED BY <1>6, <1>10, <3>1
  <2>2. pc' = "done"
    BY <1>1, <1>10
  <2> QED BY <1>1, <2>1, <2>2 DEF ProductInv, ResultRows, ResultCols
<1> QED BY <1>7, <1>8, <1>9, <1>10

LEMMA ProductInvStep == LoopInv /\ LoopInv' /\ ProductInv /\ [Next]_vars => ProductInv'
<1> SUFFICES ASSUME LoopInv, LoopInv', ProductInv, [Next]_vars PROVE ProductInv'
  OBVIOUS
<1>1. ASSUME NEW s \in Shapes, Begin(s) PROVE ProductInv'
  BY <1>1, ProductInvBegin
<1>2. CASE Job
  BY <1>2, ProductInvJob
<1>3. CASE JobFails \/ BufferFails
  BY <1>3 DEF JobFails, BufferFails, ProductInv
<1>4. CASE Done \/ UNCHANGED vars
  BY <1>4 DEF Done, vars, ProductInv, ArraysFit, SplitN, FinishedComplete, TileSummed,
     Finished, Complete, Sums, ResultRows, ResultCols, tile_m, tile_n
<1> QED BY <1>1, <1>2, <1>3, <1>4 DEF Next

(* Each index of the result is that of an element.                         *)
LEMMA ElementsCorrect == LoopInv /\ ProductInv => ProductCorrect
<1> SUFFICES ASSUME LoopInv, ProductInv, status = "ok",
                    NEW i \in 0..(shape.M * shape.N - 1)
             PROVE  actual[i] = [j \in 1..shape.K |->
                      <<<<i \div shape.N, j - 1>>, <<j - 1, i % shape.N>>>>]
  BY DEF ProductCorrect
<1> DEFINE r == i \div shape.N
           c == i % shape.N
<1>1. shape.M \in Nat /\ shape.N \in Nat \ {0} /\ shape.K \in Nat
  BY DEF LoopInv, TypeOK
<1>2. r \in ResultRows /\ c \in ResultCols /\ i = r * shape.N + c
  BY <1>1, RowMajorAll DEF ResultRows, ResultCols
<1> HIDE DEF r, c
<1>3. actual[i] = Terms(r, c, 0, shape.K)
  BY <1>2 DEF ProductInv, Complete
<1>4. Terms(r, c, 0, shape.K) = [j \in 1..shape.K |-> <<<<r, j - 1>>, <<j - 1, c>>>>]
  <2>1. \A j \in 1..shape.K : 0 + j - 1 = j - 1
    OBVIOUS
  <2> QED BY <2>1 DEF Terms, Term
<1> QED BY <1>3, <1>4 DEF r, c

(***************************************************************************)
(* For every shape and every value of the limits a success means that each *)
(* element of the result has exactly its K terms, each once and in order.  *)
(***************************************************************************)
THEOREM ProductIsRight == Spec => []ProductCorrect
<1> QED BY LoopInvCorrect, ProductInvInit, ProductInvStep, ElementsCorrect, PTL DEF Spec

-----------------------------------------------------------------------------
Sizes == [M : Nat \ {0}, N : Nat \ {0}, K : Nat \ {0}]
Jobs == [M : Nat \ {0}, N : Nat \ {0}, K : Nat \ {0}, prepacked : BOOLEAN]

(* Rows are padded to whole tiles of 32.                                   *)
LEMMA Aligned ==
  ASSUME NEW x \in Nat \ {0}
  PROVE  \E p \in Nat \ {0} : Layout!AlignUp(x) = p * 32 /\ x <= p * 32 /\ p * 32 < x + 32
<1> DEFINE p == (x + 31) \div 32
<1>1. p \in Nat \ {0} /\ x <= p * 32 /\ p * 32 < x + 32
  OBVIOUS
<1> QED BY <1>1 DEF Layout!AlignUp

-----------------------------------------------------------------------------
(* Where weight_fp16 puts inner element k of column n, of rows of p tiles. *)
TileOf(p, n, k) == (n \div 16) * p + (k \div 32)
PlaceInTile(n, k) == (n % 16) * 32 + (k % 32)
InTiles(p, n, k) == TileOf(p, n, k) * 512 + PlaceInTile(n, k)

LEMMA WeightTiles ==
  ASSUME NEW p \in Nat \ {0}, NEW n \in Nat, NEW k \in Nat
  PROVE  Layout!weight_fp16(p * 32, n + 1, k + 1) = InTiles(p, n, k)
<1> DEFINE nq == n \div 16
           kq == k \div 32
           nr == n % 16
           kr == k % 32
<1>1. n + 1 - 1 = n /\ k + 1 - 1 = k
  OBVIOUS
<1>2. nq \in Nat /\ kq \in Nat /\ nr \in Nat /\ kr \in Nat
  BY DivMod
<1>3. Layout!weight_fp16(p * 32, n + 1, k + 1)
        = (kq * 32) * 16 + nq * 16 * (p * 32) + kr + nr * 32
  BY <1>1 DEF Layout!weight_fp16
<1> HIDE DEF nq, kq, nr, kr
<1>4. nq * p \in Nat /\ nq * 16 * (p * 32) = (nq * p) * 512
  BY <1>2
<1>5. (nq * p + kq) * 512 = (nq * p) * 512 + kq * 512
  BY <1>2, <1>4
<1> QED BY <1>2, <1>3, <1>4, <1>5 DEF InTiles, TileOf, PlaceInTile, nq, kq, nr, kr

(* The hand-written packers put the weights there, too.                    *)
LEMMA HandWritten ==
  ASSUME NEW j \in Jobs, j.prepacked => \E size \in {8, 9, 64, 256} : Layout!Cube(j, size),
         NEW n \in 0..(j.N - 1), NEW k \in 0..(j.K - 1)
  PROVE  Layout!WeightIndex(j, n, k)
           = Layout!weight_fp16(Layout!AlignIn(j), n + 1, k + 1)
<1>1. ASSUME j.N \in {8, 9, 32}, j.K \in {8, 9, 32}, j.N = j.K
      PROVE  Layout!ByColumn(j, n, k)
               = Layout!weight_fp16(Layout!AlignIn(j), n + 1, k + 1)
  <2>1. Layout!AlignIn(j) = 32
    BY <1>1 DEF Layout!AlignIn, Layout!AlignUp
  <2>2. n \in 0..31 /\ k \in 0..31
    BY <1>1
  <2>3. n * 32 + k = (((k + 1 - 1) \div 32) * 32) * 16 + ((n + 1 - 1) \div 16) * 16 * 32
                       + ((k + 1 - 1) % 32) + ((n + 1 - 1) % 16) * 32
    BY <2>2
  <2> QED BY <2>1, <2>3 DEF Layout!ByColumn, Layout!weight_fp16
<1>2. Layout!PackWeights(j, n, k)
        = Layout!weight_fp16(Layout!AlignIn(j), n + 1, k + 1)
  BY <1>1 DEF Layout!PackWeights
<1>3. Layout!PlainWeights(j, n, k)
        = Layout!weight_fp16(Layout!AlignIn(j), n + 1, k + 1)
  BY <1>1, <1>2 DEF Layout!PlainWeights
<1>4. Layout!PrepackedWeights(j, n, k)
        = Layout!weight_fp16(Layout!AlignIn(j), n + 1, k + 1)
  BY <1>1, <1>2 DEF Layout!PrepackedWeights, Layout!Cube
<1> QED BY <1>3, <1>4 DEF Layout!WeightIndex

(* Tiles keep to the buffer.                                               *)
LEMMA TilesHold ==
  ASSUME NEW o \in Nat \ {0}, NEW p \in Nat \ {0},
         NEW n \in 0..(o * 32 - 1), NEW k \in 0..(p * 32 - 1)
  PROVE  InTiles(p, n, k) \in 0..(p * 32 * (o * 32) - 1)
<1> DEFINE nq == n \div 16
           kq == k \div 32
           r == (n % 16) * 32 + (k % 32)
           q == nq * p + kq
<1>1. nq \in 0..(o * 2 - 1) /\ kq \in 0..(p - 1) /\ r \in 0..511
  OBVIOUS
<1> HIDE DEF nq, kq, r
<1>2. o * 2 \in Nat
  OBVIOUS
<1>3. q \in 0..((o * 2) * p - 1)
  BY <1>1, <1>2, RowMajor
<1> HIDE DEF q
<1>4. (o * 2) * p \in Nat
  OBVIOUS
<1>5. q * 512 + r \in 0..(((o * 2) * p) * 512 - 1)
  BY <1>1, <1>3, <1>4, RowMajor
<1>6. ((o * 2) * p) * 512 = p * 32 * (o * 32)
  OBVIOUS
<1> QED BY <1>5, <1>6 DEF InTiles, TileOf, PlaceInTile, q, r, nq, kq

(* The tile and the place in it tell the weight.                           *)
LEMMA TilesDecoded ==
  ASSUME NEW p \in Nat \ {0}, NEW n \in Nat, NEW k \in 0..(p * 32 - 1)
  PROVE  /\ InTiles(p, n, k) \div 512 = TileOf(p, n, k)
         /\ InTiles(p, n, k) % 512 = PlaceInTile(n, k)
         /\ TileOf(p, n, k) \div p = n \div 16 /\ TileOf(p, n, k) % p = k \div 32
         /\ PlaceInTile(n, k) \div 32 = n % 16 /\ PlaceInTile(n, k) % 32 = k % 32
<1> DEFINE nq == n \div 16
           kq == k \div 32
           r == (n % 16) * 32 + (k % 32)
           q == nq * p + kq
<1>1. nq \in Nat /\ kq \in 0..(p - 1) /\ r \in 0..511
  OBVIOUS
<1>2. r \div 32 = n % 16 /\ r % 32 = k % 32
  OBVIOUS
<1> HIDE DEF nq, kq, r
<1>3. q \in Nat /\ q \div p = nq /\ q % p = kq
  BY <1>1, DivModUnique
<1> HIDE DEF q
<1>4. (q * 512 + r) \div 512 = q /\ (q * 512 + r) % 512 = r
  BY <1>1, <1>3
<1> QED BY <1>2, <1>3, <1>4 DEF InTiles, TileOf, PlaceInTile, q, r, nq, kq

(* No two weights share a place.                                           *)
LEMMA TilesDistinct ==
  ASSUME NEW p \in Nat \ {0},
         NEW n1 \in Nat, NEW k1 \in 0..(p * 32 - 1),
         NEW n2 \in Nat, NEW k2 \in 0..(p * 32 - 1),
         InTiles(p, n1, k1) = InTiles(p, n2, k2)
  PROVE  n1 = n2 /\ k1 = k2
<1> DEFINE Decoded(n, k) ==
             /\ InTiles(p, n, k) \div 512 = TileOf(p, n, k)
             /\ InTiles(p, n, k) % 512 = PlaceInTile(n, k)
             /\ TileOf(p, n, k) \div p = n \div 16 /\ TileOf(p, n, k) % p = k \div 32
             /\ PlaceInTile(n, k) \div 32 = n % 16 /\ PlaceInTile(n, k) % 32 = k % 32
<1>1. Decoded(n1, k1) /\ Decoded(n2, k2)
  BY TilesDecoded
<1>2. TileOf(p, n1, k1) = TileOf(p, n2, k2) /\ PlaceInTile(n1, k1) = PlaceInTile(n2, k2)
  BY <1>1, Zenon
<1>3. n1 \div 16 = n2 \div 16 /\ k1 \div 32 = k2 \div 32
  <2>1. TileOf(p, n1, k1) \div p = n1 \div 16 /\ TileOf(p, n2, k2) \div p = n2 \div 16
    BY <1>1, Zenon
  <2>2. TileOf(p, n1, k1) % p = k1 \div 32 /\ TileOf(p, n2, k2) % p = k2 \div 32
    BY <1>1, Zenon
  <2> HIDE DEF Decoded
  <2>3. n1 \div 16 = n2 \div 16
    BY <1>2, <2>1, Zenon
  <2>4. k1 \div 32 = k2 \div 32
    BY <1>2, <2>2, Zenon
  <2> QED BY <2>3, <2>4
<1>4. n1 % 16 = n2 % 16 /\ k1 % 32 = k2 % 32
  <2>1. PlaceInTile(n1, k1) \div 32 = n1 % 16 /\ PlaceInTile(n2, k2) \div 32 = n2 % 16
    BY <1>1, Zenon
  <2>2. PlaceInTile(n1, k1) % 32 = k1 % 32 /\ PlaceInTile(n2, k2) % 32 = k2 % 32
    BY <1>1, Zenon
  <2>3. n1 % 16 = n2 % 16
    BY <1>2, <2>1, Zenon
  <2>4. k1 % 32 = k2 % 32
    BY <1>2, <2>2, Zenon
  <2> QED BY <2>3, <2>4
<1>5. k1 \in Nat /\ k2 \in Nat
  OBVIOUS
<1> HIDE DEF Decoded
<1> QED BY <1>3, <1>4, <1>5

(* The places of a whole array of weights are as many as its elements.     *)
Places(p, N, K) == {InTiles(p, n, k) : n \in 0..(N - 1), k \in 0..(K - 1)}

LEMMA OnePlaceEach ==
  ASSUME NEW N \in Nat \ {0}, NEW K \in Nat \ {0}, NEW p \in Nat \ {0}, K <= p * 32
  PROVE  Cardinality(Places(p, N, K)) = N * K
<1> DEFINE Place(n, k) == InTiles(p, n, k)
<1>0. \A n1, n2 \in 0..(N - 1), k1, k2 \in 0..(K - 1) :
        Place(n1, k1) = Place(n2, k2) => n1 = n2 /\ k1 = k2
  <2> SUFFICES ASSUME NEW n1 \in 0..(N - 1), NEW n2 \in 0..(N - 1),
                      NEW k1 \in 0..(K - 1), NEW k2 \in 0..(K - 1),
                      InTiles(p, n1, k1) = InTiles(p, n2, k2)
               PROVE  n1 = n2 /\ k1 = k2
    OBVIOUS
  <2>1. /\ n1 \in Nat /\ k1 \in 0..(p * 32 - 1)
        /\ n2 \in Nat /\ k2 \in 0..(p * 32 - 1)
    OBVIOUS
  <2> QED BY <2>1, TilesDistinct
<1> HIDE DEF Place
<1> DEFINE S == 0..(N * K - 1)
           T == {Place(n, k) : n \in 0..(N - 1), k \in 0..(K - 1)}
           f == [i \in S |-> Place(i \div K, i % K)]
<1>1. \A i \in S : i \div K \in 0..(N - 1) /\ i % K \in 0..(K - 1) /\ i = (i \div K) * K + (i % K)
  BY RowMajorAll
<1>2. f \in [S -> T]
  BY <1>1
<1>3. \A x, y \in S : f[x] = f[y] => x = y
  <2> SUFFICES ASSUME NEW x \in S, NEW y \in S, f[x] = f[y] PROVE x = y
    OBVIOUS
  <2>1. /\ x \div K \in 0..(N - 1) /\ x % K \in 0..(K - 1) /\ x = (x \div K) * K + (x % K)
        /\ y \div K \in 0..(N - 1) /\ y % K \in 0..(K - 1) /\ y = (y \div K) * K + (y % K)
    BY <1>1
  <2>2. Place(x \div K, x % K) = Place(y \div K, y % K)
    BY Zenon
  <2>3. x \div K = y \div K /\ x % K = y % K
    <3> DEFINE xn == x \div K
               xk == x % K
               yn == y \div K
               yk == y % K
    <3>1. xn \in 0..(N - 1) /\ xk \in 0..(K - 1) /\ yn \in 0..(N - 1) /\ yk \in 0..(K - 1)
      BY <2>1
    <3>2. Place(xn, xk) = Place(yn, yk)
      BY <2>2
    <3> HIDE DEF xn, xk, yn, yk
    <3>3. xn = yn /\ xk = yk
      BY <1>0, <3>1, <3>2
    <3> QED BY <3>3 DEF xn, xk, yn, yk
  <2> QED BY <2>1, <2>3, Zenon
<1>4. \A t \in T : \E x \in S : f[x] = t
  <2> SUFFICES ASSUME NEW n \in 0..(N - 1), NEW k \in 0..(K - 1)
               PROVE  \E x \in S : f[x] = Place(n, k)
    OBVIOUS
  <2>1. n * K + k \in S /\ (n * K + k) \div K = n /\ (n * K + k) % K = k
    BY RowMajor
  <2>2. f[n * K + k] = Place(n, k)
    <3> HIDE DEF S
    <3> QED BY <2>1
  <2> QED BY <2>1, <2>2
<1> HIDE DEF f, T
<1>5. ExistsBijection(S, T)
  <2> HIDE DEF S
  <2>1. f \in Injection(S, T) /\ f \in Surjection(S, T)
    BY <1>2, <1>3, <1>4 DEF Injection, Surjection, IsInjective
  <2> QED BY <2>1 DEF ExistsBijection, Bijection
<1>6. N * K \in Nat \ {0} /\ N * K - 1 \in Int
  OBVIOUS
<1>7. IsFiniteSet(S) /\ Cardinality(S) = N * K
  <2> DEFINE last == N * K - 1
  <2>1. last \in Nat /\ last - 0 + 1 = N * K
    BY <1>6
  <2> HIDE DEF last
  <2>2. IsFiniteSet(0..last) /\ Cardinality(0..last) = last - 0 + 1
    BY <2>1, FS_Interval
  <2> QED BY <2>1, <2>2 DEF last
<1> HIDE DEF S
<1>8. Cardinality(T) = Cardinality(S)
  BY <1>5, <1>7, FS_Bijection
<1> QED BY <1>7, <1>8 DEF T, Place, Places

-----------------------------------------------------------------------------
(* Planes of c2 channels of h rows: where channel x of row m lies.         *)
InPlanes(h, c2, m, x) == (x \div c2) * h * c2 + m * c2 + (x % c2)

LEMMA PlanesHold ==
  ASSUME NEW h \in Nat \ {0}, NEW c2 \in Nat \ {0}, NEW planes \in Nat,
         NEW width, width = planes * c2,
         NEW m \in 0..(h - 1), NEW x \in 0..(width - 1)
  PROVE  InPlanes(h, c2, m, x) \in 0..(width * h - 1)
<1> DEFINE q == x \div c2
           s == x % c2
<1>1. q \in 0..(planes - 1) /\ s \in 0..(c2 - 1)
  BY RowMajorAll
<1> HIDE DEF q, s
<1>2. q * h + m \in 0..(planes * h - 1)
  BY <1>1, RowMajor
<1>3. planes * h \in Nat
  OBVIOUS
<1>4. (q * h + m) * c2 + s \in 0..(planes * h * c2 - 1)
  BY <1>1, <1>2, <1>3, RowMajor
<1>5. (q * h + m) * c2 = q * h * c2 + m * c2 /\ planes * h * c2 = planes * c2 * h
  BY <1>1
<1> QED BY <1>4, <1>5 DEF InPlanes, q, s

(* The layout of rows of one pixel.                                        *)
OfRow(C, h, c2, m, k) == Layout!feature_data(C, h, 1, c2, k + 1, m + 1, 1)

LEMMA FeaturePlace ==
  ASSUME NEW h \in Nat, NEW c2 \in Nat \ {0}, NEW m \in Nat, NEW k \in Nat, NEW C
  PROVE  OfRow(C, h, c2, m, k) = InPlanes(h, c2, m, k)
<1> DEFINE q == k \div c2
           r == k % c2
<1>1. k + 1 - 1 = k /\ (m + 1 - 1) * 1 + (1 - 1) = m
  OBVIOUS
<1>2. OfRow(C, h, c2, m, k) = q * h * 1 * c2 + c2 * m + r
  BY <1>1 DEF OfRow, Layout!feature_data
<1>3. q \in Nat /\ r \in Nat
  BY DivMod
<1> HIDE DEF q, r
<1>4. q * h * 1 = q * h /\ c2 * m = m * c2
  BY <1>3
<1> QED BY <1>2, <1>4 DEF InPlanes, q, r

(* Every half of the input is packed inside the buffer.                    *)
LEMMA InputsHold ==
  ASSUME NEW j \in Jobs, NEW m \in 0..(j.M - 1), NEW k \in 0..(j.K - 1)
  PROVE  Layout!InputIndex(j, m, k) \in 0..(Layout!InputElems(j) - 1)
<1>1. j.M \in Nat \ {0} /\ j.K \in Nat \ {0}
  BY DEF Jobs
<1>2. PICK p \in Nat \ {0} : Layout!AlignIn(j) = p * 32 /\ j.K <= p * 32
  BY <1>1, Aligned DEF Layout!AlignIn
<1> DEFINE width == p * 32
<1>3. /\ width \in Nat \ {0} /\ k \in 0..(width - 1) /\ k \in Nat /\ m \in Nat
      /\ width = (p * 4) * 8 /\ p * 4 \in Nat
  BY <1>1, <1>2
<1>4. Layout!InputElems(j) = width * j.M /\ Layout!AlignIn(j) = width
  BY <1>2 DEF Layout!InputElems
<1> HIDE DEF width
<1>5. width * j.M = j.M * width /\ width = 1 * width
  BY <1>1, <1>3
<1>6. Layout!ByRow(j, m, k) \in 0..(width * j.M - 1)
  <2>1. m * width + k \in 0..(j.M * width - 1)
    BY <1>1, <1>3, RowMajor
  <2> QED BY <1>4, <1>5, <2>1 DEF Layout!ByRow
<1>7. Layout!ByPlane(j, m, k) \in 0..(width * j.M - 1)
  <2>1. Layout!ByPlane(j, m, k) = OfRow(Layout!AlignIn(j), j.M, 8, m, k)
    BY DEF Layout!ByPlane, OfRow
  <2>2. OfRow(Layout!AlignIn(j), j.M, 8, m, k) = InPlanes(j.M, 8, m, k)
    BY <1>1, <1>3, FeaturePlace
  <2>3. \E planes, c2 \in Nat \ {0} : c2 = 8 /\ width = planes * c2
    BY <1>2, <1>3
  <2>4. PICK planes \in Nat \ {0}, c2 \in Nat \ {0} : c2 = 8 /\ width = planes * c2
    BY <2>3
  <2>5. InPlanes(j.M, c2, m, k) \in 0..(width * j.M - 1)
    BY <1>1, <1>3, <2>4, PlanesHold
  <2> QED BY <2>1, <2>2, <2>4, <2>5
<1>8. Layout!feature_data(Layout!AlignIn(j), j.M, 1, Layout!AlignIn(j), k + 1, m + 1, 1)
        \in 0..(width * j.M - 1)
  <2>1. OfRow(width, j.M, width, m, k) = InPlanes(j.M, width, m, k)
    BY <1>1, <1>3, FeaturePlace
  <2>2. InPlanes(j.M, width, m, k) \in 0..(width * j.M - 1)
    BY <1>1, <1>3, <1>5, PlanesHold
  <2> QED BY <1>4, <2>1, <2>2 DEF OfRow
<1> QED BY <1>4, <1>6, <1>7, <1>8
        DEF Layout!InputIndex, Layout!PlainInput, Layout!PrepackedInput

(* What unpacking reads lies in the output.                                *)
LEMMA OutputsHold ==
  ASSUME NEW j \in Jobs, NEW m \in 0..(j.M - 1), NEW n \in 0..(j.N - 1)
  PROVE  Layout!OutputIndex(j, m, n) \in 0..(Layout!OutputElems(j) - 1)
<1>1. j.M \in Nat \ {0} /\ j.N \in Nat \ {0}
  BY DEF Jobs
<1>2. PICK o \in Nat \ {0} : Layout!AlignOut(j) = o * 32 /\ j.N <= o * 32
  BY <1>1, Aligned DEF Layout!AlignOut
<1> DEFINE width == o * 32
           c2 == Layout!C2(j)
<1>3. width \in Nat \ {0} /\ n \in 0..(width - 1) /\ o * 8 \in Nat
  BY <1>1, <1>2
<1>4. \E planes \in Nat : width = planes * c2 /\ c2 \in Nat \ {0}
  <2>1. CASE c2 = 4
    <3>1. width = (o * 8) * 4
      OBVIOUS
    <3> QED BY <1>3, <2>1, <3>1
  <2>2. CASE c2 = width
    <3>1. width = 1 * width
      BY <1>3
    <3> QED BY <1>3, <2>2, <3>1
  <2> QED BY <1>2, <2>1, <2>2 DEF Layout!C2
<1>5. PICK planes \in Nat : width = planes * c2 /\ c2 \in Nat \ {0}
  BY <1>4
<1>6. Layout!OutputElems(j) = width * j.M
  BY <1>2 DEF Layout!OutputElems
<1>7. Layout!OutputIndex(j, m, n) = InPlanes(j.M, c2, m, n)
  BY DEF Layout!OutputIndex, InPlanes
<1> HIDE DEF width, c2
<1>8. InPlanes(j.M, c2, m, n) \in 0..(width * j.M - 1)
  BY <1>1, <1>3, <1>5, PlanesHold
<1> QED BY <1>6, <1>7, <1>8

(* Every weight lies in the buffer, in its tile and alone.                 *)
WeightPlaces(j) ==
  {Layout!WeightIndex(j, n, k) : n \in Layout!Cols(j), k \in Layout!Inner(j)}

LEMMA WeightsHold ==
  ASSUME NEW j \in Jobs, j.prepacked => \E size \in {8, 9, 64, 256} : Layout!Cube(j, size)
  PROVE  /\ \A n \in Layout!Cols(j), k \in Layout!Inner(j) :
              /\ Layout!WeightIndex(j, n, k) \in 0..(Layout!WeightElems(j) - 1)
              /\ Layout!WeightIndex(j, n, k)
                   = Layout!weight_fp16(Layout!AlignIn(j), n + 1, k + 1)
         /\ Cardinality(WeightPlaces(j)) = j.N * j.K
<1>1. j.N \in Nat \ {0} /\ j.K \in Nat \ {0}
  BY DEF Jobs
<1>2. PICK p \in Nat \ {0} : Layout!AlignIn(j) = p * 32 /\ j.K <= p * 32
  BY <1>1, Aligned DEF Layout!AlignIn
<1>3. PICK o \in Nat \ {0} : Layout!AlignOut(j) = o * 32 /\ j.N <= o * 32
  BY <1>1, Aligned DEF Layout!AlignOut
<1> DEFINE Cols == 0..(j.N - 1)
           Inner == 0..(j.K - 1)
<1>4. Layout!Cols(j) = Cols /\ Layout!Inner(j) = Inner
  BY DEF Layout!Cols, Layout!Inner
<1>5. ASSUME NEW n \in Cols, NEW k \in Inner
      PROVE  /\ n \in Nat /\ n \in 0..(o * 32 - 1) /\ k \in Nat /\ k \in 0..(p * 32 - 1)
             /\ Layout!WeightIndex(j, n, k)
                  = Layout!weight_fp16(Layout!AlignIn(j), n + 1, k + 1)
             /\ Layout!WeightIndex(j, n, k) = InTiles(p, n, k)
             /\ Layout!WeightIndex(j, n, k) \in 0..(Layout!WeightElems(j) - 1)
  <2>1. n \in Nat /\ n \in 0..(o * 32 - 1) /\ k \in Nat /\ k \in 0..(p * 32 - 1)
    BY <1>1, <1>2, <1>3
  <2>2. Layout!WeightIndex(j, n, k) = Layout!weight_fp16(Layout!AlignIn(j), n + 1, k + 1)
    BY HandWritten
  <2>3. Layout!weight_fp16(p * 32, n + 1, k + 1) = InTiles(p, n, k)
    BY <2>1, WeightTiles
  <2>4. InTiles(p, n, k) \in 0..(p * 32 * (o * 32) - 1)
    BY <2>1, TilesHold
  <2> QED BY <1>2, <1>3, <2>1, <2>2, <2>3, <2>4 DEF Layout!WeightElems
<1>6. WeightPlaces(j) = Places(p, j.N, j.K)
  BY <1>4, <1>5 DEF Places, WeightPlaces
<1>7. Cardinality(Places(p, j.N, j.K)) = j.N * j.K
  BY <1>1, <1>2, OnePlaceEach
<1>8. \A n \in Layout!Cols(j), k \in Layout!Inner(j) :
        /\ Layout!WeightIndex(j, n, k) \in 0..(Layout!WeightElems(j) - 1)
        /\ Layout!WeightIndex(j, n, k)
             = Layout!weight_fp16(Layout!AlignIn(j), n + 1, k + 1)
  BY <1>4, <1>5
<1> HIDE DEF Cols, Inner
<1> QED BY <1>6, <1>7, <1>8

-----------------------------------------------------------------------------
(* The jobs of a product: whole, or tiles of rows that lie inside it. Only *)
(* one that is whole comes packed.                                         *)
LEMMA RowsPerJob ==
  ASSUME NEW s \in LayoutShapes
  PROVE  Layout!MaxRows(s) \in Nat \ {0}
<1>1. s.K \in Nat \ {0} /\ BufferBytes \in Nat
  BY ProductAssumption DEF Layout!LayoutAssumption
<1>2. PICK p \in Nat \ {0} : Layout!AlignUp(s.K) = p * 32
  BY <1>1, Aligned
<1> DEFINE row == 2 * (p * 32)
           rows == BufferBytes \div row
<1>3. row \in Nat \ {0}
  OBVIOUS
<1> HIDE DEF row
<1>4. rows \in Nat
  BY <1>1, <1>3, DivMod
<1>5. Layout!MaxRows(s) = IF rows < 1 THEN 1 ELSE rows
  BY <1>2 DEF Layout!MaxRows, row
<1> HIDE DEF rows
<1> QED BY <1>4, <1>5

JobInside(s, first) ==
  LET j == Layout!JobAt(s, first)
  IN  /\ j \in Jobs
      /\ j.N = s.N /\ j.K = s.K
      /\ first + j.M <= s.M
      /\ first + j.M < s.M => s.M > Layout!MaxRows(s)
      /\ j.prepacked => \E size \in {8, 9, 64, 256} : Layout!Cube(j, size)

LEMMA JobsInside ==
  ASSUME NEW s \in LayoutShapes, NEW first \in 0..(s.M - 1),
         first > 0 => s.M > Layout!MaxRows(s)
  PROVE  JobInside(s, first)
<1> DEFINE j == Layout!JobAt(s, first)
           rows == Layout!MaxRows(s)
           packed == s.M <= rows /\ \E size \in {8, 9, 64, 256} : Layout!Cube(s, size)
           height == IF s.M - first > rows THEN rows ELSE s.M - first
<1>1. s \in Sizes
  BY ProductAssumption DEF Layout!LayoutAssumption, Sizes
<1>2. s.M \in Nat \ {0} /\ s.N \in Nat \ {0} /\ s.K \in Nat \ {0} /\ first \in Nat
  BY <1>1 DEF Sizes
<1>3. rows \in Nat \ {0}
  BY RowsPerJob
<1>4. j = [M |-> height, N |-> s.N, K |-> s.K, prepacked |-> packed]
  BY DEF Layout!JobAt
<1>5. packed \in BOOLEAN
  OBVIOUS
<1> HIDE DEF j, rows, packed
<1>6. j.M = height /\ j.N = s.N /\ j.K = s.K
  BY <1>4
<1>7. j.prepacked = packed
  BY <1>4, <1>5
<1>8. /\ height \in Nat \ {0} /\ first + height <= s.M
      /\ first + height < s.M => s.M > rows
      /\ s.M <= rows => height = s.M
  BY <1>2, <1>3 DEF rows
<1> HIDE DEF height
<1>9. j \in Jobs
  BY <1>2, <1>4, <1>5, <1>8 DEF Jobs
<1>10. packed => \E size \in {8, 9, 64, 256} : Layout!Cube(j, size)
  BY <1>6, <1>8 DEF packed, Layout!Cube
<1>11. j.prepacked => \E size \in {8, 9, 64, 256} : Layout!Cube(j, size)
  BY <1>7, <1>10, Zenon
<1>12. /\ first + j.M <= s.M
       /\ first + j.M < s.M => s.M > rows
  BY <1>6, <1>8
<1> QED BY <1>6, <1>9, <1>11, <1>12 DEF JobInside, j, rows

-----------------------------------------------------------------------------
(* The inductive invariant: the job is the one that begins at m_offset of  *)
(* the product; past the first row, the product has more than fit at once. *)
LayoutInv ==
  process = "layout" =>
    /\ layout_pc \in {"idle", "job"}
    /\ product \in LayoutShapes
    /\ m_offset \in 0..(product.M - 1)
    /\ m_offset > 0 => product.M > Layout!MaxRows(product)
    /\ job = Layout!JobAt(product, m_offset)

LEMMA LayoutInitHolds == MatmulInit => LayoutInv
<1> SUFFICES ASSUME MatmulInit, process = "layout" PROVE LayoutInv
  BY DEF LayoutInv
<1>1. Layout!Init
  BY DEF MatmulInit
<1>2. product.M \in Nat \ {0}
  BY <1>1, ProductAssumption DEF Layout!Init, Layout!LayoutAssumption
<1> QED BY <1>1, <1>2 DEF Layout!Init, LayoutInv

LEMMA LayoutStepKeeps == LayoutInv /\ [MatmulNext]_<<process, vars, layoutVars>> => LayoutInv'
<1> SUFFICES ASSUME LayoutInv, [MatmulNext]_<<process, vars, layoutVars>>,
                    process' = "layout"
             PROVE  LayoutInv'
  BY DEF LayoutInv
<1>1. CASE UNCHANGED <<process, layoutVars>>
  BY <1>1 DEF LayoutInv, layoutVars, Layout!JobAt, Layout!MaxRows, Layout!AlignUp, Layout!Cube
<1>2. CASE process = "layout" /\ Layout!Next /\ process' = process
  <2>1. CASE \E s \in LayoutShapes : Layout!RunCase(s)
    <3>1. PICK s \in LayoutShapes : Layout!RunCase(s)
      BY <2>1
    <3>2. s.M \in Nat \ {0}
      BY ProductAssumption DEF Layout!LayoutAssumption
    <3>3. /\ layout_pc' = "job" /\ product' = s /\ m_offset' = 0
          /\ job' = Layout!JobAt(product', m_offset')
      BY <3>1 DEF Layout!RunCase
    <3> QED BY <3>2, <3>3 DEF LayoutInv
  <2>2. CASE Layout!NextTile
    <3>1. /\ layout_pc' = layout_pc /\ product' = product
          /\ m_offset + job.M < product.M
          /\ m_offset' = m_offset + job.M
          /\ job' = Layout!JobAt(product', m_offset')
      BY <2>2 DEF Layout!NextTile
    <3>2. JobInside(product, m_offset)
      BY <1>2, JobsInside DEF LayoutInv
    <3>3. /\ job.M \in Nat /\ m_offset \in Nat
          /\ product.M > Layout!MaxRows(product)
      BY <1>2, <3>1, <3>2 DEF LayoutInv, JobInside, Jobs
    <3>4. product.M \in Nat
      BY <1>2, ProductAssumption DEF LayoutInv, Layout!LayoutAssumption
    <3>5. m_offset' \in 0..(product'.M - 1)
      BY <3>1, <3>3, <3>4
    <3> QED BY <1>2, <3>1, <3>3, <3>5 DEF LayoutInv
  <2>3. CASE Layout!Return
    BY <1>2, <2>3 DEF Layout!Return, LayoutInv
  <2> QED BY <1>2, <2>1, <2>2, <2>3 DEF Layout!Next
<1> QED BY <1>1, <1>2 DEF MatmulNext

(* Counting is the same in the instance.                                   *)
LEMMA SameCardinality == ASSUME NEW S PROVE Layout!Cardinality(S) = Cardinality(S)
  BY DEF Layout!Cardinality, Cardinality

(* What the invariant says of one state.                                   *)
LEMMA LayoutInvInside ==
  ASSUME LayoutInv, process = "layout"
  PROVE  /\ Layout!TypeOK /\ Layout!IndicesInside /\ Layout!WeightsInTiles
         /\ JobInside(product, m_offset)
<1>1. JobInside(product, m_offset)
  BY JobsInside DEF LayoutInv
<1>2. product \in Sizes /\ job \in Jobs /\ m_offset \in Nat /\ m_offset + job.M <= product.M
  BY <1>1, ProductAssumption DEF LayoutInv, JobInside, Layout!LayoutAssumption, Sizes
<1>3. job.prepacked => \E size \in {8, 9, 64, 256} : Layout!Cube(job, size)
  BY <1>1 DEF LayoutInv, JobInside
<1>4. Layout!TypeOK
  BY <1>2 DEF LayoutInv, Layout!TypeOK, Sizes, Jobs
<1>5. /\ \A n \in Layout!Cols(job), k \in Layout!Inner(job) :
           /\ Layout!WeightIndex(job, n, k) \in 0..(Layout!WeightElems(job) - 1)
           /\ Layout!WeightIndex(job, n, k)
                = Layout!weight_fp16(Layout!AlignIn(job), n + 1, k + 1)
      /\ Cardinality(WeightPlaces(job)) = job.N * job.K
  BY <1>2, <1>3, WeightsHold
<1>6. Layout!WeightsInTiles
  BY <1>5, SameCardinality DEF Layout!WeightsInTiles, WeightPlaces
<1>7. /\ \A m \in Layout!Rows(job), k \in Layout!Inner(job) :
           Layout!InputIndex(job, m, k) \in 0..(Layout!InputElems(job) - 1)
      /\ \A m \in Layout!Rows(job), n \in Layout!Cols(job) :
           Layout!OutputIndex(job, m, n) \in 0..(Layout!OutputElems(job) - 1)
  BY <1>2, InputsHold, OutputsHold DEF Layout!Rows, Layout!Cols, Layout!Inner
<1>8. Layout!IndicesInside
  BY <1>5, <1>7 DEF Layout!IndicesInside
<1> QED BY <1>1, <1>4, <1>6, <1>8

(* For every product and size of the NPU's buffer: no packer of            *)
(* float16_matmul and run_matmul_case, no reader of the result leaves its  *)
(* buffer, also for tiles of rows, and each weight has the place in the    *)
(* tiles that weight_fp16 gives it, to itself.                             *)
THEOREM PackersInside ==
  MatmulSpec =>
    [](process = "layout" => Layout!TypeOK /\ Layout!IndicesInside /\ Layout!WeightsInTiles)
<1>1. LayoutInv => (process = "layout" =>
        Layout!TypeOK /\ Layout!IndicesInside /\ Layout!WeightsInTiles)
  BY LayoutInvInside
<1> QED BY <1>1, LayoutInitHolds, LayoutStepKeeps, PTL DEF MatmulSpec

-----------------------------------------------------------------------------
(* The products the strides are made for: a single row, sizes of at most   *)
(* 13 tiles but for rows of 64 and 256, and the cubes of those two sizes.  *)
StridesMadeFor(s) ==
  \/ s.M = 1
  \/ s.K <= 416 /\ s.N <= 416 /\ s.K \notin {64, 256}
  \/ \E size \in {64, 256} : Layout!Cube(s, size)

(* StridesMatch of one job.                                                *)
StridesAgree(j) ==
  /\ Layout!InputIndex(j, 1, 0) = IF Layout!InputIndex(j, 0, j.K - 1) = j.K - 1
                                  THEN Layout!LineStride(j) * 8 ELSE 8
  /\ Layout!OutputIndex(j, 1, 0) = (Layout!Notch(j) + 1) * 4
  /\ \A n \in Layout!Cols(j) : Layout!OutputIndex(j, 0, n) =
       (n \div 4) * Layout!DstSurfStride(j) * 4 + (n % 4)

(* One plane as wide as a row is row after row.                            *)
RowPlace(c2, m, x) == m * c2 + x

LEMMA OnePlane ==
  ASSUME NEW h \in Nat \ {0}, NEW c2 \in Nat \ {0}, NEW m \in Nat, NEW x \in Nat, x < c2
  PROVE  InPlanes(h, c2, m, x) = RowPlace(c2, m, x)
<1>1. x \div c2 = 0 /\ x % c2 = x
  <2>1. x = 0 * c2 + x /\ 0 \in Int /\ x \in 0..(c2 - 1)
    OBVIOUS
  <2> QED BY <2>1, DivModUnique
<1>2. 0 * h * c2 = 0 /\ m * c2 \in Nat
  OBVIOUS
<1>3. InPlanes(h, c2, m, x) = 0 * h * c2 + m * c2 + x
  BY <1>1 DEF InPlanes
<1> QED BY <1>2, <1>3 DEF RowPlace

(* Thirteen tiles hold 416 elements.                                       *)
FitsTiles(x) ==
  /\ Layout!AlignUp(x) \in Nat \ {0} /\ x <= Layout!AlignUp(x)
  /\ (x + 31) \div 32 \in 1..13
  /\ Layout!AlignUp(x) = ((x + 31) \div 32) * 32
  /\ Layout!AlignUp(x) \div 32 = (x + 31) \div 32

LEMMA ThirteenTiles ==
  ASSUME NEW x \in Nat \ {0}, x <= 416
  PROVE  FitsTiles(x)
<1> DEFINE y == Layout!AlignUp(x)
           q == (x + 31) \div 32
<1>1. q \in 1..13 /\ x <= q * 32
  OBVIOUS
<1>2. y = q * 32
  BY DEF Layout!AlignUp
<1>3. y \div 32 = q
  <2> HIDE DEF q
  <2> QED BY <1>1, <1>2
<1> HIDE DEF q
<1>4. y \in Nat \ {0} /\ x <= y
  BY <1>1, <1>2
<1> QED BY <1>1, <1>2, <1>3, <1>4 DEF FitsTiles, q

(* Sizes of at most 13 tiles: rows follow each other, and the strides are  *)
(* those of padded rows.                                                   *)
LEMMA RowStrides ==
  ASSUME NEW j \in Jobs, j.prepacked => \E size \in {8, 9, 64, 256} : Layout!Cube(j, size),
         j.K <= 416, j.N <= 416, j.K \notin {64, 256}
  PROVE  StridesAgree(j)
<1>1. j.M \in Nat \ {0} /\ j.N \in Nat \ {0} /\ j.K \in Nat \ {0}
  BY DEF Jobs
<1>0. FitsTiles(j.K) /\ FitsTiles(j.N)
  <2>1. FitsTiles(j.K)
    BY <1>1, ThirteenTiles
  <2>2. FitsTiles(j.N)
    BY <1>1, ThirteenTiles
  <2> QED BY <2>1, <2>2
<1> DEFINE in == Layout!AlignIn(j)
           out == Layout!AlignOut(j)
<1>2. in \in Nat \ {0} /\ j.K <= in /\ out \in Nat \ {0} /\ j.N <= out
  BY <1>0 DEF FitsTiles, Layout!AlignIn, Layout!AlignOut
<1>3. in = Layout!LineStride(j) * 8
  <2> DEFINE steps == (j.K + 31) \div 32
  <2>1. in = steps * 32 /\ steps \in 1..13
    BY <1>0 DEF FitsTiles, Layout!AlignIn
  <2>2. j.K <= 32 => steps = 1
    BY <1>1
  <2> HIDE DEF steps, in
  <2>3. Layout!LineStride(j) = IF j.K > 32 THEN steps * 4 ELSE 4
    BY <1>1, <2>1 DEF Layout!LineStride, steps
  <2> QED BY <1>1, <2>1, <2>2, <2>3
<1>4. out = (Layout!Notch(j) + 1) * 4
  <2> DEFINE blocks == out \div 32
  <2>1. out = blocks * 32 /\ blocks \in 1..13
    BY <1>0 DEF FitsTiles, Layout!AlignOut
  <2> HIDE DEF blocks
  <2>2. Layout!Notch(j) = 8 * blocks - 1
    BY <1>1, <2>1 DEF Layout!Notch, blocks
  <2> HIDE DEF out
  <2> QED BY <2>1, <2>2
<1>5. ~Layout!Cube(j, 64) /\ ~Layout!Cube(j, 256)
  BY DEF Layout!Cube
<1> HIDE DEF in, out
<1>6. ASSUME NEW m \in Nat, NEW k \in 0..(j.K - 1)
      PROVE  Layout!InputIndex(j, m, k) = m * in + k
  <2>1. k \in Nat /\ k < in /\ j.M \in Nat /\ in \in Nat \ {0} /\ j.M \in Nat \ {0}
    BY <1>1, <1>2
  <2>2. OfRow(in, j.M, in, m, k) = InPlanes(j.M, in, m, k)
    BY <2>1, FeaturePlace
  <2>3. InPlanes(j.M, in, m, k) = RowPlace(in, m, k)
    BY <2>1, OnePlane
  <2>4. Layout!ByRow(j, m, k) = m * in + k
    BY DEF Layout!ByRow, in
  <2>5. Layout!PlainInput(j, m, k) = m * in + k
    BY <1>5, <2>2, <2>3, <2>4 DEF Layout!PlainInput, OfRow, RowPlace, in
  <2>6. CASE j.prepacked
    <3>1. Layout!Cube(j, 8) \/ Layout!Cube(j, 9)
      BY <1>5, <2>6
    <3>2. Layout!PrepackedInput(j, m, k) = m * in + k
      BY <2>4, <3>1 DEF Layout!PrepackedInput
    <3> QED BY <2>6, <3>2 DEF Layout!InputIndex
  <2>7. CASE ~j.prepacked
    BY <2>5, <2>7 DEF Layout!InputIndex
  <2> QED BY <2>6, <2>7
<1>7. Layout!InputIndex(j, 1, 0) = in /\ Layout!InputIndex(j, 0, j.K - 1) = j.K - 1
  <2>1. 0 \in 0..(j.K - 1) /\ j.K - 1 \in 0..(j.K - 1)
    BY <1>1
  <2>2. Layout!InputIndex(j, 1, 0) = 1 * in + 0
    BY <1>6, <2>1
  <2>3. Layout!InputIndex(j, 0, j.K - 1) = 0 * in + (j.K - 1)
    BY <1>6, <2>1
  <2> QED BY <1>1, <1>2, <2>2, <2>3
<1>8. ASSUME NEW m \in Nat, NEW n \in 0..(j.N - 1)
      PROVE  Layout!OutputIndex(j, m, n) = m * out + n
  <2>1. n \in Nat /\ n < out /\ out \in Nat \ {0} /\ j.M \in Nat \ {0}
    BY <1>1, <1>2
  <2>2. InPlanes(j.M, out, m, n) = RowPlace(out, m, n)
    BY <2>1, OnePlane
  <2>3. Layout!OutputIndex(j, m, n) = InPlanes(j.M, out, m, n)
    BY <1>5 DEF Layout!OutputIndex, Layout!C2, InPlanes, out
  <2> QED BY <2>2, <2>3 DEF RowPlace
<1>9. Layout!OutputIndex(j, 1, 0) = out
  <2>1. 0 \in 0..(j.N - 1)
    BY <1>1
  <2>2. Layout!OutputIndex(j, 1, 0) = 1 * out + 0
    BY <1>8, <2>1
  <2> QED BY <1>2, <2>2
<1>10. ASSUME NEW n \in Layout!Cols(j)
       PROVE  Layout!OutputIndex(j, 0, n) = (n \div 4) * Layout!DstSurfStride(j) * 4 + (n % 4)
  <2>1. n \in 0..(j.N - 1) /\ n \in Nat
    BY <1>1 DEF Layout!Cols
  <2>2. Layout!OutputIndex(j, 0, n) = 0 * out + n
    BY <1>8, <2>1
  <2>3. Layout!DstSurfStride(j) = 1
    BY <1>5 DEF Layout!DstSurfStride
  <2>4. n = (n \div 4) * 1 * 4 + (n % 4)
    BY <2>1
  <2> QED BY <1>2, <2>1, <2>2, <2>3, <2>4
<1> QED BY <1>3, <1>4, <1>7, <1>9, <1>10 DEF StridesAgree

(* The cubes of 64 and 256 in planes of 8 halves and 4 floats.             *)
LEMMA PlaneStrides ==
  ASSUME NEW j \in Jobs, NEW size \in {64, 256}, Layout!Cube(j, size),
         size = 256 => j.prepacked
  PROVE  StridesAgree(j)
<1>1. j.M = size /\ j.N = size /\ j.K = size /\ size \in Nat \ {0}
  BY DEF Layout!Cube
<1>2. ~Layout!Cube(j, 8) /\ ~Layout!Cube(j, 9) /\ (Layout!Cube(j, 64) \/ Layout!Cube(j, 256))
  BY <1>1 DEF Layout!Cube
<1>3. ASSUME NEW m \in Nat, NEW k \in 0..(size - 1)
      PROVE  Layout!InputIndex(j, m, k) = InPlanes(size, 8, m, k)
  <2>1. OfRow(Layout!AlignIn(j), size, 8, m, k) = InPlanes(size, 8, m, k)
    <3>1. size \in Nat /\ 8 \in Nat \ {0} /\ k \in Nat
      BY <1>1
    <3> QED BY <3>1, FeaturePlace
  <2>2. Layout!ByPlane(j, m, k) = InPlanes(size, 8, m, k)
    BY <1>1, <2>1 DEF Layout!ByPlane, OfRow
  <2>3. CASE j.prepacked
    BY <1>2, <2>2, <2>3 DEF Layout!InputIndex, Layout!PrepackedInput
  <2>4. CASE ~j.prepacked
    <3>1. size = 64 /\ Layout!Cube(j, 64)
      BY <2>4
    <3> QED BY <1>2, <2>2, <2>4, <3>1 DEF Layout!InputIndex, Layout!PlainInput
  <2> QED BY <2>3, <2>4
<1>4. Layout!InputIndex(j, 1, 0) = 8
  <2>1. Layout!InputIndex(j, 1, 0) = InPlanes(size, 8, 1, 0)
    BY <1>1, <1>3
  <2> QED BY <1>1, <2>1 DEF InPlanes
<1>5. Layout!InputIndex(j, 0, j.K - 1) # j.K - 1
  <2>1. Layout!InputIndex(j, 0, j.K - 1) = InPlanes(size, 8, 0, size - 1)
    BY <1>1, <1>3
  <2>2. InPlanes(64, 8, 0, 63) # 63 /\ InPlanes(256, 8, 0, 255) # 255
    BY DEF InPlanes
  <2> QED BY <1>1, <2>1, <2>2
<1>6. Layout!Notch(j) = 0 /\ Layout!DstSurfStride(j) = size /\ Layout!C2(j) = 4
  BY <1>1, <1>2 DEF Layout!Notch, Layout!DstSurfStride, Layout!C2
<1>7. Layout!OutputIndex(j, 1, 0) = (Layout!Notch(j) + 1) * 4
  BY <1>1, <1>6 DEF Layout!OutputIndex
<1>8. ASSUME NEW n \in Layout!Cols(j)
      PROVE  Layout!OutputIndex(j, 0, n) = (n \div 4) * Layout!DstSurfStride(j) * 4 + (n % 4)
  <2>1. n \in Nat
    BY <1>1 DEF Layout!Cols
  <2>2. CASE size = 64
    BY <1>1, <1>6, <2>1, <2>2 DEF Layout!OutputIndex
  <2>3. CASE size = 256
    BY <1>1, <1>6, <2>1, <2>3 DEF Layout!OutputIndex
  <2> QED BY <2>2, <2>3
<1> QED BY <1>4, <1>5, <1>7, <1>8 DEF StridesAgree

(* For every set of products of those sizes, if the NPU's buffer holds at  *)
(* least the cube of 256: all of LayoutAgrees, the strides that            *)
(* regcmd_helper programs included. The code's buffer holds 2.5 times that.*)
THEOREM LayoutsAgree ==
  ASSUME BufferBytes >= 2 * 256 * 256, \A s \in LayoutShapes : StridesMadeFor(s)
  PROVE  MatmulSpec => []LayoutAgrees
<1>1. LayoutInv => LayoutAgrees
  <2> SUFFICES ASSUME LayoutInv, process = "layout" PROVE LayoutAgrees
    BY DEF LayoutAgrees
  <2>1. /\ Layout!TypeOK /\ Layout!IndicesInside /\ Layout!WeightsInTiles
        /\ JobInside(product, m_offset)
    BY LayoutInvInside
  <2>2. product \in Sizes /\ StridesMadeFor(product) /\ product \in LayoutShapes
    BY ProductAssumption DEF LayoutInv, Layout!LayoutAssumption, Sizes
  <2>3. /\ job \in Jobs /\ job.N = product.N /\ job.K = product.K
        /\ job.prepacked => \E size \in {8, 9, 64, 256} : Layout!Cube(job, size)
    BY <2>1 DEF LayoutInv, JobInside
  <2>4. job.M \in Nat \ {0} /\ product.M \in Nat \ {0} /\ m_offset \in Nat
        /\ m_offset + job.M <= product.M
    BY <2>1, <2>2, <2>3 DEF LayoutInv, JobInside, Jobs, Sizes
  <2> SUFFICES ASSUME job.M > 1 PROVE StridesAgree(job)
    BY <2>1 DEF LayoutAgrees, Layout!StridesMatch, StridesAgree
  <2>5. CASE product.M = 1
    BY <2>4, <2>5
  <2>6. CASE product.K <= 416 /\ product.N <= 416 /\ product.K \notin {64, 256}
    BY <2>3, <2>6, RowStrides
  <2>7. ASSUME NEW size \in {64, 256}, Layout!Cube(product, size)
        PROVE  StridesAgree(job)
    <3>1. product.M = size /\ product.K = size /\ size \in Nat
      BY <2>7 DEF Layout!Cube
    <3>2. Layout!MaxRows(product) >= size
      <4>1. Layout!AlignUp(64) = 64 /\ Layout!AlignUp(256) = 256
        BY DEF Layout!AlignUp
      <4>2. BufferBytes \in Nat
        BY ProductAssumption DEF Layout!LayoutAssumption
      <4>3. BufferBytes \div (2 * 64) >= 64 /\ BufferBytes \div (2 * 256) >= 256
        BY <4>2
      <4>4. CASE size = 64
        <5>1. Layout!AlignUp(product.K) = 64
          BY <3>1, <4>1, <4>4
        <5> QED BY <4>2, <4>3, <4>4, <5>1 DEF Layout!MaxRows
      <4>5. CASE size = 256
        <5>1. Layout!AlignUp(product.K) = 256
          BY <3>1, <4>1, <4>5
        <5> QED BY <4>2, <4>3, <4>5, <5>1 DEF Layout!MaxRows
      <4> QED BY <4>4, <4>5
    <3>3. m_offset = 0 /\ Layout!MaxRows(product) \in Nat
      <4>1. Layout!MaxRows(product) \in Nat
        BY <2>2, RowsPerJob
      <4>2. m_offset > 0 => product.M > Layout!MaxRows(product)
        BY DEF LayoutInv
      <4> QED BY <2>4, <3>1, <3>2, <4>1, <4>2
    <3>4. job = Layout!JobAt(product, 0)
      BY <3>3 DEF LayoutInv
    <3>5. job.M = size
      BY <2>4, <3>1, <3>2, <3>3, <3>4 DEF Layout!JobAt
    <3>6. Layout!Cube(job, size)
      BY <2>3, <2>7, <3>5 DEF Layout!Cube
    <3>7. job.prepacked
      <4>1. product.M <= Layout!MaxRows(product)
             /\ \E s \in {8, 9, 64, 256} : Layout!Cube(product, s)
        BY <2>7, <3>1, <3>2, <3>3
      <4> QED BY <3>4, <4>1 DEF Layout!JobAt
    <3> QED BY <2>3, <3>6, <3>7, PlaneStrides
  <2> QED BY <2>2, <2>5, <2>6, <2>7 DEF StridesMadeFor
<1> QED BY <1>1, LayoutInitHolds, LayoutStepKeeps, PTL DEF MatmulSpec
=============================================================================
