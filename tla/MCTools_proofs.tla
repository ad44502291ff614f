-------------------------- MODULE MCTools_proofs --------------------------
(***************************************************************************)
(* The users of handle_dma_map: alloc_weight_loop.c, for any number of     *)
(* iterations, handles and slots, and whatever allocations and destroys    *)
(* fail; and the dump log, for any number of buffers, handles and names,   *)
(* any failing allocation, and a dump.py that looks whenever it likes.     *)
(* Then the programs that show buffers, whatever the buffers, names and    *)
(* limits are; and hello2.c, whichever of its calls fail. First the lemmas *)
(* about the table itself.                                                 *)
(***************************************************************************)
EXTENDS MCTools, IndexArithmetic, SequenceTheorems, TLAPS

(* The kernel's next handle is a free one.                                 *)
LEMMA NewHandleFree ==
  ASSUME NEW used, Handle \ used # {}
  PROVE  NewHandle(used) \in Handle \ used
<1>1. \E h \in Handle \ used : \A other \in Handle \ used : h <= other
  BY LeastNumber, MapAssumption
<1> QED BY <1>1 DEF NewHandle

(* A handle in the table is found at its first entry.                      *)
LEMMA FirstFound ==
  ASSUME NEW slots \in Table, NEW handle, Has(slots, handle)
  PROVE  /\ First(slots, handle) \in DOMAIN slots
         /\ slots[First(slots, handle)].handle = handle
         /\ \A j \in 1..(First(slots, handle) - 1) : slots[j].handle # handle
<1> DEFINE S == {k \in DOMAIN slots : slots[k].handle = handle}
<1>1. S \in SUBSET Nat /\ S # {} /\ DOMAIN slots = 1..Len(slots)
  BY DEF Table, Has
<1>2. PICK k \in S : \A j \in S : k <= j
  BY <1>1, LeastNumber
<1>3. /\ k \in DOMAIN slots /\ slots[k].handle = handle
      /\ \A j \in 1..(k - 1) : slots[j].handle # handle
  <2>1. ASSUME NEW j \in 1..(k - 1)
        PROVE  slots[j].handle # handle
    <3>1. j \in DOMAIN slots /\ j < k
      BY <1>1, <2>1
    <3> QED BY <1>1, <1>2, <3>1
  <2> QED BY <2>1
<1> QED BY <1>3 DEF First

Entry == [handle : Handle, dma_addr : Dma]

(* The three outcomes of a store.                                          *)
LEMMA StoreOverwrites ==
  ASSUME NEW slots \in Table, NEW handle, NEW dma, Has(slots, handle)
  PROVE  StoreHandleDma(slots, handle, dma) =
           [slots EXCEPT ![First(slots, handle)] =
                           [handle |-> handle, dma_addr |-> dma]]
<1> DEFINE f == First(slots, handle)
<1>1. f \in DOMAIN slots /\ slots[f].handle = handle
  BY FirstFound
<1>2. slots[f] \in Entry
  <2>1. slots \in Seq(Entry)
    BY DEF Table, Entry
  <2> QED BY <1>1, <2>1
<1>3. [slots[f] EXCEPT !.dma_addr = dma] = [handle |-> handle, dma_addr |-> dma]
  BY <1>1, <1>2 DEF Entry
<1>4. StoreHandleDma(slots, handle, dma) =
        [slots EXCEPT ![f] = [slots[f] EXCEPT !.dma_addr = dma]]
  BY Zenon DEF StoreHandleDma
<1> QED BY <1>3, <1>4

LEMMA StoreAppendsEntry ==
  ASSUME NEW slots \in Table, NEW handle, NEW dma, ~Has(slots, handle),
         Len(slots) < Capacity
  PROVE  StoreHandleDma(slots, handle, dma) =
           Append(slots, [handle |-> handle, dma_addr |-> dma])
  BY DEF StoreHandleDma

LEMMA StoreDrops ==
  ASSUME NEW slots \in Table, NEW handle, NEW dma, ~Has(slots, handle),
         ~(Len(slots) < Capacity)
  PROVE  StoreHandleDma(slots, handle, dma) = slots
  BY DEF StoreHandleDma

LEMMA StoreType ==
  ASSUME NEW slots \in Table, NEW handle \in Handle, NEW dma \in Dma
  PROVE  StoreHandleDma(slots, handle, dma) \in Table
<1> DEFINE entry == [handle |-> handle, dma_addr |-> dma]
<1>1. entry \in Entry
  BY DEF Entry
<1>2. slots \in Seq(Entry) /\ Table = Seq(Entry)
  BY DEF Table, Entry
<1> HIDE DEF entry
<1>3. CASE Has(slots, handle)
  <2>1. First(slots, handle) \in DOMAIN slots
    BY <1>3, FirstFound
  <2>2. [slots EXCEPT ![First(slots, handle)] = entry] \in Seq(Entry)
    BY <1>1, <1>2, <2>1
  <2> QED BY <1>2, <1>3, <2>2, StoreOverwrites DEF entry
<1>4. CASE ~Has(slots, handle) /\ Len(slots) < Capacity
  <2>1. Append(slots, entry) \in Seq(Entry)
    BY <1>1, <1>2
  <2> QED BY <1>2, <1>4, <2>1, StoreAppendsEntry DEF entry
<1>5. CASE ~Has(slots, handle) /\ ~(Len(slots) < Capacity)
  BY <1>5, StoreDrops
<1> QED BY <1>3, <1>4, <1>5

-----------------------------------------------------------------------------
(* There is one first entry.                                               *)
LEMMA FirstUnique ==
  ASSUME NEW slots \in Table, NEW handle,
         NEW k \in DOMAIN slots, slots[k].handle = handle,
         \A j \in 1..(k - 1) : slots[j].handle # handle
  PROVE  First(slots, handle) = k
<1> DEFINE f == First(slots, handle)
<1>1. Has(slots, handle)
  BY DEF Has
<1>2. /\ f \in DOMAIN slots /\ slots[f].handle = handle
      /\ \A j \in 1..(f - 1) : slots[j].handle # handle
  BY <1>1, FirstFound
<1>3. DOMAIN slots = 1..Len(slots) /\ Len(slots) \in Nat
  BY DEF Table
<1> HIDE DEF f
<1>4. ~(f < k) /\ ~(k < f)
  BY <1>2, <1>3
<1> QED BY <1>2, <1>3, <1>4 DEF f

(* Two tables with the same handles in the same slots are searched alike.  *)
LEMMA SameHandlesSameFirst ==
  ASSUME NEW t1 \in Table, NEW t2 \in Table, DOMAIN t1 = DOMAIN t2,
         \A k \in DOMAIN t1 : t1[k].handle = t2[k].handle,
         NEW handle
  PROVE  /\ Has(t1, handle) <=> Has(t2, handle)
         /\ Has(t1, handle) => First(t1, handle) = First(t2, handle)
<1>1. Has(t1, handle) <=> Has(t2, handle)
  BY DEF Has
<1>2. ASSUME Has(t1, handle)
      PROVE  First(t1, handle) = First(t2, handle)
  <2> DEFINE f == First(t1, handle)
  <2>1. /\ f \in DOMAIN t1 /\ t1[f].handle = handle
        /\ \A j \in 1..(f - 1) : t1[j].handle # handle
    BY <1>2, FirstFound
  <2>2. \A j \in 1..(f - 1) : j \in DOMAIN t1
    <3>1. DOMAIN t1 = 1..Len(t1) /\ Len(t1) \in Nat
      BY DEF Table
    <3> HIDE DEF f
    <3> QED BY <2>1, <3>1
  <2>3. /\ f \in DOMAIN t2 /\ t2[f].handle = handle
        /\ \A j \in 1..(f - 1) : t2[j].handle # handle
    BY <2>1, <2>2
  <2> HIDE DEF f
  <2>4. First(t2, handle) = f
    BY <2>3, FirstUnique
  <2> QED BY <2>4 DEF f
<1> QED BY <1>1, <1>2

(***************************************************************************)
(* What a store does to a search: the handle is found with its new address *)
(* unless there was no room for it, every other handle as before.          *)
(***************************************************************************)
LEMMA StoreFinds ==
  ASSUME NEW slots \in Table, NEW handle \in Handle, NEW dma \in Dma
  PROVE  LET after == StoreHandleDma(slots, handle, dma)
         IN  /\ Has(slots, handle) \/ Len(slots) < Capacity
                  => Has(after, handle) /\ FindDma(after, handle) = dma
             /\ ~Has(slots, handle) /\ ~(Len(slots) < Capacity)
                  => after = slots
             /\ \A other \in Handle \ {handle} :
                  /\ Has(after, other) <=> Has(slots, other)
                  /\ FindDma(after, other) = FindDma(slots, other)
<1> DEFINE after == StoreHandleDma(slots, handle, dma)
           entry == [handle |-> handle, dma_addr |-> dma]
<1>1. after \in Table /\ entry \in Entry
  BY StoreType DEF Entry
<1>2. /\ slots \in Seq(Entry) /\ Len(slots) \in Nat
      /\ DOMAIN slots = 1..Len(slots)
  BY DEF Table, Entry
<1>3. CASE Has(slots, handle)
  <2> DEFINE f == First(slots, handle)
  <2>1. f \in DOMAIN slots /\ slots[f].handle = handle
    BY <1>3, FirstFound
  <2>2. after = [slots EXCEPT ![f] = entry]
    BY <1>3, StoreOverwrites
  <2>3. /\ DOMAIN after = DOMAIN slots
        /\ after[f] = entry
        /\ \A k \in DOMAIN slots : k # f => after[k] = slots[k]
    <3> HIDE DEF f, entry, after
    <3> QED BY <1>2, <2>1, <2>2
  <2>4. \A k \in DOMAIN slots : slots[k].handle = after[k].handle
    BY <2>1, <2>3
  <2>5. ASSUME NEW g
        PROVE  /\ Has(slots, g) <=> Has(after, g)
               /\ Has(slots, g) => First(slots, g) = First(after, g)
    <3> HIDE DEF after
    <3> QED BY <1>1, <2>3, <2>4, SameHandlesSameFirst
  <2>6. Has(after, handle) /\ FindDma(after, handle) = dma
    BY <1>3, <2>3, <2>5 DEF FindDma
  <2>7. ASSUME NEW other \in Handle \ {handle}
        PROVE  FindDma(after, other) = FindDma(slots, other)
    <3>1. CASE Has(slots, other)
      <4>1. /\ First(slots, other) \in DOMAIN slots
            /\ slots[First(slots, other)].handle = other
        BY <3>1, FirstFound
      <4>2. First(slots, other) # f
        BY <2>1, <2>7, <4>1
      <4> QED BY <2>3, <2>5, <3>1, <4>1, <4>2 DEF FindDma
    <3>2. CASE ~Has(slots, other)
      BY <2>5, <3>2 DEF FindDma
    <3> QED BY <3>1, <3>2
  <2> QED BY <1>3, <2>5, <2>6, <2>7
<1>4. CASE ~Has(slots, handle) /\ Len(slots) < Capacity
  <2> DEFINE n == Len(slots) + 1
  <2>1. after = Append(slots, entry)
    BY <1>4, StoreAppendsEntry
  <2>2. /\ DOMAIN after = 1..n /\ n \in Nat /\ n \in 1..n
        /\ after[n] = entry
        /\ \A k \in 1..(n - 1) : k \in DOMAIN slots /\ after[k] = slots[k]
        /\ \A k \in DOMAIN slots : k \in 1..n /\ k # n /\ after[k] = slots[k]
    <3> HIDE DEF entry, after
    <3> QED BY <1>1, <1>2, <2>1
  <2>3. \A k \in DOMAIN slots : slots[k].handle # handle
    BY <1>4 DEF Has
  <2>4. Has(after, handle) /\ FindDma(after, handle) = dma
    <3>1. Has(after, handle)
      BY <2>2 DEF Has
    <3>2. First(after, handle) = n
      <4>1. n \in DOMAIN after /\ after[n].handle = handle
        BY <2>2
      <4>2. \A j \in 1..(n - 1) : after[j].handle # handle
        BY <2>2, <2>3
      <4> HIDE DEF after, n
      <4> QED BY <1>1, <4>1, <4>2, FirstUnique
    <3> QED BY <2>2, <3>1, <3>2 DEF FindDma
  <2>5. ASSUME NEW other \in Handle \ {handle}
        PROVE  /\ Has(after, other) <=> Has(slots, other)
               /\ FindDma(after, other) = FindDma(slots, other)
    <3>1. Has(after, other) <=> Has(slots, other)
      <4>1. \A k \in 1..n : k = n \/ k \in 1..(n - 1)
        BY <2>2
      <4>2. after[n].handle # other
        BY <2>2, <2>5
      <4> HIDE DEF after, n
      <4> QED BY <2>2, <4>1, <4>2 DEF Has
    <3>2. CASE Has(slots, other)
      <4> DEFINE f == First(slots, other)
      <4>1. /\ f \in DOMAIN slots /\ slots[f].handle = other
            /\ \A j \in 1..(f - 1) : slots[j].handle # other
        BY <3>2, FirstFound
      <4>2. \A j \in 1..(f - 1) : j \in DOMAIN slots
        <5> HIDE DEF f
        <5> QED BY <1>2, <4>1
      <4>3. /\ f \in DOMAIN after /\ after[f] = slots[f]
            /\ \A j \in 1..(f - 1) : after[j].handle # other
        BY <2>2, <4>1, <4>2
      <4>4. First(after, other) = f
        <5> HIDE DEF f, after
        <5> QED BY <1>1, <4>1, <4>3, FirstUnique
      <4> QED BY <3>1, <3>2, <4>3, <4>4 DEF FindDma
    <3>3. CASE ~Has(slots, other)
      BY <3>1, <3>3 DEF FindDma
    <3> QED BY <3>1, <3>2, <3>3
  <2> QED BY <1>4, <2>4, <2>5
<1>5. CASE ~Has(slots, handle) /\ ~(Len(slots) < Capacity)
  BY <1>5, StoreDrops
<1> QED BY <1>3, <1>4, <1>5

(* No store overfills the table or gives a handle a second entry.          *)
LEMMA StoreKeepsTable ==
  ASSUME NEW slots \in Table, NEW handle \in Handle, NEW dma \in Dma,
         Len(slots) <= Capacity,
         \A k, j \in DOMAIN slots : slots[k].handle = slots[j].handle => k = j
  PROVE  LET after == StoreHandleDma(slots, handle, dma)
         IN  /\ Len(after) <= Capacity
             /\ \A k, j \in DOMAIN after :
                  after[k].handle = after[j].handle => k = j
<1> DEFINE after == StoreHandleDma(slots, handle, dma)
           entry == [handle |-> handle, dma_addr |-> dma]
<1>1. entry \in Entry
  BY DEF Entry
<1>2. /\ slots \in Seq(Entry) /\ Len(slots) \in Nat
      /\ DOMAIN slots = 1..Len(slots)
  BY DEF Table, Entry
<1>3. CASE Has(slots, handle)
  <2> DEFINE f == First(slots, handle)
  <2>1. f \in DOMAIN slots /\ slots[f].handle = handle
    BY <1>3, FirstFound
  <2>2. after = [slots EXCEPT ![f] = entry]
    BY <1>3, StoreOverwrites
  <2>3. /\ DOMAIN after = DOMAIN slots /\ Len(after) = Len(slots)
        /\ after[f] = entry
        /\ \A k \in DOMAIN slots : k # f => after[k] = slots[k]
    <3> HIDE DEF f, entry, after
    <3> QED BY <1>1, <1>2, <2>1, <2>2
  <2>4. \A k \in DOMAIN slots : slots[k].handle = after[k].handle
    BY <2>1, <2>3
  <2> HIDE DEF after
  <2> QED BY <2>3, <2>4 DEF after
<1>4. CASE ~Has(slots, handle) /\ Len(slots) < Capacity
  <2> DEFINE n == Len(slots) + 1
  <2>1. after = Append(slots, entry)
    BY <1>4, StoreAppendsEntry
  <2>2. /\ DOMAIN after = 1..n /\ n \in Nat /\ Len(after) = n
        /\ after[n] = entry
        /\ \A k \in 1..n : k # n => k \in DOMAIN slots /\ after[k] = slots[k]
    <3> HIDE DEF entry, after
    <3> QED BY <1>1, <1>2, <2>1
  <2>3. \A k \in DOMAIN slots : slots[k].handle # handle
    BY <1>4 DEF Has
  <2>4. \A k \in 1..n : k # n => after[k].handle # after[n].handle
    BY <2>2, <2>3
  <2>5. n <= Capacity
    BY <1>2, <1>4, MapAssumption
  <2> HIDE DEF after, n
  <2> QED BY <2>2, <2>4, <2>5 DEF after
<1>5. CASE ~Has(slots, handle) /\ ~(Len(slots) < Capacity)
  BY <1>5, StoreDrops
<1> QED BY <1>3, <1>4, <1>5

-----------------------------------------------------------------------------
Bounded == Len(loop_table) <= Capacity

LoopInv == LoopTypeOK /\ Bounded /\ EntriesAreHandles /\ HeldIsFound

LEMMA LoopInitHolds ==
  ASSUME LoopInit
  PROVE  LoopInv
<1>1. loop_table = <<>> /\ loop_table \in Table /\ Len(loop_table) = 0 /\ DOMAIN loop_table = {}
  BY DEF LoopInit, Table
<1>2. DOMAIN loop_objects = {}
  BY DEF LoopInit, Empty
<1> QED BY <1>1, <1>2, LoopsAssumption, MapAssumption
    DEF LoopInit, LoopInv, LoopTypeOK, Bounded, EntriesAreHandles, HeldIsFound

(* The new handle is free, its entry is its own or there is no room for it.*)
LEMMA LoopAllocateKeeps ==
  ASSUME LoopInv, LoopAllocate
  PROVE  LoopInv'
<1> DEFINE handle == NewHandle(DOMAIN loop_objects)
<1>1. PICK dma \in Dma \ Values(loop_objects) :
        /\ loop_objects' = With(loop_objects, handle, dma)
        /\ loop_table' = StoreHandleDma(loop_table, handle, dma)
        /\ loop_held' = handle
  BY DEF LoopAllocate
<1>2. handle \in Handle
  BY NewHandleFree DEF LoopAllocate
<1>3. /\ loop_pc' = "held" /\ iter' = iter + 1 /\ iter' \in 0..Loops
  BY LoopsAssumption DEF LoopAllocate, LoopInv, LoopTypeOK
<1> HIDE DEF handle
<1>0. /\ DOMAIN loop_objects' = DOMAIN loop_objects \cup {handle}
      /\ loop_objects'[handle] = dma
      /\ \A h \in DOMAIN loop_objects : h # handle => loop_objects'[h] = loop_objects[h]
  BY <1>1 DEF With
<1>4. LoopTypeOK'
  <2>1. loop_table' \in Table
    BY <1>1, <1>2, StoreType DEF LoopInv, LoopTypeOK
  <2>2. /\ DOMAIN loop_objects' \subseteq Handle
        /\ \A h \in DOMAIN loop_objects' : loop_objects'[h] \in Dma
    BY <1>1, <1>2, <1>0 DEF LoopInv, LoopTypeOK
  <2> QED BY <1>1, <1>2, <1>3, <2>1, <2>2 DEF LoopTypeOK
<1>5. Bounded' /\ EntriesAreHandles'
  BY <1>1, <1>2, StoreKeepsTable DEF LoopInv, LoopTypeOK, Bounded, EntriesAreHandles
<1>6. HeldIsFound'
  <2>1. loop_objects'[handle] = dma
    BY <1>0
  <2>2. CASE Has(loop_table, handle) \/ Len(loop_table) < Capacity
    BY <1>1, <1>2, <2>1, <2>2, StoreFinds DEF LoopInv, LoopTypeOK, HeldIsFound
  <2>3. CASE ~(Has(loop_table, handle) \/ Len(loop_table) < Capacity)
    <3>1. loop_table' = loop_table
      BY <1>1, <1>2, <2>3, StoreFinds DEF LoopInv, LoopTypeOK
    <3>2. Len(loop_table) = Capacity
      BY <2>3, MapAssumption DEF LoopInv, LoopTypeOK, Bounded, Table
    <3>3. FindDma(loop_table, handle) = None
      BY <2>3 DEF FindDma
    <3> QED BY <1>1, <3>1, <3>2, <3>3 DEF HeldIsFound
  <2> QED BY <2>2, <2>3
<1> QED BY <1>4, <1>5, <1>6 DEF LoopInv

LEMMA LoopStepKeeps ==
  ASSUME LoopInv, [LoopNext]_loopVars
  PROVE  LoopInv'
<1>1. CASE LoopAllocate
  BY <1>1, LoopAllocateKeeps
<1>2. ASSUME LoopAllocateFails \/ LoopDestroy \/ LoopClose
      PROVE  LoopInv'
  <2>1. /\ UNCHANGED <<iter, loop_table>> /\ loop_pc' \in {"top", "closed"}
        /\ loop_held' \in {loop_held, None}
    BY <1>2 DEF LoopAllocateFails, LoopDestroy, LoopClose
  <2>2. /\ DOMAIN loop_objects' \subseteq Handle
        /\ \A h \in DOMAIN loop_objects' : loop_objects'[h] \in Dma
    <3>1. CASE loop_objects' = Empty
      BY <3>1 DEF Empty
    <3>2. CASE loop_objects' = Only(loop_objects, DOMAIN loop_objects \ {loop_held})
      BY <3>2 DEF Only, LoopInv, LoopTypeOK
    <3>3. CASE loop_objects' = loop_objects
      BY <3>3 DEF LoopInv, LoopTypeOK
    <3> QED BY <1>2, <3>1, <3>2, <3>3 DEF LoopAllocateFails, LoopDestroy, LoopClose
  <2>3. LoopTypeOK'
    BY <2>1, <2>2 DEF LoopInv, LoopTypeOK
  <2> QED BY <2>1, <2>3 DEF LoopInv, Bounded, EntriesAreHandles, HeldIsFound
<1>3. CASE UNCHANGED loopVars
  BY <1>3 DEF loopVars, LoopInv, LoopTypeOK, Bounded, EntriesAreHandles, HeldIsFound
<1> QED BY <1>1, <1>2, <1>3 DEF LoopNext

LEMMA LoopInvCorrect == LoopSpec => []LoopInv
<1>1. LoopInit => LoopInv
  BY LoopInitHolds
<1>2. LoopInv /\ [LoopNext]_loopVars => LoopInv'
  BY LoopStepKeeps
<1> QED BY <1>1, <1>2, PTL DEF LoopSpec

(* The loop's state is well typed, 500 iterations or any other number.     *)
THEOREM LoopTyped == LoopSpec => []LoopTypeOK
<1>1. LoopInv => LoopTypeOK
  BY DEF LoopInv
<1> QED BY <1>1, LoopInvCorrect, PTL

(***************************************************************************)
(* However often a handle number comes back, handle_dma_map has its newest *)
(* address; only a full table may not know it.                             *)
(***************************************************************************)
THEOREM NewestAddressFound == LoopSpec => []HeldIsFound
<1>1. LoopInv => HeldIsFound
  BY DEF LoopInv
<1> QED BY <1>1, LoopInvCorrect, PTL

(* A handle never occupies two slots of handle_dma_map.                    *)
THEOREM OneSlotPerHandle == LoopSpec => []EntriesAreHandles
<1>1. LoopInv => EntriesAreHandles
  BY DEF LoopInv
<1> QED BY <1>1, LoopInvCorrect, PTL

-----------------------------------------------------------------------------
Line == [flink : Name, dma : Dma]

HeldInv ==
  /\ pc = "idle" => held = <<>> /\ flinked = 0
  /\ pc = "alloc" => Len(held) < Buffers
  /\ pc \in {"flink", "log", "run"} => Len(held) = Buffers
  /\ pc = "log" => flinked < Buffers

(* The table of this op knows its buffers, if it has room for them.        *)
TableInv ==
  /\ pc # "idle" => Len(table) <= Len(held)
  /\ \A k \in DOMAIN held :
       Has(table, held[k]) => FindDma(table, held[k]) = objects[held[k]]
  /\ Buffers <= Capacity => \A k \in DOMAIN held : Has(table, held[k])

NameInv ==
  pc = "log" => \E n \in DOMAIN names : names[n] = objects[held[flinked + 1]]

(***************************************************************************)
(* Within an op a line of the file is true. After it the name may be gone, *)
(* but it is nobody else's before the file is emptied.                     *)
(***************************************************************************)
FileInv ==
  \A line \in DOMAIN file :
    /\ file[line].flink \in DOMAIN names
         => names[file[line].flink] = file[line].dma
    /\ pc # "idle" => /\ file[line].flink \in DOMAIN names
                      /\ file[line].dma \in Values(objects)

LoggedInv ==
  Buffers <= Capacity =>
    \A k \in 1..flinked :
      \E line \in DOMAIN file : file[line].dma = objects[held[k]]

(* What dump.py has opened keeps its name.                                 *)
DumpInv ==
  /\ dump # "idle" => base = None
  /\ dump = "again" => decoded = None
  /\ dump = "again" /\ raw # None
       => raw \in opened /\ want \in DOMAIN names /\ names[want] = raw
  /\ dump = "decode"
       => decoded \in opened /\ want \in DOMAIN names /\ names[want] = decoded
  /\ SameBuffer

(* The newest captured line of a name is its object's, once that is told.  *)
LogsInv == \A n \in told : n \in DOMAIN captured /\ captured[n] = names[n]

Inv == /\ TypeOK /\ HeldInv /\ TableInv
       /\ NameInv /\ FileInv /\ LoggedInv /\ LogsInv /\ DumpInv

-----------------------------------------------------------------------------
LEMMA InitHolds ==
  ASSUME Init
  PROVE  Inv
<1>1. /\ table \in Table /\ held \in Seq(Handle) /\ file \in Seq(Line)
      /\ Len(held) = 0 /\ DOMAIN file = {} /\ DOMAIN held = {}
      /\ DOMAIN objects = {} /\ DOMAIN names = {}
      /\ DOMAIN captured = {} /\ told = {} /\ foreign \in Foreign
  BY DEF Init, Table, Empty, Line
<1>2. TypeOK
  <2>1. Len(held) <= Buffers /\ flinked \in 0..Len(held)
    BY <1>1, LogAssumption DEF Init
  <2> QED BY <1>1, <2>1 DEF Init, TypeOK, Line
<1>3. HeldInv /\ TableInv /\ NameInv /\ FileInv /\ LoggedInv /\ LogsInv
  BY <1>1 DEF Init, HeldInv, TableInv, NameInv, FileInv, LoggedInv, LogsInv
<1>4. DumpInv
  BY DEF Init, DumpInv, SameBuffer
<1> QED BY <1>2, <1>3, <1>4 DEF Inv

LEMMA CreateRegCmdKeeps ==
  ASSUME Inv, CreateRegCmd
  PROVE  Inv'
<1>1. /\ table' \in Table /\ Len(table') = 0
      /\ file' \in Seq(Line) /\ DOMAIN file' = {}
      /\ Len(held) = 0 /\ DOMAIN held = {} /\ flinked = 0
  BY DEF CreateRegCmd, Table, Line, Inv, HeldInv
<1>2. TypeOK'
  BY <1>1 DEF CreateRegCmd, Inv, TypeOK, logVars, dumpVars, Line
<1>3. HeldInv' /\ TableInv' /\ NameInv' /\ FileInv' /\ LoggedInv' /\ LogsInv'
  BY <1>1, LogAssumption
  DEF CreateRegCmd, Inv, HeldInv, TableInv, NameInv, FileInv, LoggedInv, LogsInv, logVars
<1>4. DumpInv'
  BY DEF CreateRegCmd, Inv, DumpInv, SameBuffer, dumpVars
<1> QED BY <1>2, <1>3, <1>4 DEF Inv

(* One more object, with or without a buffer that is it.                   *)
LEMMA ObjectsGrow ==
  ASSUME Inv, Handle \ DOMAIN objects # {}, NEW dma \in Dma,
         objects' = With(objects, NewHandle(DOMAIN objects), dma)
  PROVE  LET handle == NewHandle(DOMAIN objects)
         IN  /\ handle \in Handle \ DOMAIN objects
             /\ DOMAIN objects' = DOMAIN objects \cup {handle}
             /\ objects'[handle] = dma
             /\ \A h \in DOMAIN objects : objects'[h] = objects[h]
             /\ Values(objects) \subseteq Values(objects')
             /\ DOMAIN objects' \subseteq Handle
             /\ \A h \in DOMAIN objects' : objects'[h] \in Dma
<1> DEFINE handle == NewHandle(DOMAIN objects)
<1>1. handle \in Handle \ DOMAIN objects
  BY NewHandleFree
<1> HIDE DEF handle
<1>2. /\ DOMAIN objects' = DOMAIN objects \cup {handle}
      /\ objects'[handle] = dma
      /\ \A h \in DOMAIN objects : objects'[h] = objects[h]
  BY <1>1 DEF With, handle
<1>3. Values(objects) \subseteq Values(objects')
  BY <1>2 DEF Values
<1>4. /\ DOMAIN objects' \subseteq Handle
      /\ \A h \in DOMAIN objects' : objects'[h] \in Dma
  BY <1>1, <1>2 DEF Inv, TypeOK
<1> QED BY <1>1, <1>2, <1>3, <1>4 DEF handle

(* A store adds at most one entry.                                         *)
LEMMA StoreLength ==
  ASSUME NEW t \in Table, NEW handle \in Handle, NEW dma \in Dma
  PROVE  Len(StoreHandleDma(t, handle, dma)) <= Len(t) + 1
<1> DEFINE entry == [handle |-> handle, dma_addr |-> dma]
<1>1. t \in Seq(Entry) /\ entry \in Entry
  BY DEF Table, Entry
<1> HIDE DEF entry
<1>2. CASE Has(t, handle)
  <2>1. First(t, handle) \in DOMAIN t
    BY <1>2, FirstFound
  <2>2. Len([t EXCEPT ![First(t, handle)] = entry]) = Len(t)
    BY <1>1, <2>1
  <2> QED BY <1>1, <1>2, <2>2, StoreOverwrites DEF entry
<1>3. CASE ~Has(t, handle) /\ Len(t) < Capacity
  <2>1. Len(Append(t, entry)) = Len(t) + 1
    BY <1>1
  <2> QED BY <1>1, <1>3, <2>1, StoreAppendsEntry DEF entry
<1>4. CASE ~Has(t, handle) /\ ~(Len(t) < Capacity)
  BY <1>1, <1>4, StoreDrops
<1> QED BY <1>2, <1>3, <1>4

LEMMA AllocateKeeps ==
  ASSUME Inv, Allocate
  PROVE  Inv'
<1> DEFINE handle == NewHandle(DOMAIN objects)
<1>1. PICK dma \in Dma :
        /\ objects' = With(objects, handle, dma)
        /\ table' = StoreHandleDma(table, handle, dma)
        /\ held' = Append(held, handle)
  BY DEF Allocate, FreeDma
<1>2. /\ handle \in Handle \ DOMAIN objects
      /\ DOMAIN objects' = DOMAIN objects \cup {handle}
      /\ objects'[handle] = dma
      /\ \A h \in DOMAIN objects : objects'[h] = objects[h]
      /\ Values(objects) \subseteq Values(objects')
      /\ DOMAIN objects' \subseteq Handle
      /\ \A h \in DOMAIN objects' : objects'[h] \in Dma
  BY <1>1, ObjectsGrow DEF Allocate
<1> HIDE DEF handle
<1>3. /\ held \in Seq(Handle) /\ table \in Table /\ Len(held) < Buffers
      /\ \A k \in DOMAIN held : held[k] \in DOMAIN objects
      /\ Len(table) \in Nat /\ Len(table) <= Len(held)
      /\ flinked \in 0..Len(held)
  BY DEF Allocate, Inv, TypeOK, HeldInv, TableInv, Table
<1>4. /\ held' \in Seq(Handle) /\ Len(held') = Len(held) + 1
      /\ DOMAIN held' = 1..(Len(held) + 1) /\ DOMAIN held = 1..Len(held)
      /\ held'[Len(held) + 1] = handle
      /\ \A k \in DOMAIN held : held'[k] = held[k]
  BY <1>1, <1>2, <1>3
<1>5. TypeOK'
  <2>1. table' \in Table
    BY <1>1, <1>2, <1>3, StoreType
  <2>2. Len(held') <= Buffers /\ flinked' \in 0..Len(held')
    BY <1>3, <1>4, LogAssumption DEF Allocate
  <2>3. \A k \in DOMAIN held' : held'[k] \in DOMAIN objects'
    BY <1>2, <1>3, <1>4
  <2>4. pc' \in {"alloc", "flink"}
    BY DEF Allocate
  <2> QED BY <1>2, <1>4, <2>1, <2>2, <2>3, <2>4
      DEF Allocate, Inv, TypeOK, logVars, dumpVars
<1>6. HeldInv'
  BY <1>3, <1>4, LogAssumption DEF Allocate, HeldInv
<1>7. TableInv'
  <2>1. Len(table') <= Len(held')
    <3>1. Len(table') <= Len(table) + 1
      BY <1>1, <1>2, <1>3, StoreLength
    <3>2. Len(table') \in Nat
      BY <1>1, <1>2, <1>3, StoreType DEF Table
    <3> QED BY <1>3, <1>4, <3>1, <3>2
  <2>2. /\ Has(table, handle) \/ Len(table) < Capacity
             => Has(table', handle) /\ FindDma(table', handle) = dma
        /\ ~Has(table, handle) /\ ~(Len(table) < Capacity)
             => table' = table
        /\ \A other \in Handle \ {handle} :
             /\ Has(table', other) <=> Has(table, other)
             /\ FindDma(table', other) = FindDma(table, other)
    BY <1>1, <1>2, <1>3, StoreFinds
  <2>3. Has(table', handle) => FindDma(table', handle) = dma
    BY <2>2
  <2>4. Buffers <= Capacity => Has(table', handle)
    BY <1>3, <2>2, LogAssumption, MapAssumption
  <2>5. ASSUME NEW k \in DOMAIN held'
        PROVE  /\ Has(table', held'[k])
                    => FindDma(table', held'[k]) = objects'[held'[k]]
               /\ Buffers <= Capacity => Has(table', held'[k])
    <3>1. CASE k = Len(held) + 1
      BY <1>2, <1>4, <2>3, <2>4, <3>1
    <3>2. CASE k \in DOMAIN held
      <4>1. /\ held'[k] = held[k] /\ held[k] \in DOMAIN objects
            /\ held[k] \in Handle \ {handle}
            /\ objects'[held[k]] = objects[held[k]]
        BY <1>2, <1>3, <1>4, <3>2
      <4> QED BY <2>2, <3>2, <4>1 DEF Inv, TableInv
    <3> QED BY <1>3, <1>4, <2>5, <3>1, <3>2
  <2> QED BY <2>1, <2>5 DEF TableInv
<1>8. NameInv' /\ FileInv'
  <2>1. pc = "alloc" /\ pc' # "log" /\ UNCHANGED <<file, names>>
    BY DEF Allocate
  <2> QED BY <1>2, <2>1 DEF Inv, NameInv, FileInv
<1>9. LoggedInv'
  <2>1. UNCHANGED <<file, flinked>>
    BY DEF Allocate
  <2>2. \A k \in 1..flinked : objects'[held'[k]] = objects[held[k]]
    BY <1>2, <1>3, <1>4
  <2> QED BY <2>1, <2>2 DEF Inv, LoggedInv
<1>10. DumpInv' /\ LogsInv'
  BY DEF Allocate, LogsInv, logVars, Inv, DumpInv, SameBuffer, dumpVars
<1> QED BY <1>5, <1>6, <1>7, <1>8, <1>9, <1>10 DEF Inv

(* The first failure of the last buffer, which may leave an object behind. *)
LEMMA RetryKeeps ==
  ASSUME Inv, AllocateFails, retried' = TRUE,
         UNCHANGED <<pc, held, flinked, table, file, logVars, names, dumpVars>>,
         \/ UNCHANGED objects
         \/ /\ Handle \ DOMAIN objects # {}
            /\ \E dma \in FreeDma :
                 objects' = With(objects, NewHandle(DOMAIN objects), dma)
  PROVE  Inv'
<1>1. /\ DOMAIN objects \subseteq DOMAIN objects'
      /\ \A h \in DOMAIN objects : objects'[h] = objects[h]
      /\ Values(objects) \subseteq Values(objects')
      /\ DOMAIN objects' \subseteq Handle
      /\ \A h \in DOMAIN objects' : objects'[h] \in Dma
  <2>1. CASE UNCHANGED objects
    BY <2>1 DEF Inv, TypeOK
  <2>2. CASE /\ Handle \ DOMAIN objects # {}
             /\ \E dma \in FreeDma :
                  objects' = With(objects, NewHandle(DOMAIN objects), dma)
    BY <2>2, ObjectsGrow DEF FreeDma
  <2> QED BY <2>1, <2>2
<1>2. \A k \in DOMAIN held : /\ held[k] \in DOMAIN objects'
                             /\ objects'[held[k]] = objects[held[k]]
  BY <1>1 DEF Inv, TypeOK
<1>3. pc = "alloc"
  BY DEF AllocateFails, CloseDevice
<1>4. TypeOK'
  BY <1>1, <1>2 DEF Inv, TypeOK, logVars, dumpVars
<1>5. HeldInv' /\ TableInv'
  BY <1>2 DEF Inv, HeldInv, TableInv
<1>6. NameInv' /\ FileInv'
  BY <1>1, <1>3 DEF Inv, NameInv, FileInv
<1>7. LoggedInv'
  <2>1. 1..flinked \subseteq DOMAIN held
    BY DEF Inv, TypeOK
  <2> QED BY <1>2, <2>1 DEF Inv, LoggedInv
<1>8. DumpInv' /\ LogsInv'
  BY DEF LogsInv, logVars, Inv, DumpInv, SameBuffer, dumpVars
<1> QED BY <1>4, <1>5, <1>6, <1>7, <1>8 DEF Inv

(* What dump.py has opened is still named, everything else of the op gone. *)
LEMMA CloseDeviceKeeps ==
  ASSUME Inv, CloseDevice
  PROVE  Inv'
<1>1. /\ DOMAIN objects' = {}
      /\ held' \in Seq(Handle) /\ Len(held') = 0 /\ DOMAIN held' = {}
      /\ flinked' = 0 /\ pc' = "idle" /\ retried' = FALSE
      /\ UNCHANGED <<table, file, captured, foreign, dumpVars>>
  BY DEF CloseDevice, Empty
<1>2. /\ DOMAIN names' \subseteq DOMAIN names
      /\ \A n \in DOMAIN names' : names'[n] = names[n]
      /\ \A n \in DOMAIN names : names[n] \in opened => n \in DOMAIN names'
      /\ told' = told \cap DOMAIN names'
  BY DEF CloseDevice, Only
<1>3. TypeOK'
  <2>1. Len(held') <= Buffers /\ flinked' \in 0..Len(held')
    BY <1>1, LogAssumption
  <2>2. DOMAIN names' \subseteq Name /\ \A n \in DOMAIN names' : names'[n] \in Dma
    BY <1>2 DEF Inv, TypeOK
  <2>3. told' \subseteq DOMAIN names' /\ foreign' \in Foreign
        /\ DOMAIN captured' \subseteq Name
        /\ \A n \in DOMAIN captured' : captured'[n] \in Dma
    BY <1>1, <1>2 DEF Inv, TypeOK
  <2> QED BY <1>1, <2>1, <2>2, <2>3 DEF Inv, TypeOK, dumpVars
<1>4. HeldInv' /\ TableInv' /\ NameInv' /\ LoggedInv'
  BY <1>1 DEF CloseDevice, HeldInv, TableInv, NameInv, LoggedInv
<1>5. FileInv'
  BY <1>1, <1>2 DEF Inv, FileInv
<1>6. DumpInv' /\ LogsInv'
  BY <1>1, <1>2 DEF LogsInv, Inv, DumpInv, SameBuffer, dumpVars
<1> QED BY <1>3, <1>4, <1>5, <1>6 DEF Inv

-----------------------------------------------------------------------------
LEMMA FlinkIoctlKeeps ==
  ASSUME Inv, FlinkIoctl
  PROVE  Inv'
<1> DEFINE lowest == CHOOSE n \in Name \ DOMAIN names :
                       \A other \in Name \ DOMAIN names : n <= other
           dma == objects[held[flinked + 1]]
<1>1. lowest \in Name \ DOMAIN names
  <2>1. \E n \in Name \ DOMAIN names :
          \A other \in Name \ DOMAIN names : n <= other
    BY LeastNumber, LogAssumption DEF FlinkIoctl
  <2> QED BY <2>1
<1>2. names' = With(names, lowest, dma) /\ pc' = "log" /\ pc = "flink"
  BY DEF FlinkIoctl
<1>3. dma \in Dma
  <2>1. flinked + 1 \in DOMAIN held
    BY LogAssumption DEF FlinkIoctl, Inv, TypeOK, HeldInv
  <2> QED BY <2>1 DEF Inv, TypeOK
<1> HIDE DEF lowest, dma
<1>4. /\ DOMAIN names' = DOMAIN names \cup {lowest} /\ names'[lowest] = dma
      /\ \A n \in DOMAIN names : names'[n] = names[n]
  BY <1>1, <1>2 DEF With
<1>5. TypeOK'
  BY <1>1, <1>2, <1>3, <1>4 DEF FlinkIoctl, Inv, TypeOK, logVars, dumpVars
<1>6. HeldInv' /\ TableInv'
  BY LogAssumption DEF FlinkIoctl, Inv, TypeOK, HeldInv, TableInv
<1>7. NameInv'
  BY <1>4 DEF FlinkIoctl, NameInv, dma
<1>8. FileInv'
  <2>1. UNCHANGED <<file, objects>>
    BY DEF FlinkIoctl
  <2> QED BY <1>1, <1>2, <1>4, <2>1 DEF Inv, FileInv
<1>9. LoggedInv'
  BY DEF FlinkIoctl, Inv, LoggedInv
<1>10. DumpInv' /\ LogsInv'
  BY <1>4 DEF TypeOK, LogsInv, logVars, FlinkIoctl, Inv, DumpInv, SameBuffer, dumpVars
<1> QED BY <1>5, <1>6, <1>7, <1>8, <1>9, <1>10 DEF Inv

LEMMA FlinkLogKeeps ==
  ASSUME Inv, FlinkLog
  PROVE  Inv'
<1> DEFINE handle == held[flinked + 1]
           name == CHOOSE n \in DOMAIN names : names[n] = objects[handle]
           line == [flink |-> name, dma |-> FindDma(table, handle)]
<1>1. /\ pc = "log" /\ pc' = "flink" /\ flinked' = flinked + 1
      /\ file' = IF Has(table, handle) THEN Append(file, line) ELSE file
      /\ UNCHANGED <<retried, objects, held, table, foreign, names, dumpVars>>
      /\ \/ UNCHANGED <<captured, told>>
         \/ /\ Has(table, handle)
            /\ captured' = With(captured, name, FindDma(table, handle))
            /\ told' = told \cup {name}
  BY DEF FlinkLog
<1>2. name \in DOMAIN names /\ names[name] = objects[handle]
  BY <1>1 DEF Inv, NameInv
<1>3. /\ flinked + 1 \in DOMAIN held /\ handle \in DOMAIN objects
      /\ objects[handle] \in Dma /\ name \in Name
      /\ flinked + 1 \in 0..Len(held) /\ flinked \in Nat
      /\ Len(held) = Buffers
  BY <1>1, <1>2, LogAssumption DEF Inv, TypeOK, HeldInv
<1>4. Has(table, handle) =>
        /\ FindDma(table, handle) = objects[handle]
        /\ line \in Line /\ line.flink = name /\ line.dma = objects[handle]
  BY <1>3 DEF Inv, TableInv, Line
<1> HIDE DEF handle, name, line
<1>5. file \in Seq(Line)
  BY DEF Inv, TypeOK, Line
<1>6. /\ file' \in Seq(Line)
      /\ \A k \in DOMAIN file : k \in DOMAIN file' /\ file'[k] = file[k]
      /\ \A k \in DOMAIN file' : \/ k \in DOMAIN file
                                 \/ Has(table, handle) /\ file'[k] = line
      /\ Has(table, handle) => /\ Len(file) + 1 \in DOMAIN file'
                               /\ file'[Len(file) + 1] = line
  BY <1>1, <1>4, <1>5
<1>7. /\ DOMAIN captured' \subseteq Name
      /\ \A n \in DOMAIN captured' : captured'[n] \in Dma
      /\ told' \subseteq DOMAIN names'
      /\ LogsInv'
  <2>1. CASE UNCHANGED <<captured, told>>
    BY <1>1, <2>1 DEF Inv, TypeOK, LogsInv
  <2>2. CASE /\ Has(table, handle)
             /\ captured' = With(captured, name, FindDma(table, handle))
             /\ told' = told \cup {name}
    <3>1. /\ DOMAIN captured' = DOMAIN captured \cup {name}
          /\ captured'[name] = objects[handle]
          /\ \A n \in DOMAIN captured \ {name} : captured'[n] = captured[n]
      BY <1>4, <2>2 DEF With
    <3> QED BY <1>1, <1>2, <1>3, <2>2, <3>1 DEF Inv, TypeOK, LogsInv
  <2> QED BY <1>1, <2>1, <2>2
<1>8. TypeOK'
  <2>1. pc' = "flink" /\ flinked' \in 0..Len(held') /\ foreign' \in Foreign
    BY <1>1, <1>3 DEF Inv, TypeOK
  <2> QED BY <1>1, <1>6, <1>7, <2>1 DEF Inv, TypeOK, dumpVars, Line
<1>9. HeldInv' /\ TableInv' /\ NameInv'
  BY <1>1, <1>3 DEF Inv, HeldInv, TableInv, NameInv
<1>10. FileInv'
  <2>1. objects[handle] \in Values(objects)
    BY <1>3 DEF Values
  <2>2. ASSUME NEW k \in DOMAIN file'
        PROVE  /\ file'[k].flink \in DOMAIN names
               /\ names[file'[k].flink] = file'[k].dma
               /\ file'[k].dma \in Values(objects)
    <3>1. CASE k \in DOMAIN file
      BY <1>1, <1>6, <3>1 DEF Inv, FileInv
    <3>2. CASE Has(table, handle) /\ file'[k] = line
      BY <1>2, <1>4, <2>1, <3>2
    <3> QED BY <1>6, <2>2, <3>1, <3>2
  <2> QED BY <1>1, <2>2 DEF FileInv
<1>11. LoggedInv'
  <2> SUFFICES ASSUME Buffers <= Capacity, NEW k \in 1..(flinked + 1)
               PROVE  \E l \in DOMAIN file' :
                        file'[l].dma = objects[held[k]]
    BY <1>1 DEF LoggedInv
  <2>1. CASE k = flinked + 1
    <3>1. Has(table, handle)
      BY <1>3 DEF Inv, TableInv, handle
    <3> QED BY <1>4, <1>6, <2>1, <3>1 DEF handle
  <2>2. CASE k \in 1..flinked
    BY <1>6, <2>2 DEF Inv, LoggedInv
  <2> QED BY <1>3, <2>1, <2>2
<1>12. DumpInv'
  BY <1>1 DEF Inv, DumpInv, SameBuffer, dumpVars
<1>13. LogsInv'
  BY <1>7
<1> QED BY <1>8, <1>9, <1>10, <1>11, <1>12, <1>13 DEF Inv

LEMMA FlinkDoneKeeps ==
  ASSUME Inv, FlinkDone
  PROVE  Inv'
<1>1. TypeOK' /\ HeldInv' /\ TableInv'
  BY DEF FlinkDone, Inv, TypeOK, HeldInv, TableInv, logVars, dumpVars
<1>2. NameInv' /\ FileInv' /\ LoggedInv' /\ LogsInv'
  BY DEF FlinkDone, Inv, NameInv, FileInv, LoggedInv, LogsInv, logVars
<1>3. DumpInv'
  BY DEF FlinkDone, Inv, DumpInv, SameBuffer, dumpVars
<1> QED BY <1>1, <1>2, <1>3 DEF Inv

-----------------------------------------------------------------------------
(* dump.py takes nothing from the driver but names it does not need.       *)
LEMMA DriverUnmoved ==
  ASSUME Inv, UNCHANGED driverVars,
         UNCHANGED captured, told' \subseteq told \cap DOMAIN names',
         DOMAIN names' \subseteq DOMAIN names,
         \A n \in DOMAIN names' : names'[n] = names[n],
         \A n \in DOMAIN names :
           names[n] \in Values(objects) => n \in DOMAIN names'
  PROVE  HeldInv' /\ TableInv' /\ NameInv' /\ FileInv' /\ LoggedInv' /\ LogsInv'
<1>1. HeldInv' /\ TableInv' /\ LoggedInv' /\ LogsInv'
  BY DEF Inv, HeldInv, TableInv, LoggedInv, LogsInv, driverVars
<1>2. NameInv'
  <2> SUFFICES ASSUME pc = "log"
               PROVE  \E n \in DOMAIN names' :
                        names'[n] = objects[held[flinked + 1]]
    BY DEF NameInv, driverVars
  <2>1. flinked + 1 \in DOMAIN held
    BY LogAssumption DEF Inv, TypeOK, HeldInv
  <2>2. objects[held[flinked + 1]] \in Values(objects)
    BY <2>1 DEF Inv, TypeOK, Values
  <2> QED BY <2>2 DEF Inv, NameInv
<1>3. FileInv'
  BY DEF Inv, FileInv, driverVars
<1> QED BY <1>1, <1>2, <1>3

(* The last line with a name is one with that name.                        *)
LEMMA LookupInFile ==
  ASSUME Inv, NEW name, FileLines(name) # {}
  PROVE  LET found == FileLines(name)
             last == CHOOSE k \in found : \A j \in found : j <= k
         IN  last \in DOMAIN file /\ file[last].flink = name
<1> DEFINE found == FileLines(name)
           last == CHOOSE k \in found : \A j \in found : j <= k
           Back == {Len(file) - k : k \in found}
<1>1. /\ file \in Seq(Line) /\ DOMAIN file = 1..Len(file) /\ Len(file) \in Nat
      /\ found \subseteq DOMAIN file
  BY DEF Inv, TypeOK, Line, FileLines
<1> HIDE DEF found
<1>2. Back \in SUBSET Nat /\ Back # {}
  BY <1>1 DEF found
<1>3. PICK b \in Back : \A c \in Back : b <= c
  BY <1>2, LeastNumber
<1>4. PICK k \in found : b = Len(file) - k
  OBVIOUS
<1>5. ASSUME NEW j \in found
      PROVE  j <= k
  <2>1. b <= Len(file) - j
    BY <1>3
  <2>2. k \in 1..Len(file) /\ j \in 1..Len(file)
    BY <1>1
  <2> HIDE DEF Back
  <2> QED BY <1>1, <1>4, <2>1, <2>2
<1>6. last \in found
  BY <1>4, <1>5, Zenon
<1> QED BY <1>1, <1>6 DEF found, FileLines

LEMMA DumperKeeps ==
  ASSUME Inv, Dumper
  PROVE  Inv'
<1>1. ASSUME NEW n \in Name, DumpRaw(n)
      PROVE  Inv'
  <2>1. TypeOK'
    BY <1>1 DEF DumpRaw, Inv, TypeOK, logVars, driverVars
  <2>2. HeldInv' /\ TableInv' /\ NameInv' /\ FileInv' /\ LoggedInv' /\ LogsInv'
    BY <1>1, DriverUnmoved DEF DumpRaw, Inv, TypeOK, logVars
  <2>3. DumpInv'
    BY <1>1 DEF DumpRaw, DumpInv, SameBuffer
  <2> QED BY <2>1, <2>2, <2>3 DEF Inv
<1>2. CASE DumpDecode
  <2>1. TypeOK'
    BY <1>2 DEF DumpDecode, Inv, TypeOK, logVars, driverVars
  <2>2. HeldInv' /\ TableInv' /\ NameInv' /\ FileInv' /\ LoggedInv' /\ LogsInv'
    BY <1>2, DriverUnmoved DEF DumpDecode, Inv, TypeOK, logVars
  <2>3. DumpInv'
    BY <1>2 DEF DumpDecode, Inv, DumpInv, SameBuffer
  <2> QED BY <2>1, <2>2, <2>3 DEF Inv
<1>3. CASE DumpLookup
  <2>1. /\ dump = "decode" /\ dump' = "idle"
        /\ UNCHANGED <<driverVars, logVars, names, want, opened, raw, decoded>>
    BY <1>3 DEF DumpLookup
  <2>2. base' \in Dma \cup {None}
    <3>1. CASE FileLines(want) # {}
      <4> DEFINE found == FileLines(want)
                 last == CHOOSE k \in found : \A j \in found : j <= k
      <4>1. base' = file[last].dma
        BY <1>3, <3>1 DEF DumpLookup
      <4>2. last \in DOMAIN file
        BY <3>1, LookupInFile
      <4>3. file \in Seq(Line)
        BY DEF Inv, TypeOK, Line
      <4> HIDE DEF last
      <4>4. file[last] \in Line
        BY <4>2, <4>3
      <4> QED BY <4>1, <4>4 DEF Line
    <3>2. CASE FileLines(want) = {} /\ want \in DOMAIN foreign
      BY <1>3, <3>2, LogAssumption DEF DumpLookup, Inv, TypeOK
    <3>3. CASE FileLines(want) = {} /\ want \notin DOMAIN foreign
      BY <1>3, <3>3 DEF DumpLookup, Inv, TypeOK
    <3> QED BY <3>1, <3>2, <3>3
  <2>3. TypeOK'
    BY <2>1, <2>2 DEF Inv, TypeOK, logVars, driverVars
  <2>4. HeldInv' /\ TableInv' /\ NameInv' /\ FileInv' /\ LoggedInv' /\ LogsInv'
    BY <2>1, DriverUnmoved DEF Inv, TypeOK, logVars
  <2>5. DumpInv'
    BY <2>1 DEF Inv, DumpInv, SameBuffer
  <2> QED BY <2>3, <2>4, <2>5 DEF Inv
<1>4. CASE DumpSkips
  <2>1. TypeOK'
    BY <1>4 DEF DumpSkips, Inv, TypeOK, logVars, driverVars
  <2>2. HeldInv' /\ TableInv' /\ NameInv' /\ FileInv' /\ LoggedInv' /\ LogsInv'
    BY <1>4, DriverUnmoved DEF DumpSkips, Inv, TypeOK, logVars
  <2>3. DumpInv'
    BY <1>4 DEF DumpSkips, Inv, DumpInv, SameBuffer
  <2> QED BY <2>1, <2>2, <2>3 DEF Inv
<1>5. CASE DumpExits
  <2>1. /\ DOMAIN names' \subseteq DOMAIN names
        /\ \A n \in DOMAIN names' : names'[n] = names[n]
        /\ \A n \in DOMAIN names :
             names[n] \in Values(objects) => n \in DOMAIN names'
    BY <1>5 DEF DumpExits, Only
  <2>2. TypeOK'
    BY <1>5, <2>1 DEF DumpExits, Inv, TypeOK, logVars, driverVars
  <2>3. HeldInv' /\ TableInv' /\ NameInv' /\ FileInv' /\ LoggedInv' /\ LogsInv'
    BY <1>5, <2>1, DriverUnmoved DEF DumpExits
  <2>4. DumpInv'
    BY <1>5 DEF DumpExits, DumpInv, SameBuffer
  <2> QED BY <2>2, <2>3, <2>4 DEF Inv
<1> QED BY <1>1, <1>2, <1>3, <1>4, <1>5 DEF Dumper

-----------------------------------------------------------------------------
LEMMA StepKeeps ==
  ASSUME Inv, [Next]_vars
  PROVE  Inv'
<1>1. CASE CreateRegCmd
  BY <1>1, CreateRegCmdKeeps
<1>2. CASE Allocate
  BY <1>2, AllocateKeeps
<1>3. CASE AllocateFails
  <2>1. CASE Len(held) + 1 = Buffers /\ ~retried
    <3>1. /\ retried' = TRUE
          /\ UNCHANGED <<pc, held, flinked, table, file, logVars, names, dumpVars>>
          /\ \/ UNCHANGED objects
             \/ /\ Handle \ DOMAIN objects # {}
                /\ \E dma \in FreeDma :
                     objects' = With(objects, NewHandle(DOMAIN objects), dma)
      BY <1>3, <2>1 DEF AllocateFails
    <3> QED BY <1>3, <3>1, RetryKeeps
  <2>2. CASE ~(Len(held) + 1 = Buffers /\ ~retried)
    BY <1>3, <2>2, CloseDeviceKeeps DEF AllocateFails
  <2> QED BY <2>1, <2>2
<1>4. CASE FlinkIoctl
  BY <1>4, FlinkIoctlKeeps
<1>5. CASE FlinkLog
  BY <1>5, FlinkLogKeeps
<1>6. CASE FlinkDone
  BY <1>6, FlinkDoneKeeps
<1>7. CASE Release
  BY <1>7, CloseDeviceKeeps DEF Release
<1>8. CASE Dumper
  BY <1>8, DumperKeeps
<1>9. CASE UNCHANGED vars
  <2>1. TypeOK' /\ HeldInv' /\ TableInv'
    BY <1>9 DEF vars, logVars, driverVars, dumpVars, Inv, TypeOK, HeldInv, TableInv
  <2>2. NameInv' /\ FileInv' /\ LoggedInv' /\ LogsInv'
    BY <1>9 DEF vars, driverVars, Inv, NameInv, FileInv, LoggedInv, LogsInv, logVars
  <2>3. DumpInv'
    BY <1>9 DEF vars, dumpVars, Inv, DumpInv, SameBuffer
  <2> QED BY <2>1, <2>2, <2>3 DEF Inv
<1> QED BY <1>1, <1>2, <1>3, <1>4, <1>5, <1>6, <1>7, <1>8, <1>9
    DEF Next, Driver

LEMMA InvCorrect == Spec => []Inv
<1>1. Init => Inv
  BY InitHolds
<1>2. Inv /\ [Next]_vars => Inv'
  BY StepKeeps
<1> QED BY <1>1, <1>2, PTL DEF Spec

(* Driver, kernel names, log and dump.py keep their types.                 *)
THEOREM LogTyped == Spec => []TypeOK
<1>1. Inv => TypeOK
  BY DEF Inv
<1> QED BY <1>1, InvCorrect, PTL

(***************************************************************************)
(* dump.py labels the commands of a buffer with that buffer's address if   *)
(* the file has a line for its name, whichever op wrote the file last, and *)
(* if it has none but the logs have the buffer's own line, with nothing of *)
(* another program before it, however its steps fall between those of ops. *)
(***************************************************************************)
THEOREM LabelIsOwn == Spec => BaseIsOwn
<1> DEFINE Own == DumpLookup /\ (FileLines(want) # {} \/ want \in told \ DOMAIN foreign)
                    => base' = decoded
<1>1. ASSUME Inv, DumpLookup, FileLines(want) # {}
      PROVE  base' = decoded
  <2> DEFINE found == FileLines(want)
             last == CHOOSE k \in found : \A j \in found : j <= k
  <2>1. base' = file[last].dma
    BY <1>1 DEF DumpLookup
  <2>2. last \in DOMAIN file /\ file[last].flink = want
    BY <1>1, LookupInFile
  <2>3. want \in DOMAIN names /\ names[want] = decoded
    BY <1>1 DEF DumpLookup, Inv, DumpInv
  <2> HIDE DEF last
  <2> QED BY <1>1, <2>1, <2>2, <2>3 DEF Inv, FileInv
<1>2. ASSUME Inv, DumpLookup, FileLines(want) = {}, want \in told \ DOMAIN foreign
      PROVE  base' = decoded
  <2>1. want \in DOMAIN captured /\ captured[want] = decoded
    BY <1>2 DEF DumpLookup, Inv, DumpInv, LogsInv
  <2> QED BY <1>2, <2>1 DEF DumpLookup
<1>3. Inv /\ [Next]_vars => [Own]_vars
  BY <1>1, <1>2
<1> QED
  <2> HIDE DEF Own
  <2>1. Spec => [][Own]_vars
    BY <1>3, InvCorrect, PTL DEF Spec
  <2> QED BY <2>1 DEF BaseIsOwn, Own

(* Its two looks by one name find the same buffer.                         *)
THEOREM TwoLooksOneBuffer == Spec => []SameBuffer
<1>1. Inv => SameBuffer
  BY DEF Inv, DumpInv
<1> QED BY <1>1, InvCorrect, PTL

(***************************************************************************)
(* With a slot in the table for each buffer of an op, every buffer that    *)
(* has been named is in the file under its name and address.               *)
(***************************************************************************)
THEOREM AllNamedLogged ==
  ASSUME Buffers <= Capacity
  PROVE  Spec => []NamedAreLogged
<1>1. Inv => NamedAreLogged
  <2> SUFFICES ASSUME Inv, NEW k \in 1..flinked
               PROVE  \E line \in DOMAIN file :
                        /\ file[line].dma = objects[held[k]]
                        /\ file[line].flink \in DOMAIN names
                        /\ names[file[line].flink] = file[line].dma
    BY DEF NamedAreLogged
  <2>1. PICK line \in DOMAIN file : file[line].dma = objects[held[k]]
    BY DEF Inv, LoggedInv
  <2>2. pc # "idle"
    BY DEF Inv, HeldInv
  <2> QED BY <2>1, <2>2 DEF Inv, FileInv
<1> QED BY <1>1, InvCorrect, PTL

-----------------------------------------------------------------------------
(* What is made of a chunk that is a task, and of a task that is entered.  *)
GoodTask ==
  {task \in [offset : Nat, amount : 1 .. MaxAmount, addr : Nat] : task.addr % 2 = 0}
GoodEntry ==
  {e \in [flink : Gem!Names, offset : Nat, amount : 1 .. MaxAmount, addr : Nat,
          used : BOOLEAN] : e.addr % 2 = 0}

OneAPlace(es) ==
  \A m, n \in DOMAIN es :
    es[m].flink = es[n].flink /\ es[m].offset = es[n].offset => m = n

Known == {es \in Seq(GoodEntry) : Tool = "ops_reg" => OneAPlace(es)}

LEMMA EntryIsGood ==
  ASSUME NEW g \in Gem!Names, NEW task \in GoodTask
  PROVE  /\ Gem!Entry(g, task) \in GoodEntry
         /\ Gem!Entry(g, task).flink = g /\ Gem!Entry(g, task).offset = task.offset
BY DEF Gem!Entry, GoodEntry, GoodTask

(* _add_task_entry keeps one entry for a place, in ops_reg.                *)
LEMMA AddKeepsKnown ==
  ASSUME NEW es \in Known, NEW g \in Gem!Names, NEW task \in GoodTask
  PROVE  Gem!_add_task_entry(es, g, task) \in Known
<1> DEFINE at == {n \in DOMAIN es : es[n].flink = g /\ es[n].offset = task.offset}
           new == Gem!Entry(g, task)
           put == [n \in DOMAIN es |->
                     IF n \in at THEN [new EXCEPT !.used = es[n].used] ELSE es[n]]
<1>1. /\ es \in Seq(GoodEntry) /\ Len(es) \in Nat /\ DOMAIN es = 1 .. Len(es)
      /\ \A n \in DOMAIN es : es[n] \in GoodEntry
  BY DEF Known
<1>2. new \in GoodEntry /\ new.flink = g /\ new.offset = task.offset
  BY EntryIsGood
<1>3. CASE Tool = "ops_reg" /\ at # {}
  <2>1. Gem!_add_task_entry(es, g, task) = put
    BY <1>3 DEF Gem!_add_task_entry
  <2>2. ASSUME NEW n \in DOMAIN es
        PROVE  /\ put[n] \in GoodEntry
               /\ put[n].flink = es[n].flink /\ put[n].offset = es[n].offset
    <3>1. CASE n \in at
      <4>1. put[n] = [new EXCEPT !.used = es[n].used]
        BY <3>1
      <4>2. es[n].used \in BOOLEAN
        BY <1>1 DEF GoodEntry
      <4> HIDE DEF new, put
      <4> QED BY <1>2, <3>1, <4>1, <4>2 DEF GoodEntry
    <3>2. CASE n \notin at
      BY <1>1, <3>2
    <3> QED BY <3>1, <3>2
  <2>3. put \in Seq(GoodEntry) /\ DOMAIN put = DOMAIN es
    <3> HIDE DEF at, new
    <3> QED BY <1>1, <2>2
  <2> HIDE DEF put
  <2>4. OneAPlace(put)
    BY <1>3, <2>2, <2>3 DEF Known, OneAPlace
  <2> QED BY <2>1, <2>3, <2>4 DEF Known
<1>4. CASE ~(Tool = "ops_reg" /\ at # {})
  <2>1. Gem!_add_task_entry(es, g, task) = Append(es, new)
    BY <1>4 DEF Gem!_add_task_entry
  <2>2. /\ Append(es, new) \in Seq(GoodEntry) /\ DOMAIN Append(es, new) = 1 .. Len(es) + 1
        /\ \A n \in DOMAIN es : Append(es, new)[n] = es[n]
        /\ Append(es, new)[Len(es) + 1] = new
    <3> HIDE DEF new
    <3> QED BY <1>1, <1>2
  <2>3. ASSUME Tool = "ops_reg"
        PROVE  OneAPlace(Append(es, new))
    <3>1. \A n \in DOMAIN es : ~(es[n].flink = g /\ es[n].offset = task.offset)
      BY <1>4, <2>3
    <3> DEFINE longer == Append(es, new)
    <3> HIDE DEF at, new, longer
    <3> SUFFICES ASSUME NEW m \in DOMAIN longer, NEW n \in DOMAIN longer,
                        longer[m].flink = longer[n].flink,
                        longer[m].offset = longer[n].offset
                 PROVE  m = n
      BY DEF OneAPlace, longer
    <3>2. CASE m \in DOMAIN es /\ n \in DOMAIN es
      BY <2>2, <2>3, <3>2 DEF Known, OneAPlace, longer
    <3>3. CASE m = Len(es) + 1 \/ n = Len(es) + 1
      BY <1>2, <2>2, <3>1, <3>3, <1>1 DEF longer
    <3> QED BY <1>1, <2>2, <3>2, <3>3 DEF longer
  <2> QED BY <2>1, <2>2, <2>3 DEF Known
<1> QED BY <1>3, <1>4

LEMMA EnteredKnown ==
  ASSUME NEW es \in Known, NEW g \in Gem!Names, NEW tasks \in Seq(GoodTask)
  PROVE  Gem!Entered(es, g, tasks) \in Known
<1> DEFINE N == Len(tasks)
           Round == [n \in 1 .. N |->
                       [was \in Known |-> Gem!_add_task_entry(was, g, tasks[n])]]
           Is(f) == f = [n \in 0 .. N |->
                           IF n = 0 THEN es
                           ELSE Gem!_add_task_entry(f[n - 1], g, tasks[n])]
<1>1. N \in Nat /\ \A n \in 1 .. N : tasks[n] \in GoodTask
  OBVIOUS
<1> HIDE DEF N
<1>2. \A n \in 1 .. N : \A was \in Known : Round[n][was] \in Known
  BY <1>1, AddKeepsKnown
<1>3. PICK f \in [0 .. N -> Known] :
        \A n \in 0 .. N : f[n] = IF n = 0 THEN es ELSE Round[n][f[n - 1]]
  <2> HIDE DEF Round
  <2>1. HasValues(Known, es, N, Round)
    BY <1>1, <1>2, LoopHasValues
  <2> QED BY <2>1 DEF HasValues
<1>4. Is(f)
  <2>1. ASSUME NEW n \in 0 .. N
        PROVE  f[n] = IF n = 0 THEN es ELSE Gem!_add_task_entry(f[n - 1], g, tasks[n])
    <3>1. n # 0 => n \in 1 .. N /\ n - 1 \in 0 .. N
      BY <1>1
    <3> QED BY <1>3, <3>1
  <2> QED BY <2>1
<1> DEFINE known == CHOOSE h : Is(h)
<1>5. Is(known)
  <2> HIDE DEF Is
  <2> QED BY <1>4
<1>6. Gem!Entered(es, g, tasks) = known[N]
  BY DEF Gem!Entered, N
<1> HIDE DEF known
<1>7. known[0] \in Known
  BY <1>1, <1>5
<1>8. ASSUME NEW n \in 1 .. N, known[n - 1] \in Known
      PROVE  known[n] \in Known
  <2>1. known[n] = Gem!_add_task_entry(known[n - 1], g, tasks[n])
    BY <1>1, <1>5
  <2> QED BY <1>1, <1>8, <2>1, AddKeepsKnown
<1> QED BY <1>1, <1>6, <1>7, <1>8, LoopKeeps

(* The reports of every buffer, read in the order of their files.          *)
LEMMA LoadedKnown ==
  ASSUME Gem!DumpAssumption, entries \in Known, reports \in [Gem!Names -> Seq(GoodTask)]
  PROVE  Gem!ensure_task_regcmds_loaded \in Known
<1> DEFINE N == Len(Listing)
           Read(was, n) == Gem!Entered(was, Listing[n], reports[Listing[n]])
           Round == [n \in 1 .. N |-> [was \in Known |-> Read(was, n)]]
           Is(f) == f = [n \in 0 .. N |-> IF n = 0 THEN entries ELSE Read(f[n - 1], n)]
           known == CHOOSE f : Is(f)
<1>1. N \in Nat /\ \A n \in 1 .. N : Listing[n] \in Gem!Names
  BY DEF Gem!DumpAssumption
<1>2. \A n \in 1 .. N : \A was \in Known : Read(was, n) \in Known
  BY <1>1, EnteredKnown
<1>3. \/ Gem!ensure_task_regcmds_loaded = entries
      \/ Gem!ensure_task_regcmds_loaded = known[N]
  BY DEF Gem!ensure_task_regcmds_loaded
<1> HIDE DEF N, Read
<1>4. \A n \in 1 .. N : \A was \in Known : Round[n][was] \in Known
  BY <1>2
<1>5. \E f : Is(f)
  <2> HIDE DEF Round
  <2>1. HasValues(Known, entries, N, Round)
    BY <1>1, <1>4, LoopHasValues
  <2>2. PICK f \in [0 .. N -> Known] :
          \A n \in 0 .. N : f[n] = IF n = 0 THEN entries ELSE Round[n][f[n - 1]]
    BY <2>1 DEF HasValues
  <2>3. ASSUME NEW n \in 0 .. N
        PROVE  f[n] = IF n = 0 THEN entries ELSE Read(f[n - 1], n)
    <3>1. n # 0 => n \in 1 .. N /\ n - 1 \in 0 .. N
      BY <1>1
    <3> QED BY <2>2, <3>1 DEF Round
  <2> QED BY <2>3
<1>6. Is(known)
  <2> HIDE DEF Is
  <2> QED BY <1>5
<1> HIDE DEF known
<1>7. known[0] \in Known
  BY <1>1, <1>6
<1>8. ASSUME NEW n \in 1 .. N, known[n - 1] \in Known
      PROVE  known[n] \in Known
  <2>1. known[n] = Read(known[n - 1], n)
    BY <1>1, <1>6
  <2> QED BY <1>2, <1>8, <2>1
<1> QED BY <1>1, <1>3, <1>7, <1>8, LoopKeeps

-----------------------------------------------------------------------------
(* What the buffer being shown is, and how much of it the dump takes.      *)
WordsOK ==
  /\ gems \in Seq(Nat \ {0}) /\ Gem!gem \in DOMAIN mem
  /\ mem[Gem!gem] \in [dma : Nat, map : Nat, words : Seq(Nat), logged : BOOLEAN]
  /\ Len(Gem!words) % 2 = 0 /\ limit \in Nat

LEMMA DumpSize ==
  ASSUME WordsOK
  PROVE  /\ Gem!words \in Seq(Nat) /\ Len(Gem!words) \in Nat
         /\ Gem!dump_size \in 0 .. Len(Gem!words)
         /\ Gem!Blocks \in Nat /\ 2 * Gem!Blocks >= Gem!dump_size
         /\ 2 * Gem!Blocks <= Len(Gem!words)
<1>1. Gem!words \in Seq(Nat) /\ Len(Gem!words) \in Nat /\ limit \in Nat
  BY DEF WordsOK, Gem!words
<1>2. Gem!dump_size \in 0 .. Len(Gem!words)
  BY <1>1 DEF Gem!dump_size
<1>3. Gem!Blocks \in Nat /\ 2 * Gem!Blocks >= Gem!dump_size
      /\ 2 * Gem!Blocks <= Gem!dump_size + 1
  BY <1>1, <1>2 DEF Gem!Blocks
<1>4. \A length, n \in Nat : length % 2 = 0 /\ 2 * n <= length + 1 => 2 * n <= length
  OBVIOUS
<1>5. 2 * Gem!Blocks <= Len(Gem!words) + 1
  BY <1>1, <1>2, <1>3
<1> QED BY <1>1, <1>2, <1>3, <1>4, <1>5 DEF WordsOK

(* A chunk that is decoded lies in the buffer.                             *)
LEMMA ChunksInside ==
  ASSUME WordsOK
  PROVE  /\ Gem!Chunks \in Nat
         /\ \A c \in 1 .. Gem!Chunks :
              /\ (c - 1) * Gem!TaskWords \in Nat
              /\ (c - 1) * Gem!TaskWords + Gem!TaskWords <= Len(Gem!words)
<1>1. Gem!dump_size \in Nat /\ Len(Gem!words) \in Nat
  BY DumpSize
<1> QED BY <1>1 DEF Gem!Chunks, Gem!TaskWords

TaskIn(offset) ==
  /\ offset + Gem!TaskWords <= Len(Gem!words) /\ Gem!IsTask(offset)

Decoded == {task \in GoodTask : TaskIn(task.offset)}

(* What a table is decoded to are tasks of it.                             *)
LEMMA DecodedTasks ==
  ASSUME WordsOK
  PROVE  Gem!decode_tasks_from_buffer \in Seq(Decoded)
<1> DEFINE N == Gem!Chunks
           Place(c) == (c - 1) * Gem!TaskWords
           Made(was, c) == IF Gem!IsTask(Place(c)) THEN Append(was, Gem!TaskAt(Place(c)))
                                                   ELSE was
           Round == [c \in 1 .. N |-> [was \in Seq(Decoded) |-> Made(was, c)]]
           Is(f) == f = [c \in 0 .. N |-> IF c = 0 THEN <<>> ELSE Made(f[c - 1], c)]
           tasks == CHOOSE f : Is(f)
<1>1. /\ N \in Nat
      /\ \A c \in 1 .. N : Place(c) \in Nat /\ Place(c) + Gem!TaskWords <= Len(Gem!words)
  BY ChunksInside
<1>2. ASSUME NEW c \in 1 .. N, Gem!IsTask(Place(c))
      PROVE  Gem!TaskAt(Place(c)) \in Decoded
  <2>1. Place(c) + 5 \in 1 .. Len(Gem!words) /\ (Place(c) + 4) + 1 = Place(c) + 5
    BY <1>1, DumpSize DEF Gem!TaskWords
  <2>2. Gem!regcmd_addr(Place(c)) \in Nat
    BY <2>1, DumpSize DEF Gem!regcmd_addr, Gem!Word
  <2>3. /\ Gem!regcfg_amount(Place(c)) \in 1 .. MaxAmount
        /\ Gem!regcmd_addr(Place(c)) % 2 = 0
    BY <1>2 DEF Gem!IsTask
  <2>4. Gem!TaskAt(Place(c)) = [offset |-> Place(c), amount |-> Gem!regcfg_amount(Place(c)),
                                addr |-> Gem!regcmd_addr(Place(c))]
    BY DEF Gem!TaskAt
  <2>5. Place(c) \in Nat /\ TaskIn(Place(c))
    BY <1>1, <1>2 DEF TaskIn
  <2> HIDE DEF Place
  <2> QED BY <2>2, <2>3, <2>4, <2>5 DEF Decoded, GoodTask
<1>3. \A c \in 1 .. N : \A was \in Seq(Decoded) : Made(was, c) \in Seq(Decoded)
  <2> HIDE DEF Place, N
  <2> QED BY <1>2
<1>4. Gem!decode_tasks_from_buffer = tasks[N]
  BY DEF Gem!decode_tasks_from_buffer
<1> HIDE DEF N, Made
<1>5. \A c \in 1 .. N : \A was \in Seq(Decoded) : Round[c][was] \in Seq(Decoded)
  BY <1>3
<1>6. \E f : Is(f)
  <2> HIDE DEF Round
  <2>1. HasValues(Seq(Decoded), <<>>, N, Round)
    <3>1. <<>> \in Seq(Decoded)
      OBVIOUS
    <3> QED BY <1>1, <1>5, <3>1, LoopHasValues
  <2>2. PICK f \in [0 .. N -> Seq(Decoded)] :
          \A c \in 0 .. N : f[c] = IF c = 0 THEN <<>> ELSE Round[c][f[c - 1]]
    BY <2>1 DEF HasValues
  <2>3. ASSUME NEW c \in 0 .. N
        PROVE  f[c] = IF c = 0 THEN <<>> ELSE Made(f[c - 1], c)
    <3>1. c # 0 => c \in 1 .. N /\ c - 1 \in 0 .. N
      BY <1>1
    <3> QED BY <2>2, <3>1 DEF Round
  <2> QED BY <2>3
<1>7. Is(tasks)
  <2> HIDE DEF Is
  <2> QED BY <1>6
<1> HIDE DEF tasks
<1>8. tasks[0] \in Seq(Decoded)
  BY <1>1, <1>7
<1>9. ASSUME NEW c \in 1 .. N, tasks[c - 1] \in Seq(Decoded)
      PROVE  tasks[c] \in Seq(Decoded)
  <2>1. tasks[c] = Made(tasks[c - 1], c)
    BY <1>1, <1>7
  <2> QED BY <1>3, <1>9, <2>1
<1> QED BY <1>1, <1>4, <1>8, <1>9, LoopKeeps

-----------------------------------------------------------------------------
(* The raw dump: lines that follow each other, and where they end.         *)
LineSet == [at : Nat, blocks : Nat \ {0}]

AllZero(line) ==
  \A w \in 2 * line.at .. (2 * (line.at + line.blocks)) - 1 : Gem!Word(w) = 0

Chain(ls) ==
  \A n \in DOMAIN ls :
    /\ ls[n].at = IF n = 1 THEN 0 ELSE ls[n - 1].at + ls[n - 1].blocks
    /\ ls[n].blocks > 1 => AllZero(ls[n])

End(ls) == IF ls = <<>> THEN 0 ELSE ls[Len(ls)].at + ls[Len(ls)].blocks

(* Lines that begin where others end, and go on as they do.                *)
LEMMA ChainGrows ==
  ASSUME NEW ls \in Seq(LineSet), Chain(ls), NEW more \in Seq(LineSet), more # <<>>,
         \A n \in DOMAIN more :
           /\ more[n].at = IF n = 1 THEN End(ls) ELSE more[n - 1].at + more[n - 1].blocks
           /\ more[n].blocks > 1 => AllZero(more[n])
  PROVE  /\ ls \o more \in Seq(LineSet) /\ Chain(ls \o more)
         /\ End(ls \o more) = End(more)
<1> DEFINE all == ls \o more
<1>1. /\ all \in Seq(LineSet) /\ Len(all) = Len(ls) + Len(more)
      /\ Len(ls) \in Nat /\ Len(more) \in Nat \ {0}
      /\ \A n \in 1 .. Len(ls) : all[n] = ls[n]
      /\ \A n \in 1 .. Len(more) : all[Len(ls) + n] = more[n]
  OBVIOUS
<1> HIDE DEF all
<1>2. ASSUME NEW n \in 1 .. Len(all)
      PROVE  /\ all[n].at = IF n = 1 THEN 0 ELSE all[n - 1].at + all[n - 1].blocks
             /\ all[n].blocks > 1 => AllZero(all[n])
  <2>1. CASE n <= Len(ls)
    <3>1. n \in DOMAIN ls /\ all[n] = ls[n] /\ (n # 1 => all[n - 1] = ls[n - 1])
      <4>1. n \in 1 .. Len(ls) /\ DOMAIN ls = 1 .. Len(ls)
        BY <1>1, <2>1
      <4>2. n # 1 => n - 1 \in 1 .. Len(ls)
        BY <1>1, <4>1
      <4> QED BY <1>1, <4>1, <4>2
    <3> QED BY <3>1 DEF Chain
  <2>2. CASE n > Len(ls)
    <3> DEFINE m == n - Len(ls)
    <3>1. m \in 1 .. Len(more) /\ n = Len(ls) + m /\ m \in DOMAIN more
      BY <1>1, <2>2
    <3>2. all[n] = more[m]
      BY <1>1, <3>1
    <3>3. CASE m # 1
      <4>1. m - 1 \in 1 .. Len(more) /\ n - 1 = Len(ls) + (m - 1) /\ n # 1
        <5>1. m \in Nat /\ m > 1 /\ m <= Len(more)
          BY <1>1, <3>1, <3>3
        <5> HIDE DEF m
        <5> QED BY <1>1, <3>1, <5>1
      <4>2. all[n - 1] = more[m - 1]
        BY <1>1, <4>1
      <4> QED BY <3>1, <3>2, <3>3, <4>1, <4>2
    <3>4. CASE m = 1
      <4>1. CASE ls = <<>>
        <5>1. n = 1
          BY <3>1, <3>4, <4>1
        <5> QED BY <3>1, <3>2, <3>4, <4>1, <5>1 DEF End
      <4>2. CASE ls # <<>>
        <5>1. n - 1 = Len(ls) /\ n # 1 /\ Len(ls) \in 1 .. Len(ls)
          BY <1>1, <3>1, <3>4, <4>2
        <5>2. all[n - 1] = ls[Len(ls)]
          BY <1>1, <5>1
        <5> QED BY <3>1, <3>2, <3>4, <4>2, <5>1, <5>2 DEF End
      <4> QED BY <4>1, <4>2
    <3> QED BY <3>3, <3>4
  <2> QED BY <1>1, <2>1, <2>2
<1>3. Chain(all)
  BY <1>1, <1>2 DEF Chain
<1>4. End(all) = End(more)
  <2>1. Len(more) \in 1 .. Len(more) /\ all # <<>>
    BY <1>1
  <2>2. all[Len(all)] = more[Len(more)]
    BY <1>1, <2>1
  <2> QED BY <2>1, <2>2 DEF End
<1> QED BY <1>1, <1>3, <1>4 DEF all

(* There is a first block that is not zero, or the end of the dump.        *)
LEMMA ZeroRun ==
  ASSUME WordsOK, NEW b \in 0 .. Gem!Blocks
  PROVE  /\ Gem!zero_blocks(b) \in 0 .. Gem!Blocks - b
         /\ \A m \in 0 .. Gem!zero_blocks(b) - 1 : Gem!ZeroBlock(b + m)
<1>1. Gem!Blocks \in Nat
  BY DumpSize
<1> DEFINE Runs(n) == /\ \A m \in 0 .. n - 1 : Gem!ZeroBlock(b + m)
                      /\ b + n = Gem!Blocks \/ ~Gem!ZeroBlock(b + n)
           Stops == {n \in 0 .. Gem!Blocks - b : b + n = Gem!Blocks \/ ~Gem!ZeroBlock(b + n)}
<1>2. CASE Tool = "hello"
  BY <1>1, <1>2 DEF Gem!zero_blocks
<1>3. CASE Tool # "hello"
  <2>1. Stops \in SUBSET Nat /\ Gem!Blocks - b \in Stops
    BY <1>1
  <2> HIDE DEF Stops
  <2>2. PICK n \in Stops : \A m \in Stops : n <= m
    BY <2>1, LeastNumber
  <2>3. n \in 0 .. Gem!Blocks - b /\ (b + n = Gem!Blocks \/ ~Gem!ZeroBlock(b + n))
    BY DEF Stops
  <2>4. \A m \in 0 .. n - 1 : m \in 0 .. Gem!Blocks - b /\ m \notin Stops
    BY <1>1, <2>2, <2>3
  <2>5. Runs(n)
    BY <2>3, <2>4 DEF Stops
  <2>6. Gem!zero_blocks(b) = CHOOSE r \in 0 .. Gem!Blocks - b : Runs(r)
    BY <1>3 DEF Gem!zero_blocks
  <2> HIDE DEF Runs
  <2>7. Gem!zero_blocks(b) \in 0 .. Gem!Blocks - b /\ Runs(Gem!zero_blocks(b))
    BY <2>3, <2>5, <2>6
  <2> QED BY <2>7 DEF Runs
<1> QED BY <1>2, <1>3

LEMMA BlockIsZero ==
  ASSUME WordsOK, NEW b \in Nat, NEW n \in Nat, \A m \in 0 .. n - 1 : Gem!ZeroBlock(b + m)
  PROVE  AllZero([at |-> b, blocks |-> n])
<1> SUFFICES ASSUME NEW w \in 2 * b .. (2 * (b + n)) - 1
             PROVE  Gem!Word(w) = 0
  BY DEF AllZero
<1> DEFINE m == (w \div 2) - b
<1>1. w \in Nat /\ w \div 2 \in Nat /\ (w = 2 * (w \div 2) \/ w = (2 * (w \div 2)) + 1)
  OBVIOUS
<1>2. m \in 0 .. n - 1 /\ b + m = w \div 2
  BY <1>1
<1>3. Gem!ZeroBlock(w \div 2)
  BY <1>2
<1> QED BY <1>1, <1>3 DEF Gem!ZeroBlock

-----------------------------------------------------------------------------
Showing == phase \in {"raw", "tasks", "decode"}

(* Only task 0 is left of a patched table.                                 *)
PatchInv ==
  patched => /\ 1 \in DOMAIN mem
             /\ \A n \in 6 .. Len(mem[1].words) : mem[1].words[n] = 0

MemInv ==
  /\ DOMAIN mem \subseteq Gem!Names
  /\ \A g \in DOMAIN mem :
       /\ mem[g] \in [dma : Nat, map : Nat, words : Seq(Nat), logged : BOOLEAN]
       /\ Len(mem[g].words) % 2 = 0

(* The buffer being shown, the lines it has and the file it is in.         *)
ShowInv ==
  Showing => /\ gems # <<>> /\ Gem!gem \in DOMAIN mem
             /\ Chain(lines) /\ i = End(lines) /\ i <= Gem!Blocks
             /\ phase # "raw" => i = Gem!Blocks
             /\ labels = <<>>
             /\ Tool # "hello" => files[Gem!gem] = SubSeq(Gem!words, 1, Gem!dump_size)

GemInv ==
  /\ MemInv /\ PatchInv /\ ShowInv
  /\ patched \in BOOLEAN /\ gems \in Seq(Nat \ {0}) /\ limit \in Limits
  /\ phase \in {"next", "raw", "tasks", "decode"}
  /\ i \in Nat /\ lines \in Seq(LineSet)
  /\ entries \in Known /\ reports \in [Gem!Names -> Seq(GoodTask)]
  /\ DOMAIN files = Gem!Names

LEMMA ShowingWords ==
  ASSUME Gem!DumpAssumption, GemInv, phase # "next"
  PROVE  WordsOK /\ Showing /\ Gem!gem \in Gem!Names
<1>1. limit \in Nat
  BY DEF GemInv, Gem!DumpAssumption
<1> QED BY <1>1 DEF GemInv, MemInv, ShowInv, Showing, WordsOK, Gem!words

LEMMA NothingKnown == <<>> \in Known /\ <<>> \in Seq(LineSet) /\ <<>> \in Seq(GoodTask)
BY DEF Known, OneAPlace

LEMMA GemInit ==
  ASSUME Gem!DumpAssumption, Gem!Init
  PROVE  GemInv
<1>1. MemInv
  BY DEF MemInv, Gem!Init, Gem!DumpAssumption, Gem!Names
<1>2. reports \in [Gem!Names -> Seq(GoodTask)] /\ DOMAIN files = Gem!Names
  BY NothingKnown DEF Gem!Init
<1>3. gems \in Seq(Nat \ {0}) /\ i \in Nat
  BY DEF Gem!Init
<1>4. PatchInv /\ ShowInv
  BY DEF Gem!Init, PatchInv, ShowInv, Showing
<1> QED BY <1>1, <1>2, <1>3, <1>4, NothingKnown DEF GemInv, Gem!Init

LEMMA GemOpenKeeps ==
  ASSUME Gem!DumpAssumption, GemInv, Gem!Open
  PROVE  GemInv'
<1>1. /\ phase = "next" /\ gems # <<>> /\ labels' = <<>>
      /\ UNCHANGED <<mem, patched, limit, entries, reports>>
  BY DEF Gem!Open
<1>2. MemInv' /\ PatchInv'
  BY <1>1 DEF GemInv, MemInv, PatchInv
<1>3. CASE Gem!gem \in DOMAIN mem
  <2>1. /\ phase' = "raw" /\ i' = 0 /\ lines' = <<>> /\ gems' = gems
        /\ files' = [files EXCEPT ![Gem!gem] =
                       Gem!Written(@, SubSeq(Gem!words, 1, Gem!dump_size))]
    BY <1>3 DEF Gem!Open
  <2>2. DOMAIN files' = Gem!Names /\ Gem!gem \in Gem!Names
    BY <1>3, <2>1 DEF GemInv, MemInv
  <2>3. /\ Gem!gem' = Gem!gem /\ Gem!words' = Gem!words
        /\ Gem!dump_size' = Gem!dump_size /\ Gem!Blocks' = Gem!Blocks
    BY <1>1, <2>1 DEF Gem!gem, Gem!words, Gem!dump_size, Gem!Blocks
  <2>4. Tool # "hello" => files'[Gem!gem] = SubSeq(Gem!words, 1, Gem!dump_size)
    BY <2>1, <2>2 DEF Gem!Written, GemInv
  <2>5. WordsOK
    BY <1>3 DEF WordsOK, GemInv, MemInv, Gem!words, Gem!DumpAssumption
  <2>6. Chain(<<>>) /\ End(<<>>) = 0 /\ Gem!Blocks \in Nat
    BY <2>5, DumpSize DEF Chain, End
  <2>7. Chain(lines)'
    BY <2>1 DEF Chain
  <2>8. ShowInv'
    BY <1>1, <1>3, <2>1, <2>3, <2>4, <2>6, <2>7 DEF ShowInv, End
  <2> QED BY <1>1, <1>2, <2>1, <2>2, <2>8, NothingKnown DEF GemInv
<1>4. CASE Gem!gem \notin DOMAIN mem
  <2>1. gems' = Tail(gems) /\ UNCHANGED <<phase, i, lines, files>>
    BY <1>4 DEF Gem!Open
  <2>2. gems' \in Seq(Nat \ {0})
    BY <1>1, <2>1 DEF GemInv
  <2> QED BY <1>1, <1>2, <2>1, <2>2 DEF GemInv, ShowInv, Showing
<1> QED BY <1>3, <1>4

(* While a buffer is shown neither it nor what of it is shown changes.     *)
LEMMA SameShown ==
  ASSUME gems' = gems, mem' = mem, limit' = limit
  PROVE  /\ Gem!gem' = Gem!gem /\ Gem!words' = Gem!words
         /\ Gem!dump_size' = Gem!dump_size /\ Gem!Blocks' = Gem!Blocks
         /\ \A w : Gem!Word(w)' = Gem!Word(w)
BY DEF Gem!gem, Gem!words, Gem!dump_size, Gem!Blocks, Gem!Word

LEMMA ShowBlocksKeeps ==
  ASSUME Gem!DumpAssumption, GemInv, Gem!ShowBlocks
  PROVE  GemInv'
<1> DEFINE zeros == Gem!zero_blocks(i)
           n == IF zeros = 0 THEN 1 ELSE zeros
           more == IF n > Fold THEN <<Gem!Line(i, n)>>
                               ELSE [k \in 1 .. n |-> Gem!Line(i + k - 1, 1)]
<1>1. /\ phase = "raw" /\ i < Gem!Blocks
      /\ lines' = lines \o more /\ i' = i + n
      /\ UNCHANGED <<mem, patched, gems, limit, phase, entries, labels, files, reports>>
  BY DEF Gem!ShowBlocks
<1>2. WordsOK /\ Showing
  BY <1>1, ShowingWords
<1>3. i \in Nat /\ Gem!Blocks \in Nat /\ i \in 0 .. Gem!Blocks
  BY <1>1, <1>2, DumpSize DEF GemInv
<1>4. /\ zeros \in 0 .. Gem!Blocks - i
      /\ \A m \in 0 .. zeros - 1 : Gem!ZeroBlock(i + m)
  BY <1>2, <1>3, ZeroRun
<1> HIDE DEF zeros
<1>5. n \in Nat \ {0} /\ i + n <= Gem!Blocks /\ (n > 1 => n = zeros)
  BY <1>1, <1>3, <1>4
<1>6. Fold \in Nat
  BY DEF Gem!DumpAssumption
<1> HIDE DEF n
<1>7. /\ more \in Seq(LineSet) /\ more # <<>> /\ End(more) = i + n
      /\ \A m \in DOMAIN more :
           /\ more[m].at = IF m = 1 THEN i ELSE more[m - 1].at + more[m - 1].blocks
           /\ more[m].blocks > 1 => AllZero(more[m])
  <2>1. CASE n > Fold
    <3> DEFINE line == [at |-> i, blocks |-> n]
    <3>1. more = <<line>> /\ line \in LineSet /\ line.at = i /\ line.blocks = n
      BY <1>3, <1>5, <2>1 DEF Gem!Line, LineSet
    <3>2. n > 1 => AllZero(line)
      BY <1>2, <1>3, <1>4, <1>5, BlockIsZero
    <3> HIDE DEF more, line
    <3>3. more \in Seq(LineSet) /\ Len(more) = 1 /\ more[1] = line /\ DOMAIN more = {1}
      BY <3>1
    <3>4. End(more) = i + n
      BY <3>1, <3>3 DEF End
    <3> QED BY <3>1, <3>2, <3>3, <3>4
  <2>2. CASE ~(n > Fold)
    <3>1. more = [k \in 1 .. n |-> Gem!Line(i + k - 1, 1)]
      BY <2>2
    <3> HIDE DEF more
    <3>2. \A k \in 1 .. n : /\ more[k] \in LineSet
                              /\ more[k].at = i + k - 1 /\ more[k].blocks = 1
      <4> SUFFICES ASSUME NEW k \in 1 .. n
                   PROVE  /\ more[k] \in LineSet
                          /\ more[k].at = i + k - 1 /\ more[k].blocks = 1
        OBVIOUS
      <4>1. more[k] = [at |-> i + k - 1, blocks |-> 1]
        BY <3>1 DEF Gem!Line
      <4>2. i + k - 1 \in Nat
        BY <1>3, <1>5
      <4> QED BY <4>1, <4>2 DEF LineSet
    <3>3. more \in Seq(LineSet) /\ Len(more) = n /\ DOMAIN more = 1 .. n
      BY <1>5, <3>1, <3>2
    <3>4. n \in 1 .. n
      BY <1>5
    <3>5. End(more) = i + n
      BY <1>3, <1>5, <3>2, <3>3, <3>4 DEF End
    <3>6. ASSUME NEW m \in 1 .. n, m # 1
          PROVE  more[m].at = more[m - 1].at + more[m - 1].blocks
      <4>1. m - 1 \in 1 .. n
        BY <3>6, <1>5
      <4>2. more[m].at = i + m - 1 /\ more[m - 1].at = i + (m - 1) - 1
            /\ more[m - 1].blocks = 1
        BY <3>2, <4>1
      <4> HIDE DEF n
      <4> QED BY <1>3, <4>2
    <3>7. more[1].at = i
      <4>1. 1 \in 1 .. n
        BY <1>5
      <4>2. more[1].at = i + 1 - 1
        BY <3>2, <4>1
      <4> QED BY <1>3, <4>2
    <3> QED BY <1>5, <3>2, <3>3, <3>5, <3>6, <3>7
  <2> QED BY <2>1, <2>2
<1> HIDE DEF more
<1>8. lines \in Seq(LineSet) /\ Chain(lines) /\ i = End(lines)
  BY <1>2 DEF GemInv, ShowInv
<1>9. lines' \in Seq(LineSet) /\ Chain(lines') /\ End(lines') = i'
  BY <1>1, <1>7, <1>8, ChainGrows
<1>10. Chain(lines)'
  BY <1>1, <1>9, SameShown DEF Chain, AllZero
<1>11. End(lines)' = i'
  BY <1>9 DEF End
<1>12. MemInv' /\ PatchInv'
  BY <1>1 DEF GemInv, MemInv, PatchInv
<1>13. ShowInv'
  BY <1>1, <1>2, <1>5, <1>10, <1>11, SameShown DEF GemInv, ShowInv, Showing
<1> QED BY <1>1, <1>3, <1>5, <1>9, <1>12, <1>13 DEF GemInv

LEMMA RawDoneKeeps ==
  ASSUME Gem!DumpAssumption, GemInv, Gem!RawDone
  PROVE  GemInv'
<1>1. /\ phase = "raw" /\ i = Gem!Blocks /\ phase' \in {"tasks", "decode"}
      /\ UNCHANGED <<mem, patched, gems, limit, i, lines, entries, labels, files, reports>>
  BY DEF Gem!RawDone
<1>2. MemInv' /\ PatchInv'
  BY <1>1 DEF GemInv, MemInv, PatchInv
<1>3. Chain(lines)' /\ End(lines)' = End(lines)
  BY <1>1, SameShown DEF GemInv, ShowInv, Showing, Chain, AllZero, End
<1>4. ShowInv'
  BY <1>1, <1>3, SameShown DEF GemInv, ShowInv, Showing
<1> QED BY <1>1, <1>2, <1>4 DEF GemInv

LEMMA TasksKeeps ==
  ASSUME Gem!DumpAssumption, GemInv, Gem!Tasks
  PROVE  GemInv'
<1> DEFINE tasks == Gem!decode_tasks_from_buffer
<1>1. /\ phase = "tasks" /\ entries' = Gem!Entered(entries, Gem!gem, tasks)
      /\ reports' = IF tasks = <<>> THEN reports
                    ELSE [reports EXCEPT ![Gem!gem] = tasks]
      /\ \/ phase' = "next" /\ gems' = Tail(gems)
         \/ phase' = "decode" /\ gems' = gems
      /\ UNCHANGED <<mem, patched, limit, i, lines, labels, files>>
  BY DEF Gem!Tasks, Gem!NextGem
<1>2. WordsOK /\ Showing /\ Gem!gem \in Gem!Names /\ gems # <<>>
  BY <1>1, ShowingWords DEF GemInv, ShowInv
<1>3. tasks \in Seq(GoodTask)
  <2>1. tasks \in Seq(Decoded) /\ Decoded \subseteq GoodTask
    BY <1>2, DecodedTasks DEF Decoded
  <2> HIDE DEF tasks
  <2> QED BY <2>1
<1> HIDE DEF tasks
<1>4. entries' \in Known
  BY <1>1, <1>2, <1>3, EnteredKnown DEF GemInv
<1>5. reports' \in [Gem!Names -> Seq(GoodTask)]
  BY <1>1, <1>2, <1>3 DEF GemInv
<1>6. MemInv' /\ PatchInv'
  BY <1>1 DEF GemInv, MemInv, PatchInv
<1>7. gems' \in Seq(Nat \ {0})
  <2>1. gems \in Seq(Nat \ {0}) /\ gems # <<>> /\ (gems' = Tail(gems) \/ gems' = gems)
    BY <1>1, <1>2 DEF GemInv
  <2> QED BY <2>1, HeadTailProperties
<1>8. ShowInv'
  <2>1. CASE phase' = "next"
    BY <2>1 DEF ShowInv, Showing
  <2>2. CASE phase' = "decode" /\ gems' = gems
    <3>1. Chain(lines)' /\ End(lines)' = End(lines)
      BY <1>1, <1>2, <2>2, SameShown DEF GemInv, ShowInv, Chain, AllZero, End
    <3> QED BY <1>1, <1>2, <2>2, <3>1, SameShown DEF GemInv, ShowInv
  <2> QED BY <1>1, <2>1, <2>2
<1> QED BY <1>1, <1>4, <1>5, <1>6, <1>7, <1>8 DEF GemInv

(* An entry that is used stays the entry of its place.                     *)
LEMMA UsedKnown ==
  ASSUME NEW es \in Known, NEW best
  PROVE  [es EXCEPT ![best].used = TRUE] \in Known
<1> DEFINE new == [es EXCEPT ![best].used = TRUE]
<1>1. /\ es \in Seq(GoodEntry) /\ DOMAIN es = 1 .. Len(es) /\ Len(es) \in Nat
      /\ \A n \in DOMAIN es : es[n] \in GoodEntry
  BY DEF Known
<1>2. ASSUME NEW n \in DOMAIN es
      PROVE  /\ new[n] \in GoodEntry
             /\ new[n].flink = es[n].flink /\ new[n].offset = es[n].offset
  <2>1. CASE n = best
    <3>1. new[n] = [es[n] EXCEPT !.used = TRUE]
      BY <2>1
    <3>2. es[n] \in GoodEntry
      BY <1>1
    <3> HIDE DEF new
    <3> QED BY <3>1, <3>2 DEF GoodEntry
  <2>2. CASE n # best
    BY <1>1, <2>2
  <2> QED BY <2>1, <2>2
<1>3. new \in Seq(GoodEntry) /\ DOMAIN new = DOMAIN es
  <2>1. new = [n \in DOMAIN es |-> new[n]] /\ DOMAIN new = DOMAIN es
    OBVIOUS
  <2> HIDE DEF new
  <2> QED BY <1>1, <1>2, <2>1
<1>4. Tool = "ops_reg" => OneAPlace(new)
  <2> HIDE DEF new
  <2> QED BY <1>2, <1>3 DEF Known, OneAPlace
<1> QED BY <1>3, <1>4 DEF Known

LEMMA DecodeKeeps ==
  ASSUME Gem!DumpAssumption, GemInv, Gem!Decode
  PROVE  GemInv'
<1>1. /\ phase = "decode" /\ phase' = "next" /\ gems' = Tail(gems)
      /\ UNCHANGED <<mem, patched, limit, i, lines, files, reports>>
  BY DEF Gem!Decode, Gem!NextGem
<1>2. entries' \in Known
  <2> DEFINE es == Gem!ensure_task_regcmds_loaded
  <2>1. \/ entries' = entries \/ entries' = es
        \/ entries' = [es EXCEPT ![Gem!best_entry(es)].used = TRUE]
    BY DEF Gem!Decode
  <2>2. entries \in Known /\ es \in Known
    BY LoadedKnown DEF GemInv
  <2> HIDE DEF es
  <2> QED BY <2>1, <2>2, UsedKnown
<1>3. gems' \in Seq(Nat \ {0})
  BY <1>1 DEF GemInv, ShowInv, Showing
<1>4. MemInv' /\ PatchInv' /\ ShowInv'
  BY <1>1 DEF GemInv, MemInv, PatchInv, ShowInv, Showing
<1> QED BY <1>1, <1>2, <1>3, <1>4 DEF GemInv

-----------------------------------------------------------------------------
(* Between two processes nothing is shown.                                 *)
LEMMA GemStartKeeps ==
  ASSUME Gem!DumpAssumption, GemInv, Gem!Start
  PROVE  GemInv'
<1>1. /\ phase = "next" /\ phase' = "next" /\ gems' \in Args /\ limit' \in Limits
      /\ entries' = <<>> /\ labels' = <<>> /\ i' = 0 /\ lines' = <<>>
      /\ UNCHANGED <<mem, patched, files, reports>>
  BY DEF Gem!Start, Gem!Calm
<1>2. gems' \in Seq(Nat \ {0})
  BY <1>1 DEF Gem!DumpAssumption
<1>3. MemInv' /\ PatchInv' /\ ShowInv'
  BY <1>1 DEF GemInv, MemInv, PatchInv, ShowInv, Showing
<1> QED BY <1>1, <1>2, <1>3, NothingKnown DEF GemInv

LEMMA NewOpKeeps ==
  ASSUME Gem!DumpAssumption, GemInv, Gem!NewOp
  PROVE  GemInv'
<1>1. /\ phase = "next" /\ phase' = "next" /\ mem' \in Memories /\ patched' = FALSE
      /\ entries' = <<>> /\ labels' = <<>> /\ i' = 0 /\ lines' = <<>>
      /\ UNCHANGED <<gems, limit, files, reports>>
  BY DEF Gem!NewOp, Gem!Calm
<1>2. MemInv'
  BY <1>1 DEF MemInv, Gem!DumpAssumption, Gem!Names
<1>3. PatchInv' /\ ShowInv'
  BY <1>1 DEF PatchInv, ShowInv, Showing
<1> QED BY <1>1, <1>2, <1>3, NothingKnown DEF GemInv

LEMMA ZeroedWords ==
  ASSUME NEW w \in Seq(Nat), NEW from, NEW to
  PROVE  /\ Gem!Zeroed(w, from, to) \in Seq(Nat)
         /\ Len(Gem!Zeroed(w, from, to)) = Len(w)
<1>1. Gem!Zeroed(w, from, to) = [n \in 1 .. Len(w) |->
        IF n \in from + 1 .. to THEN 0 ELSE w[n]]
  BY DEF Gem!Zeroed
<1>2. \A n \in 1 .. Len(w) : (IF n \in from + 1 .. to THEN 0 ELSE w[n]) \in Nat
  OBVIOUS
<1> QED BY <1>1, <1>2

LEMMA WordsChanged ==
  ASSUME MemInv, NEW g \in DOMAIN mem, NEW w \in Seq(Nat), Len(w) = Len(mem[g].words),
         mem' = [mem EXCEPT ![g].words = w]
  PROVE  /\ MemInv' /\ mem'[g].words = w /\ DOMAIN mem' = DOMAIN mem
         /\ \A h \in DOMAIN mem : h # g => mem'[h] = mem[h]
<1>1. mem[g] \in [dma : Nat, map : Nat, words : Seq(Nat), logged : BOOLEAN]
  BY DEF MemInv
<1>2. mem'[g] = [mem[g] EXCEPT !.words = w] /\ DOMAIN mem' = DOMAIN mem
      /\ \A h \in DOMAIN mem : h # g => mem'[h] = mem[h]
  OBVIOUS
<1>3. /\ mem'[g] \in [dma : Nat, map : Nat, words : Seq(Nat), logged : BOOLEAN]
      /\ mem'[g].words = w
  BY <1>1, <1>2
<1> QED BY <1>2, <1>3 DEF MemInv

LEMMA ZeroAfterTask0Keeps ==
  ASSUME Gem!DumpAssumption, GemInv, Gem!zero_after_task0
  PROVE  GemInv'
<1> DEFINE w == mem[1].words
           new == Gem!Zeroed(w, Gem!Clamp(Gem!TaskWords, Len(w)), Len(w))
<1>1. /\ phase = "next" /\ phase' = "next" /\ patched' = TRUE /\ 1 \in DOMAIN mem
      /\ mem' = [mem EXCEPT ![1].words = new]
      /\ entries' = <<>> /\ labels' = <<>> /\ i' = 0 /\ lines' = <<>>
      /\ UNCHANGED <<gems, limit, files, reports>>
  BY DEF Gem!zero_after_task0, Gem!Calm, Gem!AfterTask0
<1>2. w \in Seq(Nat)
  BY <1>1 DEF GemInv, MemInv
<1>3. new \in Seq(Nat) /\ Len(new) = Len(w) /\ Len(w) \in Nat
  BY <1>2, ZeroedWords
<1>4. \A n \in 6 .. Len(w) : new[n] = 0
  <2>1. ASSUME NEW n \in 6 .. Len(w)
        PROVE  n \in 1 .. Len(w) /\ n \in Gem!Clamp(Gem!TaskWords, Len(w)) + 1 .. Len(w)
    BY <1>3 DEF Gem!Clamp, Gem!TaskWords
  <2>2. DOMAIN w = 1 .. Len(w)
    BY <1>2
  <2> HIDE DEF w
  <2> QED BY <2>1, <2>2 DEF Gem!Zeroed
<1> HIDE DEF new
<1>5. MemInv' /\ mem'[1].words = new /\ 1 \in DOMAIN mem'
  BY <1>1, <1>3, WordsChanged DEF GemInv
<1>6. PatchInv' /\ ShowInv'
  BY <1>1, <1>3, <1>4, <1>5 DEF PatchInv, ShowInv, Showing
<1> QED BY <1>1, <1>5, <1>6, NothingKnown DEF GemInv

LEMMA ZeroRegKeeps ==
  ASSUME Gem!DumpAssumption, GemInv, Gem!zero_reg_after_offset
  PROVE  GemInv'
<1>1. PICK from \in PatchEnds, to \in PatchEnds :
        mem' = [mem EXCEPT ![2].words =
                  Gem!Zeroed(@, Gem!Clamp(from, Len(mem[2].words)),
                             Gem!Clamp(to, Len(mem[2].words)))]
  BY DEF Gem!zero_reg_after_offset
<1>2. /\ phase = "next" /\ phase' = "next" /\ 2 \in DOMAIN mem
      /\ entries' = <<>> /\ labels' = <<>> /\ i' = 0 /\ lines' = <<>>
      /\ UNCHANGED <<patched, gems, limit, files, reports>>
  BY DEF Gem!zero_reg_after_offset, Gem!Calm
<1> DEFINE w == mem[2].words
           new == Gem!Zeroed(w, Gem!Clamp(from, Len(w)), Gem!Clamp(to, Len(w)))
<1>3. mem' = [mem EXCEPT ![2].words = new]
  BY <1>1
<1>4. w \in Seq(Nat)
  BY <1>2 DEF GemInv, MemInv
<1>5. new \in Seq(Nat) /\ Len(new) = Len(w)
  BY <1>4, ZeroedWords
<1> HIDE DEF new
<1>6. /\ MemInv' /\ DOMAIN mem' = DOMAIN mem
      /\ \A h \in DOMAIN mem : h # 2 => mem'[h] = mem[h]
  BY <1>2, <1>3, <1>5, WordsChanged DEF GemInv
<1>7. PatchInv'
  BY <1>2, <1>6 DEF GemInv, PatchInv
<1>8. ShowInv'
  BY <1>2, <1>6 DEF GemInv, ShowInv, Showing
<1> QED BY <1>2, <1>6, <1>7, <1>8, NothingKnown DEF GemInv

LEMMA GemStep ==
  ASSUME Gem!DumpAssumption, GemInv, Gem!Next \/ UNCHANGED gemVars
  PROVE  GemInv'
<1>1. CASE UNCHANGED gemVars
  <2>1. /\ UNCHANGED <<mem, patched, gems, limit, phase, i, lines, entries, labels>>
        /\ UNCHANGED <<files, reports>>
    BY <1>1 DEF gemVars
  <2>2. MemInv' /\ PatchInv'
    BY <2>1 DEF GemInv, MemInv, PatchInv
  <2>3. Showing => Chain(lines)' /\ End(lines)' = End(lines)
    BY <2>1, SameShown DEF GemInv, ShowInv, Chain, AllZero, End
  <2>4. ShowInv'
    BY <2>1, <2>3, SameShown DEF GemInv, ShowInv, Showing
  <2> QED BY <2>1, <2>2, <2>4 DEF GemInv
<1> QED BY <1>1, GemOpenKeeps, ShowBlocksKeeps, RawDoneKeeps, TasksKeeps, DecodeKeeps,
    GemStartKeeps, NewOpKeeps, ZeroAfterTask0Keeps, ZeroRegKeeps DEF Gem!Next

-----------------------------------------------------------------------------
(* What the invariant says of the dump tools.                              *)
LEMMA GemTyped ==
  ASSUME Gem!DumpAssumption, GemInv
  PROVE  Gem!TypeOK
<1>1. phase # "next" => gems # <<>> /\ Gem!gem \in DOMAIN mem
  BY DEF GemInv, ShowInv, Showing
<1>2. \A n \in DOMAIN lines : lines[n].at \in Nat /\ lines[n].blocks > 0
  <2>1. \A n \in DOMAIN lines : lines[n] \in LineSet
    BY DEF GemInv
  <2> QED BY <2>1 DEF LineSet
<1>3. \A n \in DOMAIN entries : entries[n] \in GoodEntry
  BY DEF GemInv, Known
<1>4. \A n \in DOMAIN entries :
        /\ entries[n].flink \in Gem!Names /\ entries[n].amount \in 1 .. MaxAmount
        /\ entries[n].addr % 2 = 0 /\ entries[n].used \in BOOLEAN
  BY <1>3 DEF GoodEntry
<1> QED BY <1>1, <1>2, <1>4 DEF GemInv, MemInv, Gem!TypeOK

LEMMA GemSound ==
  ASSUME Gem!DumpAssumption, GemInv
  PROVE  /\ Gem!EveryBlockOnce
         /\ Tool = "ops_reg" => Gem!OneEntryAPlace
         /\ Tool # "hello" => Gem!DumpIsBuffer
<1>1. Gem!EveryBlockOnce
  <2> SUFFICES ASSUME Showing PROVE Gem!EveryBlockOnce
    BY DEF Gem!EveryBlockOnce, Showing
  <2>1. Chain(lines) /\ i = End(lines) /\ (phase # "raw" => i = Gem!Blocks)
    BY DEF GemInv, ShowInv
  <2>2. WordsOK
    BY ShowingWords DEF Showing
  <2>3. phase # "raw" => 2 * i >= Gem!dump_size
    BY <2>1, <2>2, DumpSize
  <2> QED BY <2>1, <2>3 DEF Gem!EveryBlockOnce, Chain, AllZero, End, Gem!Last
<1>2. Tool = "ops_reg" => Gem!OneEntryAPlace
  BY DEF GemInv, Known, OneAPlace, Gem!OneEntryAPlace
<1>3. Tool # "hello" => Gem!DumpIsBuffer
  BY DEF GemInv, ShowInv, Showing, Gem!DumpIsBuffer
<1> QED BY <1>1, <1>2, <1>3

LEMMA FirstTaskOnly ==
  ASSUME Gem!DumpAssumption, GemInv
  PROVE  Gem!OnlyFirstTask
<1> SUFFICES ASSUME phase = "tasks", Gem!gem = 1, patched,
                    NEW n \in DOMAIN Gem!decode_tasks_from_buffer
             PROVE  Gem!decode_tasks_from_buffer[n].offset = 0
  BY DEF Gem!OnlyFirstTask
<1> DEFINE tasks == Gem!decode_tasks_from_buffer
           task == tasks[n]
<1>1. WordsOK
  BY ShowingWords
<1>2. tasks \in Seq(Decoded)
  BY <1>1, DecodedTasks
<1>3. task \in Decoded
  <2> HIDE DEF tasks
  <2>1. n \in DOMAIN tasks
    BY DEF tasks
  <2> QED BY <1>2, <2>1
<1> HIDE DEF task, tasks
<1>4. task.offset \in Nat /\ TaskIn(task.offset)
  BY <1>3 DEF Decoded, GoodTask
<1>5. ASSUME task.offset # 0
      PROVE  FALSE
  <2>1. (task.offset + 4) + 1 \in 6 .. Len(Gem!words)
    <3>1. Len(Gem!words) \in Nat /\ task.offset + 5 <= Len(Gem!words)
      BY <1>1, <1>4, DumpSize DEF TaskIn, Gem!TaskWords
    <3> QED BY <1>4, <1>5, <3>1
  <2>2. Gem!words[(task.offset + 4) + 1] = 0
    BY <2>1 DEF GemInv, PatchInv, Gem!words
  <2> QED BY <1>4, <2>2 DEF TaskIn, Gem!IsTask, Gem!regcmd_addr, Gem!Word
<1> QED BY <1>5 DEF task, tasks

(* The labels of ops_reg, from an empty list in a decode.                  *)
LEMMA LabelsAreOwn ==
  ASSUME Gem!DumpAssumption, GemInv, Tool = "ops_reg", Gem!Next
  PROVE  Gem!LabelsOwn
<1> SUFFICES ASSUME phase = "decode", mem[Gem!gem].logged, NEW n \in DOMAIN labels'
             PROVE  labels'[n] = mem[Gem!gem].dma + n
  BY DEF Gem!LabelsOwn
<1>1. Gem!Decode
  BY DEF Gem!Next, Gem!Open, Gem!ShowBlocks, Gem!RawDone, Gem!Tasks, Gem!Start,
     Gem!NewOp, Gem!zero_after_task0, Gem!zero_reg_after_offset, Gem!Calm
<1>2. labels = <<>>
  BY DEF GemInv, ShowInv, Showing
<1>3. Gem!commands # {} /\ labels' = Gem!Labels(Gem!ensure_task_regcmds_loaded)
  BY <1>1, <1>2 DEF Gem!Decode
<1>4. Gem!base_addr(Gem!ensure_task_regcmds_loaded) = mem[Gem!gem].dma
  BY DEF Gem!base_addr
<1> QED BY <1>3, <1>4 DEF Gem!Labels

-----------------------------------------------------------------------------
(* hello2.c walks its buffers with what Order leaves from a place on.      *)
From(n) == SubSeq(Sample!Order, n + 1, 5)

LEMMA Walk ==
  ASSUME NEW n \in 0 .. 4
  PROVE  /\ From(n) # <<>> /\ Head(From(n)) = Sample!Order[n + 1]
         /\ Len(From(n)) = 5 - n
         /\ n < 4 => Tail(From(n)) = From(n + 1)
<1>1. Sample!Order \in Seq(Sample!Buffer) /\ Len(Sample!Order) = 5
  BY DEF Sample!Order, Sample!Buffer
<1>2. Head(From(n)) = Sample!Order[n + 1] /\ Tail(From(n)) = From(n + 1)
  BY <1>1, HeadTailOfSubSeq DEF From
<1>3. From(n) \in Seq(Sample!Buffer) /\ Len(From(n)) = 5 - n
  BY <1>1, SubSeqProperties DEF From
<1> QED BY <1>2, <1>3

At(n) == Sample!Order[n]

Walks(t) ==
  \E n \in 0 .. 5 : t \in {From(n), Sample!SyncOrder, Tail(Sample!SyncOrder)}

SampleTypes ==
  /\ sample_pc \in {"open", "alloc", "flink", "write", "sync", "submit",
                    "reopen", "cleanup", "close", "exited"}
  /\ Walks(todo)
  /\ handles \in [Sample!Buffer -> 0 .. 2]
  /\ flinks \subseteq Sample!Buffer /\ dirty \subseteq {"instr", "tasks"}
  /\ ran \in {"no", "these", "others"}
  /\ ret \in {0, -1} /\ status \in {0, -1, 1, 2}
  /\ trouble \subseteq Sample!Calls

(* Where main is says what is left of a walk and who has a handle.         *)
WalkInv ==
  /\ sample_pc \in {"alloc", "flink", "cleanup"} =>
       \E n \in 0 .. 4 :
         /\ todo = From(n)
         /\ sample_pc = "alloc" => \A m \in 1 .. n : handles[At(m)] = 1
         /\ sample_pc = "cleanup" =>
              /\ \A m \in n + 1 .. 5 : handles[At(m)] > 0
              /\ \A m \in 1 .. n :
                   "destroy" \notin trouble => handles[At(m)] = 0
              /\ \A m \in n + 1 .. 4 : handles[At(m)] = 1
  /\ sample_pc = "sync" => todo \in {Sample!SyncOrder, Tail(Sample!SyncOrder)}
  /\ sample_pc \in {"open", "write", "submit", "reopen", "close"} => todo = <<>>
  /\ sample_pc \in {"flink", "write", "sync", "submit", "reopen"} =>
       \A m \in 1 .. 5 : handles[At(m)] = 1

(* Until a sync fails, what is not yet synced is what is still dirty.      *)
SyncInv ==
  "sync" \notin trouble =>
    /\ sample_pc = "sync" /\ todo = Tail(Sample!SyncOrder) => dirty \subseteq {"instr"}
    /\ sample_pc = "submit" => dirty = {}

SampleInv ==
  /\ SampleTypes /\ WalkInv /\ SyncInv
  /\ Sample!RanAsWritten /\ Sample!GivenBack

LEMMA WalkTyped ==
  /\ \A n \in 0 .. 5 : Walks(From(n))
  /\ Walks(Sample!SyncOrder) /\ Walks(Tail(Sample!SyncOrder))
BY DEF Walks

LEMMA SampleTypesAre == SampleTypes => Sample!TypeOK
BY DEF SampleTypes, Sample!TypeOK, Walks, From

LEMMA WalkEnds == From(5) = <<>>
BY SubSeqEmpty DEF From

LEMMA WalkStarts == Sample!Order = From(0)
<1>1. Sample!Order \in Seq(Sample!Buffer) /\ Len(Sample!Order) = 5
  BY DEF Sample!Order, Sample!Buffer
<1> QED BY <1>1, SubSeqFull DEF From

LEMMA SyncWalk ==
  /\ Len(Sample!SyncOrder) = 2 /\ Head(Sample!SyncOrder) = "tasks"
  /\ Sample!SyncOrder # <<>> /\ Tail(Sample!SyncOrder) # <<>>
  /\ Len(Tail(Sample!SyncOrder)) = 1
  /\ Head(Tail(Sample!SyncOrder)) = "instr"
  /\ Tail(Sample!SyncOrder) # Sample!SyncOrder
<1>1. Sample!SyncOrder = <<"tasks", "instr">> /\ Sample!SyncOrder \in Seq(Sample!Buffer)
  BY DEF Sample!SyncOrder, Sample!Buffer
<1>2. Len(Sample!SyncOrder) = 2 /\ Sample!SyncOrder # <<>>
  BY <1>1
<1>3. /\ Tail(Sample!SyncOrder) \in Seq(Sample!Buffer)
      /\ Len(Tail(Sample!SyncOrder)) = 1 /\ Tail(Sample!SyncOrder)[1] = "instr"
  BY <1>1, <1>2, HeadTailProperties
<1> QED BY <1>1, <1>2, <1>3

LEMMA Places ==
  /\ \A n \in 1 .. 5 : At(n) \in Sample!Buffer
  /\ \A b \in Sample!Buffer : \E n \in 1 .. 5 : b = At(n)
  /\ \A m, n \in 1 .. 5 : At(m) = At(n) => m = n
  /\ At(5) = "output"
BY DEF At, Sample!Order, Sample!Buffer

LEMMA SampleInit ==
  ASSUME Sample!Init
  PROVE  SampleInv
<1>1. SampleTypes
  BY WalkTyped, WalkEnds DEF Sample!Init, SampleTypes, Sample!Buffer, Sample!Calls
<1> QED BY <1>1 DEF SampleInv, Sample!Init, WalkInv, SyncInv, Sample!RanAsWritten,
    Sample!GivenBack

LEMMA OpenKeeps ==
  ASSUME SampleInv, Sample!Open
  PROVE  SampleInv'
<1>1. From(0) = Sample!Order
  BY WalkStarts
<1>2. \/ sample_pc' = "alloc" /\ todo' = From(0) /\ trouble' = trouble
         /\ UNCHANGED <<handles, status>>
      \/ /\ sample_pc' = "exited" /\ UNCHANGED todo /\ trouble' = trouble \cup {"open"}
         /\ status' \in {1, 2} /\ handles' = [b \in Sample!Buffer |-> 0]
  BY <1>1 DEF Sample!Open, Sample!Exit, Sample!Failing
<1>3. UNCHANGED <<flinks, dirty, ran, ret>>
  BY DEF Sample!Open
<1>4. SampleTypes'
  <2>1. Walks(todo')
    BY <1>2, WalkTyped DEF SampleInv, SampleTypes
  <2>2. trouble' \subseteq Sample!Calls
    BY <1>2 DEF SampleInv, SampleTypes, Sample!Calls
  <2>3. handles' \in [Sample!Buffer -> 0 .. 2]
    BY <1>2 DEF SampleInv, SampleTypes
  <2> QED BY <1>2, <1>3, <2>1, <2>2, <2>3 DEF SampleInv, SampleTypes
<1>5. WalkInv'
  BY <1>2 DEF WalkInv
<1> QED BY <1>2, <1>3, <1>4, <1>5
    DEF SampleInv, SyncInv, Sample!RanAsWritten, Sample!GivenBack

(* Proceed goes on to the next buffer, or to what comes then.              *)
LEMMA WalkOn ==
  ASSUME NEW n \in 0 .. 4, todo = From(n), NEW then, NEW order,
         Sample!Proceed(then, order)
  PROVE  IF n < 4 THEN sample_pc' = sample_pc /\ todo' = From(n + 1)
                  ELSE sample_pc' = then /\ todo' = order
<1>1. Len(todo) > 1 <=> n < 4
  BY Walk
<1>2. n < 4 => Tail(todo) = From(n + 1)
  BY Walk
<1> QED BY <1>1, <1>2 DEF Sample!Proceed

LEMMA AllocateBufferKeeps ==
  ASSUME SampleInv, Sample!mem_allocate
  PROVE  SampleInv'
<1>1. PICK n \in 0 .. 4 : /\ todo = From(n)
                          /\ \A m \in 1 .. n : handles[At(m)] = 1
  BY DEF Sample!mem_allocate, SampleInv, WalkInv
<1>2. UNCHANGED <<flinks, dirty, ran, ret>> /\ sample_pc = "alloc"
  BY DEF Sample!mem_allocate
<1>3. CASE /\ Sample!Proceed("flink", Sample!Order)
           /\ handles' = [handles EXCEPT ![Head(todo)] = 1]
           /\ UNCHANGED <<status, trouble>>
  <2>1. IF n < 4 THEN sample_pc' = sample_pc /\ todo' = From(n + 1)
                 ELSE sample_pc' = "flink" /\ todo' = From(0)
    BY <1>1, <1>3, WalkOn, WalkStarts
  <2>2. handles' = [handles EXCEPT ![At(n + 1)] = 1]
    BY <1>1, <1>3, Walk DEF At
  <2>3. handles \in [Sample!Buffer -> 0 .. 2] /\ handles' \in [Sample!Buffer -> 0 .. 2]
    <3>1. handles \in [Sample!Buffer -> 0 .. 2] /\ At(n + 1) \in Sample!Buffer
      BY Places DEF SampleInv, SampleTypes
    <3> QED BY <2>2, <3>1
  <2>4. \A m \in 1 .. n + 1 : handles'[At(m)] = 1
    BY <1>1, <2>2, <2>3, Places
  <2>5. SampleTypes'
    BY <1>2, <1>3, <2>1, <2>3, WalkTyped DEF SampleInv, SampleTypes
  <2>6. WalkInv'
    BY <1>2, <2>1, <2>4 DEF WalkInv
  <2> QED BY <1>2, <1>3, <2>1, <2>5, <2>6
      DEF SampleInv, SyncInv, Sample!RanAsWritten, Sample!GivenBack
<1>4. CASE Sample!Exit(2) /\ Sample!Failing("create") /\ UNCHANGED todo
  <2>1. /\ sample_pc' = "exited" /\ status' = 2
        /\ handles' = [b \in Sample!Buffer |-> 0]
        /\ trouble' = trouble \cup {"create"} /\ UNCHANGED todo
    BY <1>4 DEF Sample!Exit, Sample!Failing
  <2>2. SampleTypes'
    BY <1>2, <2>1 DEF SampleInv, SampleTypes, Sample!Calls
  <2> QED BY <1>2, <2>1, <2>2
      DEF SampleInv, WalkInv, SyncInv, Sample!RanAsWritten, Sample!GivenBack
<1> QED BY <1>3, <1>4 DEF Sample!mem_allocate

LEMMA FlinkNameKeeps ==
  ASSUME SampleInv, Sample!create_flink_name
  PROVE  SampleInv'
<1>1. PICK n \in 0 .. 4 : todo = From(n)
  BY DEF Sample!create_flink_name, SampleInv, WalkInv
<1>2. UNCHANGED <<handles, dirty, ran, ret, status>> /\ sample_pc = "flink"
  BY DEF Sample!create_flink_name
<1>3. \A m \in 1 .. 5 : handles[At(m)] = 1
  BY <1>2 DEF SampleInv, WalkInv
<1>4. CASE /\ Sample!Proceed("write", <<>>)
           /\ flinks' = flinks \cup {Head(todo)}
           /\ UNCHANGED trouble
  <2>1. IF n < 4 THEN sample_pc' = sample_pc /\ todo' = From(n + 1)
                 ELSE sample_pc' = "write" /\ todo' = From(5)
    BY <1>1, <1>4, WalkOn, WalkEnds
  <2>2. Head(todo) \in Sample!Buffer
    BY <1>1, Walk, Places DEF At
  <2>3. SampleTypes'
    BY <1>2, <1>4, <2>1, <2>2, WalkTyped DEF SampleInv, SampleTypes
  <2>4. WalkInv'
    BY <1>2, <1>3, <2>1, WalkEnds DEF WalkInv
  <2> QED BY <1>2, <1>4, <2>1, <2>3, <2>4
      DEF SampleInv, SyncInv, Sample!RanAsWritten, Sample!GivenBack
<1>5. CASE /\ sample_pc' = "cleanup" /\ todo' = Sample!Order /\ Sample!Failing("flink")
           /\ UNCHANGED flinks
  <2>1. trouble' = trouble \cup {"flink"} /\ todo' = From(0)
    BY <1>5, WalkStarts DEF Sample!Failing
  <2>2. SampleTypes'
    BY <1>2, <1>5, <2>1, WalkTyped DEF SampleInv, SampleTypes, Sample!Calls
  <2>3. WalkInv'
    BY <1>2, <1>3, <1>5, <2>1 DEF WalkInv
  <2> QED BY <1>2, <1>5, <2>1, <2>2, <2>3
      DEF SampleInv, SyncInv, Sample!RanAsWritten, Sample!GivenBack
<1> QED BY <1>4, <1>5 DEF Sample!create_flink_name

LEMMA WriteTaskKeeps ==
  ASSUME SampleInv, Sample!WriteTask
  PROVE  SampleInv'
<1>1. /\ sample_pc = "write" /\ sample_pc' = "sync" /\ todo' = Sample!SyncOrder
      /\ dirty' = {"instr", "tasks"}
      /\ UNCHANGED <<handles, flinks, ran, ret, status, trouble>>
  BY DEF Sample!WriteTask
<1>2. SampleTypes'
  BY <1>1, WalkTyped DEF SampleInv, SampleTypes
<1>3. WalkInv' /\ SyncInv'
  BY <1>1, SyncWalk DEF SampleInv, WalkInv, SyncInv
<1> QED BY <1>1, <1>2, <1>3 DEF SampleInv, Sample!RanAsWritten, Sample!GivenBack

LEMMA SyncBufferKeeps ==
  ASSUME SampleInv, Sample!mem_sync
  PROVE  SampleInv'
<1>1. /\ sample_pc = "sync" /\ todo \in {Sample!SyncOrder, Tail(Sample!SyncOrder)}
      /\ UNCHANGED <<handles, flinks, ran, ret, status>>
      /\ \/ dirty' = dirty \ {Head(todo)} /\ UNCHANGED trouble
         \/ trouble' = trouble \cup {"sync"} /\ UNCHANGED dirty
  BY DEF Sample!mem_sync, Sample!Failing, SampleInv, WalkInv
<1>2. \/ /\ todo = Sample!SyncOrder /\ sample_pc' = "sync"
         /\ todo' = Tail(Sample!SyncOrder) /\ Head(todo) = "tasks"
      \/ /\ todo = Tail(Sample!SyncOrder) /\ sample_pc' = "submit" /\ todo' = From(5)
         /\ Head(todo) = "instr"
  <2>1. Sample!Proceed("submit", <<>>)
    BY DEF Sample!mem_sync
  <2>2. CASE todo = Sample!SyncOrder
    BY <1>1, <2>1, <2>2, SyncWalk DEF Sample!Proceed
  <2>3. CASE todo = Tail(Sample!SyncOrder)
    <3>1. Len(todo) = 1 /\ Head(todo) = "instr"
      BY <2>3, SyncWalk
    <3>2. sample_pc' = "submit" /\ todo' = <<>>
      BY <2>1, <3>1 DEF Sample!Proceed
    <3> QED BY <2>3, <3>1, <3>2, WalkEnds
  <2> QED BY <1>1, <2>2, <2>3
<1>3. SampleTypes'
  <2>1. Walks(todo')
    <3>1. Walks(From(5))
      BY WalkTyped
    <3> QED BY <1>2, <3>1, WalkTyped
  <2> QED BY <1>1, <1>2, <2>1 DEF SampleInv, SampleTypes, Sample!Calls
<1>4. WalkInv'
  BY <1>1, <1>2, WalkEnds DEF SampleInv, WalkInv
<1>5. SyncInv'
  <2>1. dirty \subseteq {"instr", "tasks"}
    BY DEF SampleInv, SampleTypes
  <2> QED BY <1>1, <1>2, <2>1, SyncWalk DEF SampleInv, SyncInv
<1> QED BY <1>1, <1>2, <1>3, <1>4, <1>5 DEF SampleInv, Sample!RanAsWritten, Sample!GivenBack

LEMMA EvictKeeps ==
  ASSUME SampleInv, Sample!Evict
  PROVE  SampleInv'
<1>1. /\ UNCHANGED <<sample_pc, todo, handles, flinks, ran, ret, status, trouble>>
      /\ dirty' \subseteq dirty
  BY DEF Sample!Evict
<1>2. SampleTypes'
  BY <1>1 DEF SampleInv, SampleTypes
<1>3. WalkInv' /\ SyncInv'
  BY <1>1 DEF SampleInv, WalkInv, SyncInv
<1> QED BY <1>1, <1>2, <1>3 DEF SampleInv, Sample!RanAsWritten, Sample!GivenBack

LEMMA SampleSubmitKeeps ==
  ASSUME SampleInv, Sample!Submit
  PROVE  SampleInv'
<1>1. /\ sample_pc = "submit" /\ sample_pc' = "reopen"
      /\ UNCHANGED <<todo, handles, flinks, dirty, status>>
      /\ \/ /\ ran' = IF dirty = {} THEN "these" ELSE "others"
            /\ ret' = 0 /\ UNCHANGED trouble
         \/ ret' = -1 /\ trouble' = trouble \cup {"submit"} /\ UNCHANGED ran
  BY DEF Sample!Submit, Sample!Failing
<1>2. SampleTypes'
  BY <1>1 DEF SampleInv, SampleTypes, Sample!Calls
<1>3. WalkInv' /\ SyncInv'
  BY <1>1 DEF SampleInv, WalkInv, SyncInv
<1> QED BY <1>1, <1>2, <1>3
    DEF SampleInv, SyncInv, Sample!RanAsWritten, Sample!GivenBack

LEMMA ReopenKeeps ==
  ASSUME SampleInv, Sample!open_gem_by_flink
  PROVE  SampleInv'
<1>1. /\ sample_pc = "reopen" /\ sample_pc' = "cleanup" /\ todo' = From(0)
      /\ UNCHANGED <<flinks, dirty, ran, ret, status>>
      /\ \/ /\ handles' = [handles EXCEPT !["output"] = @ + 1]
            /\ UNCHANGED trouble
         \/ trouble' = trouble \cup {"reopen"} /\ UNCHANGED handles
  BY WalkStarts DEF Sample!open_gem_by_flink, Sample!Failing
<1>2. \A m \in 1 .. 5 : handles[At(m)] = 1
  BY <1>1 DEF SampleInv, WalkInv
<1>3. handles \in [Sample!Buffer -> 0 .. 2] /\ handles' \in [Sample!Buffer -> 0 .. 2]
  BY <1>1, <1>2, Places DEF SampleInv, SampleTypes
<1>4. \A m \in 1 .. 5 : handles'[At(m)] = IF m < 5 THEN 1 ELSE handles'["output"]
  BY <1>1, <1>2, <1>3, Places
<1>5. handles'["output"] > 0
  BY <1>1, <1>2, <1>3, Places
<1>6. SampleTypes'
  <2>1. Walks(todo')
    BY <1>1, WalkTyped
  <2> QED BY <1>1, <1>3, <2>1 DEF SampleInv, SampleTypes, Sample!Calls
<1>7. WalkInv'
  BY <1>1, <1>4, <1>5 DEF WalkInv
<1> QED BY <1>1, <1>6, <1>7
    DEF SampleInv, SyncInv, Sample!RanAsWritten, Sample!GivenBack

LEMMA DestroyBufferKeeps ==
  ASSUME SampleInv, Sample!mem_destroy
  PROVE  SampleInv'
<1>1. PICK n \in 0 .. 4 :
        /\ todo = From(n)
        /\ \A m \in n + 1 .. 5 : handles[At(m)] > 0
        /\ \A m \in 1 .. n : "destroy" \notin trouble => handles[At(m)] = 0
        /\ \A m \in n + 1 .. 4 : handles[At(m)] = 1
  BY DEF Sample!mem_destroy, SampleInv, WalkInv
<1>2. /\ UNCHANGED <<flinks, dirty, ran, ret, status>> /\ sample_pc = "cleanup"
      /\ \/ /\ handles' = [handles EXCEPT ![At(n + 1)] = @ - 1]
            /\ UNCHANGED trouble
         \/ trouble' = trouble \cup {"destroy"} /\ UNCHANGED handles
  BY <1>1, Walk DEF Sample!mem_destroy, Sample!Failing, At
<1>3. IF n < 4 THEN sample_pc' = sample_pc /\ todo' = From(n + 1)
               ELSE sample_pc' = "close" /\ todo' = From(5)
  BY <1>1, WalkOn, WalkEnds DEF Sample!mem_destroy
<1>4. handles \in [Sample!Buffer -> 0 .. 2] /\ handles' \in [Sample!Buffer -> 0 .. 2]
  <2>1. handles \in [Sample!Buffer -> 0 .. 2] /\ At(n + 1) \in Sample!Buffer
    BY Places DEF SampleInv, SampleTypes
  <2>2. handles[At(n + 1)] \in 1 .. 2
    BY <1>1, <2>1
  <2> QED BY <1>2, <2>1, <2>2
<1>5. \A m \in n + 2 .. 5 : handles'[At(m)] = handles[At(m)]
  BY <1>2, <1>4, Places
<1>6. \A m \in 1 .. n : handles'[At(m)] = handles[At(m)]
  BY <1>2, <1>4, Places
<1>7. "destroy" \notin trouble' /\ n < 4 => handles'[At(n + 1)] = 0
  BY <1>1, <1>2, <1>4, Places
<1>8. "destroy" \notin trouble' => "destroy" \notin trouble
  BY <1>2
<1>9. SampleTypes'
  <2>1. Walks(todo')
    <3>1. n < 4 => n + 1 \in 0 .. 5
      OBVIOUS
    <3> QED BY <1>3, <3>1, WalkTyped
  <2> QED BY <1>2, <1>3, <1>4, <2>1 DEF SampleInv, SampleTypes, Sample!Calls
<1>10. WalkInv'
  <2>1. CASE n < 4
    <3>1. n + 1 \in 0 .. 4 /\ sample_pc' = "cleanup" /\ todo' = From(n + 1)
      BY <1>2, <1>3, <2>1
    <3>2. \A m \in (n + 1) + 1 .. 5 : handles'[At(m)] > 0
      BY <1>1, <1>5
    <3>3. \A m \in 1 .. n + 1 : "destroy" \notin trouble' => handles'[At(m)] = 0
      BY <1>1, <1>6, <1>7, <1>8, <2>1
    <3>4. \A m \in (n + 1) + 1 .. 4 : handles'[At(m)] = 1
      BY <1>1, <1>5
    <3> QED BY <3>1, <3>2, <3>3, <3>4 DEF WalkInv
  <2>2. CASE n = 4
    BY <1>3, <2>2, WalkEnds DEF WalkInv
  <2> QED BY <2>1, <2>2
<1>11. Sample!GivenBack'
  <2> SUFFICES ASSUME sample_pc' = "close", "destroy" \notin trouble',
                      NEW b \in Sample!Buffer \ {"output"}
               PROVE  handles'[b] = 0
    BY DEF Sample!GivenBack
  <2>1. n = 4
    BY <1>2, <1>3
  <2>2. PICK m \in 1 .. 5 : b = At(m)
    BY Places
  <2>3. m \in 1 .. n
    BY <2>1, <2>2, Places
  <2> QED BY <1>1, <1>6, <1>8, <2>2, <2>3
<1> QED BY <1>2, <1>3, <1>9, <1>10, <1>11
    DEF SampleInv, SyncInv, Sample!RanAsWritten

LEMMA CloseKeeps ==
  ASSUME SampleInv, Sample!Close
  PROVE  SampleInv'
<1>1. /\ sample_pc' = "exited" /\ status' = ret
      /\ handles' = [b \in Sample!Buffer |-> 0]
      /\ UNCHANGED <<todo, flinks, dirty, ran, ret, trouble>>
  BY DEF Sample!Close, Sample!Exit
<1>2. SampleTypes'
  BY <1>1 DEF SampleInv, SampleTypes
<1> QED BY <1>1, <1>2
    DEF SampleInv, WalkInv, SyncInv, Sample!RanAsWritten, Sample!GivenBack

LEMMA SampleStep ==
  ASSUME SampleInv, Sample!Next \/ UNCHANGED sampleVars
  PROVE  SampleInv'
<1>1. CASE UNCHANGED sampleVars
  BY <1>1 DEF sampleVars, SampleInv, WalkInv, SyncInv, SampleTypes,
     Sample!RanAsWritten, Sample!GivenBack
<1> QED BY <1>1, OpenKeeps, AllocateBufferKeeps, FlinkNameKeeps, WriteTaskKeeps,
    SyncBufferKeeps, EvictKeeps, SampleSubmitKeeps, ReopenKeeps, DestroyBufferKeeps,
    CloseKeeps DEF Sample!Next

-----------------------------------------------------------------------------
(* Every process of a run leaves the state of the others alone.            *)
ToolsInv ==
  /\ Inv /\ LoopInv
  /\ process = "dump" => GemInv
  /\ process = "sample" => SampleInv

LEMMA ToolsInitHolds ==
  ASSUME ToolsInit
  PROVE  ToolsInv
<1>1. Init /\ LoopInit
  BY DEF ToolsInit
<1>2. process = "dump" => GemInv
  BY ToolsAssumption, GemInit DEF ToolsInit
<1>3. process = "sample" => SampleInv
  BY SampleInit DEF ToolsInit
<1> QED BY <1>1, <1>2, <1>3, InitHolds, LoopInitHolds DEF ToolsInv

LEMMA ToolsStep ==
  ASSUME ToolsInv, [ToolsNext]_<<process, vars, loopVars, gemVars, sampleVars>>
  PROVE  ToolsInv'
<1>1. UNCHANGED process
  BY DEF ToolsNext
<1>2. Inv'
  <2>1. [Next]_vars
    BY DEF ToolsNext
  <2> QED BY <2>1, StepKeeps DEF ToolsInv
<1>3. LoopInv'
  <2>1. [LoopNext]_loopVars
    BY DEF ToolsNext, LoopEnded
  <2> QED BY <2>1, LoopStepKeeps DEF ToolsInv
<1>4. process = "dump" => GemInv'
  <2>1. process = "dump" => Gem!Next \/ UNCHANGED gemVars
    BY DEF ToolsNext
  <2> QED BY <2>1, ToolsAssumption, GemStep DEF ToolsInv
<1>5. process = "sample" => SampleInv'
  <2>1. process = "sample" => Sample!Next \/ UNCHANGED sampleVars
    BY DEF ToolsNext, SampleEnded
  <2> QED BY <2>1, SampleStep DEF ToolsInv
<1> QED BY <1>1, <1>2, <1>3, <1>4, <1>5 DEF ToolsInv

LEMMA ToolsInvCorrect == ToolsSpec => []ToolsInv
<1>1. ToolsInit => ToolsInv
  BY ToolsInitHolds
<1>2. ToolsInv /\ [ToolsNext]_<<process, vars, loopVars, gemVars, sampleVars>> => ToolsInv'
  BY ToolsStep
<1> QED BY <1>1, <1>2, PTL DEF ToolsSpec

(***************************************************************************)
(* Whichever of the programs runs, its state keeps its types: among them   *)
(* that hello2.c closes no handle twice and that a buffer is shown only    *)
(* while it is open.                                                       *)
(***************************************************************************)
THEOREM ToolsKeepTypes == ToolsSpec => []ToolsTyped
<1>1. ToolsInv => ToolsTyped
  BY ToolsAssumption, GemTyped, SampleTypesAre
     DEF ToolsInv, Inv, LoopInv, SampleInv, ToolsTyped
<1> QED BY <1>1, ToolsInvCorrect, PTL

(***************************************************************************)
(* hello2.c, whatever fails and whenever the cache writes back: the NPU    *)
(* runs what main wrote unless a sync failed, and the cleanup, from        *)
(* wherever it is reached, gives every buffer back once.                   *)
(***************************************************************************)
THEOREM SampleIsSound == ToolsSpec => []SampleSound
<1>1. ToolsInv => SampleSound
  BY DEF ToolsInv, SampleInv, SampleSound
<1> QED BY <1>1, ToolsInvCorrect, PTL

(***************************************************************************)
(* ops_reg's dump.py, for any buffers, names, reports and limits, from op  *)
(* to op and process to process: the raw dump shows every block once and   *)
(* folds only zeros, a place has one entry, the file is the buffer, every  *)
(* label is the command's own address, and a patched table has one task.   *)
(***************************************************************************)
THEOREM DumpsAreSound ==
  ASSUME Tool = "ops_reg"
  PROVE  ToolsSpec => DumpsSound
<1> DEFINE Shown == process = "dump" =>
                      Gem!EveryBlockOnce /\ Gem!OneEntryAPlace /\ Gem!DumpIsBuffer
           Labelled == process = "dump" => Gem!LabelsOwn
           Single == process = "dump" => Gem!OnlyFirstTask
<1>1. ToolsInv => Shown
  BY ToolsAssumption, GemSound DEF ToolsInv
<1>2. ToolsInv /\ [ToolsNext]_<<process, vars, loopVars, gemVars, sampleVars>>
        => [Labelled]_gemVars
  <2> SUFFICES ASSUME ToolsInv, ToolsNext, process = "dump", ~UNCHANGED gemVars
               PROVE  Gem!LabelsOwn
    BY DEF ToolsNext
  <2>1. Gem!Next
    BY DEF ToolsNext
  <2> QED BY <2>1, ToolsAssumption, LabelsAreOwn DEF ToolsInv
<1>3. ToolsInv => Single
  BY ToolsAssumption, FirstTaskOnly DEF ToolsInv
<1>4. ToolsSpec => []Shown
  <2> HIDE DEF Shown
  <2> QED BY <1>1, ToolsInvCorrect, PTL
<1>5. ToolsSpec => [][Labelled]_gemVars
  <2> HIDE DEF Labelled
  <2> QED BY <1>2, ToolsInvCorrect, PTL DEF ToolsSpec
<1>6. ToolsSpec => [][Single]_gemVars
  <2> HIDE DEF Single
  <2> QED BY <1>3, ToolsInvCorrect, PTL
<1> QED BY <1>4, <1>5, <1>6 DEF DumpsSound, OwnAddress
=============================================================================
