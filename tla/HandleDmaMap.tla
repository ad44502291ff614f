---------------------------- MODULE HandleDmaMap ----------------------------
(***************************************************************************)
(* handle_dma_map of rknnops.h: a table of fixed capacity in which         *)
(* mem_allocate notes the DMA address behind each handle, and in which     *)
(* create_flink_name looks it up again for the log that dump.py reads.     *)
(* Nothing removes an entry when its handle is destroyed.                  *)
(***************************************************************************)
EXTENDS Integers, Sequences

CONSTANTS
  Handle,    \* GEM handles, the first positive numbers
  Dma,       \* DMA addresses; an object is known by the one it has
  None,      \* no address, no handle
  Capacity   \* HANDLE_DMA_CAPACITY, 64

ASSUME MapAssumption ==
  /\ Handle \subseteq Nat \ {0}
  /\ None \notin Dma /\ None \notin Handle
  /\ Capacity \in Nat

Table == Seq([handle : Handle, dma_addr : Dma])

Has(table, handle) == \E i \in DOMAIN table : table[i].handle = handle

(* The loops over the table stop at the first match.                       *)
First(table, handle) ==
  CHOOSE i \in DOMAIN table :
    table[i].handle = handle /\ \A j \in 1..(i - 1) : table[j].handle # handle

(* Mutant: an entry that is there is left as it is.                        *)
StoreKeepsOld(table, handle, dma_addr) ==
  IF Has(table, handle) \/ Len(table) >= Capacity THEN table
  ELSE Append(table, [handle |-> handle, dma_addr |-> dma_addr])

(* Mutant: the last slot is never used.                                    *)
StoreLosesSlot(table, handle, dma_addr) ==
  CASE Has(table, handle) ->
         [table EXCEPT ![First(table, handle)].dma_addr = dma_addr]
    [] ~Has(table, handle) /\ Len(table) < Capacity - 1 ->
         Append(table, [handle |-> handle, dma_addr |-> dma_addr])
    [] OTHER -> table

(* store_handle_dma: overwrite, append, or drop without a word.            *)
StoreHandleDma(table, handle, dma_addr) ==
  CASE Has(table, handle) ->
         [table EXCEPT ![First(table, handle)].dma_addr = dma_addr]
    [] ~Has(table, handle) /\ Len(table) < Capacity ->
         Append(table, [handle |-> handle, dma_addr |-> dma_addr])
    [] OTHER -> table

(* find_dma_for_handle: None when it returns false.                        *)
FindDma(table, handle) ==
  IF Has(table, handle) THEN table[First(table, handle)].dma_addr ELSE None

(* The kernel gives out the lowest free handle of the descriptor.          *)
NewHandle(used) ==
  CHOOSE h \in Handle \ used : \A other \in Handle \ used : h <= other

(* A partial function with one more argument, or with fewer.               *)
With(f, x, value) == [y \in DOMAIN f \cup {x} |-> IF y = x THEN value ELSE f[y]]
Only(f, S) == [x \in DOMAIN f \cap S |-> f[x]]
Values(f) == {f[x] : x \in DOMAIN f}
Empty == <<>>
=============================================================================
