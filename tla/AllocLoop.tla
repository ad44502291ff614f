----------------------------- MODULE AllocLoop -----------------------------
(***************************************************************************)
(* ops_reg/alloc_weight_loop.c: one descriptor, on which a large buffer is *)
(* allocated, unmapped and destroyed again and again. It never empties the *)
(* handle map, which createRegCmd does for every other program.            *)
(***************************************************************************)
EXTENDS HandleDmaMap

CONSTANT Loops   \* iterations, 500

ASSUME LoopsAssumption == Loops \in Nat

VARIABLES
  loop_pc,       \* "top", "held", "closed"
  iter,          \* iterations begun
  loop_objects,  \* the handles of the descriptor, each with its object
  loop_held,     \* the handle of the buffer of this iteration
  loop_table     \* handle_dma_map

loopVars == <<loop_pc, iter, loop_objects, loop_held, loop_table>>

LoopInit ==
  /\ loop_pc = "top"
  /\ iter = 0
  /\ loop_objects = Empty
  /\ loop_held = None
  /\ loop_table = <<>>

(* mem_allocate succeeds: the address is stored under the new handle.      *)
LoopAllocate ==
  /\ loop_pc = "top" /\ iter < Loops
  /\ Handle \ DOMAIN loop_objects # {}
  /\ LET handle == NewHandle(DOMAIN loop_objects)
     IN  \E dma \in Dma \ Values(loop_objects) :
           /\ loop_objects' = With(loop_objects, handle, dma)
           /\ loop_table' = StoreHandleDma(loop_table, handle, dma)
           /\ loop_held' = handle
  /\ iter' = iter + 1
  /\ loop_pc' = "held"

(* It fails, perhaps after the object was created, and the destroy of that *)
(* may fail as well. The loop is left and the descriptor closed.           *)
LoopAllocateFails ==
  /\ loop_pc = "top" /\ iter < Loops
  /\ loop_objects' = Empty
  /\ loop_pc' = "closed"
  /\ UNCHANGED <<iter, loop_held, loop_table>>

(* munmap and mem_destroy; a destroy that fails leaves the handle.         *)
LoopDestroy ==
  /\ loop_pc = "held"
  /\ \/ loop_objects' = Only(loop_objects, DOMAIN loop_objects \ {loop_held})
     \/ UNCHANGED loop_objects
  /\ loop_held' = None
  /\ loop_pc' = "top"
  /\ UNCHANGED <<iter, loop_table>>

LoopClose ==
  /\ loop_pc = "top" /\ iter = Loops
  /\ loop_objects' = Empty
  /\ loop_pc' = "closed"
  /\ UNCHANGED <<iter, loop_held, loop_table>>

LoopNext == LoopAllocate \/ LoopAllocateFails \/ LoopDestroy \/ LoopClose

LoopSpec == LoopInit /\ [][LoopNext]_loopVars

-----------------------------------------------------------------------------
LoopTypeOK ==
  /\ loop_pc \in {"top", "held", "closed"}
  /\ iter \in 0..Loops
  /\ DOMAIN loop_objects \subseteq Handle
  /\ \A h \in DOMAIN loop_objects : loop_objects[h] \in Dma
  /\ loop_held \in Handle \cup {None}
  /\ loop_table \in Table

(***************************************************************************)
(* The buffer in hand is found with its own address, however often its     *)
(* handle was given out before; only a full table may not know it. (A      *)
(* handle that a failed destroy left behind uses up a slot for good.)      *)
(***************************************************************************)
HeldIsFound ==
  loop_pc = "held" =>
    \/ FindDma(loop_table, loop_held) = loop_objects[loop_held]
    \/ FindDma(loop_table, loop_held) = None /\ Len(loop_table) = Capacity

(***************************************************************************)
(* A handle has one entry: a buffer allocated under the handle of one that *)
(* was destroyed takes over its slot. Without leaks the 500 iterations     *)
(* therefore need a single slot, and no stale entry hides a newer one.     *)
(***************************************************************************)
EntriesAreHandles ==
  \A i, j \in DOMAIN loop_table : loop_table[i].handle = loop_table[j].handle => i = j
=============================================================================
