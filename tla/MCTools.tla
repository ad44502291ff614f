------------------------------ MODULE MCTools ------------------------------
(***************************************************************************)
(* The programs around the buffers. One of these is run: "log", the driver *)
(* with dump.py beside it; "loop", alloc_weight_loop.c; "dump", one of the *)
(* programs that show buffers, again and again; "sample", hello2.c. The    *)
(* variables of what does not run keep an initial or an idle value.        *)
(***************************************************************************)
EXTENDS DmaLog, AllocLoop, TLC

CONSTANTS
  Processes,                                                 \* what a run starts
  Tool, Memories, Args, Limits, PatchEnds, Listing, Fold,    \* of GemDump
  MaxAmount, Half, hello_base

VARIABLES
  process,
  mem, patched, gems, limit, phase, i, lines, entries, labels, files, reports,
  sample_pc, todo, handles, flinks, dirty, ran, ret, status, trouble

gemVars == <<mem, patched, gems, limit, phase, i, lines, entries, labels, files, reports>>
sampleVars == <<sample_pc, todo, handles, flinks, dirty, ran, ret, status, trouble>>

Gem == INSTANCE GemDump
Sample == INSTANCE FlinkSample WITH pc <- sample_pc

ASSUME ToolsAssumption == Gem!DumpAssumption

Idle == "idle"
NoGem ==
  /\ mem = Idle /\ patched = Idle /\ gems = Idle /\ limit = Idle /\ phase = Idle
  /\ i = Idle /\ lines = Idle /\ entries = Idle /\ labels = Idle
  /\ files = Idle /\ reports = Idle
NoSample ==
  /\ sample_pc = Idle /\ todo = Idle /\ handles = Idle /\ flinks = Idle
  /\ dirty = Idle /\ ran = Idle /\ ret = Idle /\ status = Idle /\ trouble = Idle

ToolsInit ==
  /\ process \in Processes
  /\ Init /\ LoopInit
  /\ IF process = "dump" THEN Gem!Init ELSE NoGem
  /\ IF process = "sample" THEN Sample!Init ELSE NoSample

(* The two programs that come to an end.                                   *)
LoopEnded == loop_pc = "closed" /\ UNCHANGED loopVars
SampleEnded == sample_pc = "exited" /\ UNCHANGED sampleVars

ToolsNext ==
  \/ /\ process = "log" /\ Next
     /\ UNCHANGED <<process, loopVars, gemVars, sampleVars>>
  \/ /\ process = "loop" /\ (LoopNext \/ LoopEnded)
     /\ UNCHANGED <<process, vars, gemVars, sampleVars>>
  \/ /\ process = "dump" /\ Gem!Next
     /\ UNCHANGED <<process, vars, loopVars, sampleVars>>
  \/ /\ process = "sample" /\ (Sample!Next \/ SampleEnded)
     /\ UNCHANGED <<process, vars, loopVars, gemVars>>

ToolsSpec ==
  ToolsInit /\ [][ToolsNext]_<<process, vars, loopVars, gemVars, sampleVars>>

(* The state of what runs has its types; hello2.c closes no handle twice.  *)
ToolsTyped ==
  /\ TypeOK /\ LoopTypeOK
  /\ process = "dump" => Gem!TypeOK
  /\ process = "sample" => Sample!TypeOK

(* LabelsOwn of GemDump: commands are labelled with their own addresses.   *)
OwnAddress == [][process = "dump" => Gem!LabelsOwn]_gemVars

(***************************************************************************)
(* The dump tools: what a raw dump folds away is zero, a report read back  *)
(* makes no second entry, a dump file has nothing of an older buffer,      *)
(* commands are labelled with their own addresses, and a patched table has *)
(* a single task.                                                          *)
(***************************************************************************)
DumpsSound ==
  /\ [](process = "dump" =>
         Gem!EveryBlockOnce /\ Gem!OneEntryAPlace /\ Gem!DumpIsBuffer)
  /\ OwnAddress
  /\ [][process = "dump" => Gem!OnlyFirstTask]_gemVars

(* hello2.c: the NPU runs what main wrote, and cleanup gives every buffer  *)
(* back.                                                                   *)
SampleSound == process = "sample" => Sample!RanAsWritten /\ Sample!GivenBack

-----------------------------------------------------------------------------
(* What the constants are given. Handles and slots suffice for two buffers *)
(* an op and one left over by a failed attempt, and for leaks of the loop  *)
(* to fill the table.                                                      *)
FourHandles == 1..4
ThreeNames == 1..3
Addresses == Permutations(Dma)
NothingOrOneLine == {Empty} \cup {2 :> d : d \in Dma}

(***************************************************************************)
(* GemDump. Two ops: one of two tasks whose commands are two stretches of  *)
(* gem 2 with room between them, as the runtime places them, and one of a  *)
(* single task and smaller buffers. An amount and an address no task has,  *)
(* and a half word beside an amount, lie in between. Half, MaxAmount and   *)
(* Fold are cut to the size of the buffers.                                *)
(***************************************************************************)
Buffer(dma, map, w, logged) ==
    [dma |-> dma, map |-> map, words |-> w, logged |-> logged]

Zeros(n) == [k \in 1 .. n |-> 0]

LongTable == <<1, 0, 0, 3, 104>> \o Zeros(5) \o <<0, 0, 0, 34, 110>>
             \o <<0, 0, 0, 12, 106>> \o <<0, 0, 0, 2, 107>> \o Zeros(1)
ShortTable == <<0, 0, 0, 2, 100>> \o Zeros(5)

LongCommands == <<0, 0, 0, 0, 9, 9, 9, 0, 0, 0, 9, 9, 0, 9>> \o Zeros(6)
ShortCommands == <<9, 9, 9, 0, 0, 0>>

MCMemories ==
    {1 :> Buffer(80, 200, LongTable, TRUE)
       @@ 2 :> Buffer(100, 300, LongCommands, TRUE),
     1 :> Buffer(80, 200, ShortTable, TRUE)
       @@ 2 :> Buffer(100, 300, ShortCommands, FALSE)}

MCListing == <<1, 2>>

MCArgs == {<<1, 2>>, <<2>>, <<2, 1, 2>>, <<3, 1, 1>>}
=============================================================================
