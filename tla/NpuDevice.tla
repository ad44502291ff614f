----------------------------- MODULE NpuDevice -----------------------------
(***************************************************************************)
(* The environment of the driver: the GEM objects the rknpu kernel driver  *)
(* hands out, the CPU data cache in front of each shared buffer, and the   *)
(* NPU. None of it is in the repository; it is modelled from how           *)
(* rknnops.h uses it: ioctls that may fail, buffers created cacheable or   *)
(* not, explicit syncs because the NPU does not snoop the CPU cache, and a *)
(* blocking submit with a timeout.                                         *)
(*                                                                         *)
(* A buffer is represented by one cache line: what can happen to it is     *)
(* what can happen to any line of the buffer.                              *)
(***************************************************************************)
EXTENDS Naturals, Sequences, FiniteSets

CONSTANTS
  Obj,      \* GEM objects the kernel has memory for (its handle numbers)
  None,     \* the zero handle, the NULL pointer
  Faults    \* which calls may fail, a subset of FaultKind

(***************************************************************************)
(* "sync" is a mem_sync ioctl that fails whatever its size, "syncSize" one *)
(* that fails only when the size is not page aligned.                      *)
(***************************************************************************)
FaultKind == {"open", "create", "map", "destroy", "sync", "syncSize",
              "submit", "malloc"}

ASSUME DeviceAssumption == None \notin Obj /\ Faults \subseteq FaultKind

(* The four buffers of struct MemHandles.                                  *)
Buf == {"tasks", "weights", "input", "output"}

(***************************************************************************)
(* What a buffer holds, as far as the result of an operation depends on    *)
(* it: what the pages held before, the register commands alone, everything *)
(* this operation needs, the zeroes of a memset, the result of the NPU run *)
(* on this operation's data, or the result of a run on anything else.      *)
(***************************************************************************)
Content == {"stale", "regcmd", "op", "zero", "result", "garbage"}
LineState == {"uncached", "absent", "clean", "dirty"}

VARIABLES
  named,    \* objects the handle table of the open file refers to
  mapped,   \* objects mapped into the process
  mem,      \* per buffer: what the NPU sees in memory
  cache,    \* per buffer: state of its line in the CPU cache
  view,     \* per buffer: the value of that line while it is present
  npu       \* "idle", "running", "done"

deviceVars == <<named, mapped, mem, cache, view, npu>>

DeviceTypeOK ==
  /\ named \in SUBSET Obj
  /\ mapped \in SUBSET Obj
  /\ mem \in [Buf -> Content]
  /\ cache \in [Buf -> LineState]
  /\ view \in [Buf -> Content]
  /\ npu \in {"idle", "running", "done"}

DeviceInit ==
  /\ named = {}
  /\ mapped = {}
  /\ mem = [b \in Buf |-> "stale"]
  /\ cache = [b \in Buf |-> "absent"]
  /\ view = [b \in Buf |-> "stale"]
  /\ npu = "idle"

(* An object lives as long as a handle or a mapping refers to it.          *)
Live == named \cup mapped

Present(b) == cache[b] \in {"clean", "dirty"}

(* What a load of the CPU returns.                                         *)
CpuView(b) == IF Present(b) THEN view[b] ELSE mem[b]

(***************************************************************************)
(* Stores of the CPU: buffer b of the set S receives val[b]. They stay in  *)
(* the cache unless the buffer is mapped uncached.                         *)
(***************************************************************************)
CpuWrite(S, val) ==
  /\ mem' = [b \in Buf |-> IF b \in S /\ cache[b] = "uncached"
                           THEN val[b] ELSE mem[b]]
  /\ view' = [b \in Buf |-> IF b \in S /\ cache[b] # "uncached"
                            THEN val[b] ELSE view[b]]
  /\ cache' = [b \in Buf |-> IF b \in S /\ cache[b] # "uncached"
                             THEN "dirty" ELSE cache[b]]

(* RKNPU_MEM_SYNC_TO_DEVICE: write the line back and keep it.              *)
CacheClean(b) ==
  /\ mem' = [mem EXCEPT ![b] = CpuView(b)]
  /\ cache' = [cache EXCEPT ![b] = IF @ = "dirty" THEN "clean" ELSE @]
  /\ UNCHANGED view

(* RKNPU_MEM_SYNC_FROM_DEVICE: drop the line, dirty or not.                *)
CacheInvalidate(b) ==
  /\ cache' = [cache EXCEPT ![b] = IF @ = "uncached" THEN @ ELSE "absent"]
  /\ view' = [view EXCEPT ![b] = "stale"]
  /\ UNCHANGED mem

(* Pages of a new or a dead buffer: unknown contents, no line in the cache.*)
Fresh(b, state) ==
  /\ mem' = [mem EXCEPT ![b] = "stale"]
  /\ cache' = [cache EXCEPT ![b] = state]
  /\ view' = [view EXCEPT ![b] = "stale"]

(***************************************************************************)
(* What the hardware does on its own: the cache evicts a line (a dirty one *)
(* is written back), or fetches one speculatively.                         *)
(***************************************************************************)
Evict(b) ==
  /\ Present(b)
  /\ mem' = [mem EXCEPT ![b] = IF cache[b] = "dirty" THEN view[b] ELSE @]
  /\ cache' = [cache EXCEPT ![b] = "absent"]
  /\ view' = [view EXCEPT ![b] = "stale"]
  /\ UNCHANGED <<named, mapped, npu>>

Prefetch(b) ==
  /\ cache[b] = "absent"
  /\ cache' = [cache EXCEPT ![b] = "clean"]
  /\ view' = [view EXCEPT ![b] = mem[b]]
  /\ UNCHANGED <<named, mapped, mem, npu>>

(***************************************************************************)
(* The NPU runs the submitted tasks: it reads the task table, the register *)
(* commands and the operands from memory and writes the output there.      *)
(***************************************************************************)
NpuReads == {"tasks", "weights", "input"}

NpuExecute ==
  /\ npu = "running"
  /\ npu' = "done"
  /\ mem' = [mem EXCEPT !["output"] =
               IF \A b \in NpuReads : mem[b] = "op"
               THEN "result" ELSE "garbage"]
  /\ UNCHANGED <<named, mapped, cache, view>>
=============================================================================
