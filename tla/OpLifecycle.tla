---------------------------- MODULE OpLifecycle ----------------------------
(***************************************************************************)
(* One operation of the driver, from open to close, and again: the op      *)
(* functions of rknnops.h and ops_reg/main.c all open the device, let      *)
(* createRegCmd allocate four GEM buffers and write the register commands, *)
(* fill the operands, sync, submit, copy the output out, release and close.*)
(* They differ in what they sync, in whether they clear the output, and in *)
(* how the output is handed over; the record of an op says how.            *)
(*                                                                         *)
(* The program is one thread. What interleaves with it is the hardware of  *)
(* NpuDevice: the cache evicts and fetches lines, and the NPU runs.        *)
(***************************************************************************)
EXTENDS NpuDevice

CONSTANT Ops    \* the operations the program performs

(***************************************************************************)
(* sync:    the buffers synced to the device before the submit, in order   *)
(* clears:  the CPU clears the output buffer while it packs the operands   *)
(* submits: the op submits its tasks at all                                *)
(* copies:  the output is copied to malloc'ed memory before the release    *)
(***************************************************************************)
OpKind == [sync: Seq(Buf), clears: BOOLEAN, submits: BOOLEAN, copies: BOOLEAN]

ASSUME OpsAssumption == Ops \subseteq OpKind /\ None \notin Ops

Float16AluOp ==
  [sync |-> <<"weights", "input", "tasks", "output">>,
   clears |-> TRUE, submits |-> TRUE, copies |-> TRUE]
Float16Conv2d ==
  [sync |-> <<"weights", "input", "tasks", "output">>,
   clears |-> TRUE, submits |-> TRUE, copies |-> TRUE]
Float16Matmul ==
  [sync |-> <<"weights", "input">>,
   clears |-> TRUE, submits |-> TRUE, copies |-> TRUE]
Float16MatmulPrepacked ==
  [sync |-> <<"weights", "input">>,
   clears |-> TRUE, submits |-> TRUE, copies |-> TRUE]
(* The caller reads the output in place, then calls release_conv_result.   *)
Float16Conv ==
  [sync |-> <<"weights", "input">>,
   clears |-> TRUE, submits |-> TRUE, copies |-> FALSE]
Float16AluOpPadded ==
  [sync |-> <<"weights", "input">>,
   clears |-> FALSE, submits |-> TRUE, copies |-> TRUE]
Int16AluOp ==
  [sync |-> <<"weights", "input">>,
   clears |-> FALSE, submits |-> TRUE, copies |-> TRUE]
Int8AluOp ==
  [sync |-> <<"weights", "input">>,
   clears |-> FALSE, submits |-> TRUE, copies |-> TRUE]
(* Builds the register commands and inspects them; nothing is submitted.   *)
MinmaxBinRegcheck ==
  [sync |-> <<>>, clears |-> FALSE, submits |-> FALSE, copies |-> FALSE]

VARIABLES
  pc,        \* where the program is
  op,        \* the operation it performs
  fd,        \* whether the operation's file descriptor is open
  handles,   \* struct MemHandles: the object of each buffer, None for zero
  retried,   \* createRegCmd is at its second attempt for the output
  todo,      \* buffers still to be synced to the device
  answer     \* what the last operation returned

progVars == <<pc, op, fd, handles, retried, todo, answer>>
vars == <<deviceVars, progVars>>

Location == {"idle", "alloc", "build", "pack", "sync", "wait", "fetch",
             "copy", "release", "close", "exited"}
Answer == Content \cup {"none", "null", "checked"}

(* Values come and go with their types; everything else is a property.     *)
TypeOK ==
  /\ DeviceTypeOK
  /\ pc \in Location
  /\ op \in Ops \cup {None}
  /\ fd \in {"closed", "open"}
  /\ handles \in [Buf -> Obj \cup {None}]
  /\ retried \in BOOLEAN
  /\ todo \in Seq(Buf)
  /\ answer \in Answer

Init ==
  /\ DeviceInit
  /\ pc = "idle"
  /\ op = None
  /\ fd = "closed"
  /\ handles = [b \in Buf |-> None]
  /\ retried = FALSE
  /\ todo = <<>>
  /\ answer = "none"

-----------------------------------------------------------------------------
(* The objects the handles refer to.                                       *)
Held == {handles[b] : b \in Buf} \ {None}

(* createRegCmd allocates in this order; the next buffer is the first one  *)
(* without an object.                                                      *)
AllocOrder == <<"tasks", "weights", "input", "output">>
IsNext(b) == \E i \in 1..4 :
  /\ AllocOrder[i] = b
  /\ handles[b] = None
  /\ \A j \in 1..(i - 1) : handles[AllocOrder[j]] # None

(* Only the task table is mapped uncached.                                 *)
InitialLine(b) == IF b = "tasks" THEN "uncached" ELSE "absent"

(***************************************************************************)
(* getDeviceFd, the resets (whose result nobody looks at; with no job in   *)
(* flight they change nothing) and the entry of createRegCmd.              *)
(***************************************************************************)
Open(o) ==
  /\ pc = "idle"
  /\ pc' = "alloc"
  /\ op' = o
  /\ fd' = "open"
  /\ answer' = "none"
  /\ UNCHANGED <<deviceVars, handles, retried, todo>>

(* getDeviceFd calls exit(1).                                              *)
OpenFails ==
  /\ pc = "idle"
  /\ "open" \in Faults
  /\ pc' = "exited"
  /\ UNCHANGED <<deviceVars, op, fd, handles, retried, todo, answer>>

Exited == pc = "exited" /\ UNCHANGED vars

-----------------------------------------------------------------------------
(***************************************************************************)
(* mem_allocate: MEM_CREATE, MEM_MAP and mmap. When one of the last two    *)
(* fails the object is destroyed again, which may fail too.                *)
(***************************************************************************)
MemAllocate(o) ==
  /\ o \notin Live
  /\ named' = named \cup {o}
  /\ mapped' = mapped \cup {o}

MapFails(o) ==
  /\ "map" \in Faults
  /\ o \notin Live
  /\ named' \in {named} \cup
       (IF "destroy" \in Faults THEN {named \cup {o}} ELSE {})

MemAllocateFails ==
  /\ \/ ("create" \in Faults \/ Live = Obj) /\ UNCHANGED named
     \/ \E o \in Obj : MapFails(o)
  /\ UNCHANGED <<mapped, mem, cache, view, npu>>

Alloc(b, o) ==
  /\ pc = "alloc"
  /\ IsNext(b)
  /\ MemAllocate(o)
  /\ handles' = [handles EXCEPT ![b] = o]
  /\ Fresh(b, InitialLine(b))
  /\ pc' = IF b = "output" THEN "build" ELSE "alloc"
  /\ UNCHANGED <<npu, op, fd, retried, todo, answer>>

(* Mutant: the first attempt succeeds, and is repeated all the same.       *)
AllocRetryLosesMapping ==
  /\ pc = "alloc"
  /\ IsNext("output") /\ ~retried
  /\ \E o \in Obj : MemAllocate(o)
  /\ retried' = TRUE
  /\ UNCHANGED <<mem, cache, view, npu, pc, op, fd, handles, todo, answer>>

(* The output gets a second attempt, with other flags.                     *)
AllocRetry ==
  /\ pc = "alloc"
  /\ IsNext("output") /\ ~retried
  /\ MemAllocateFails
  /\ retried' = TRUE
  /\ UNCHANGED <<pc, op, fd, handles, todo, answer>>

(* Mutant: MAP_FAILED is not recognised and stored as the pointer.         *)
AllocFailsUnchecked ==
  /\ pc = "alloc"
  /\ ~IsNext("output") \/ retried
  /\ MemAllocateFails
  /\ \E b \in Buf : IsNext(b) /\ handles' = [handles EXCEPT ![b] = "MAP_FAILED"]
  /\ pc' = "release"
  /\ answer' = "null"
  /\ UNCHANGED <<op, fd, retried, todo>>

(* createRegCmd gives up and releases; the op function returns NULL.       *)
AllocFails ==
  /\ pc = "alloc"
  /\ ~IsNext("output") \/ retried
  /\ MemAllocateFails
  /\ pc' = "release"
  /\ answer' = "null"
  /\ UNCHANGED <<op, fd, handles, retried, todo>>

(***************************************************************************)
(* The end of createRegCmd: register commands into the weights buffer (the *)
(* rest of it cleared), then the task table.                               *)
(***************************************************************************)
BuildRegCmd ==
  /\ pc = "build"
  /\ CpuWrite({"weights", "tasks"},
              [b \in Buf |-> IF b = "tasks" THEN "op" ELSE "regcmd"])
  /\ IF op.submits
       THEN pc' = "pack" /\ UNCHANGED answer
       ELSE pc' = "release" /\ answer' = "checked"
  /\ UNCHANGED <<named, mapped, npu, op, fd, handles, retried, todo>>

(* memset and packing of the operands, memset of the output.               *)
PackOperands ==
  /\ pc = "pack"
  /\ CpuWrite({"weights", "input"} \cup (IF op.clears THEN {"output"} ELSE {}),
              [b \in Buf |-> IF b = "output" THEN "zero" ELSE "op"])
  /\ todo' = op.sync
  /\ pc' = "sync"
  /\ UNCHANGED <<named, mapped, npu, op, fd, handles, retried, answer>>

(***************************************************************************)
(* mem_sync: the results one call can have. A failed attempt with a size   *)
(* that is not page aligned is repeated with the aligned size; a failure   *)
(* of the last attempt is only printed.                                    *)
(***************************************************************************)
Attempt(aligned) ==
  {TRUE} \cup (IF "sync" \in Faults \/ ("syncSize" \in Faults /\ ~aligned)
               THEN {FALSE} ELSE {})

(* Mutant: no second attempt.                                              *)
MemSyncNoRetry == UNION {Attempt(aligned) : aligned \in BOOLEAN}

MemSync ==
  Attempt(TRUE) \cup
    {second \in BOOLEAN : FALSE \in Attempt(FALSE) /\ second \in Attempt(TRUE)}

SyncToDevice ==
  /\ pc = "sync"
  /\ todo # <<>>
  /\ \E done \in MemSync :
       IF done THEN CacheClean(Head(todo)) ELSE UNCHANGED <<mem, cache, view>>
  /\ todo' = Tail(todo)
  /\ UNCHANGED <<named, mapped, npu, pc, op, fd, handles, retried, answer>>

(* Mutant: RKNPU_JOB_NONBLOCK.                                             *)
SubmitNonBlocking ==
  /\ pc = "sync"
  /\ todo = <<>>
  /\ npu' = "running"
  /\ pc' = "fetch"
  /\ UNCHANGED <<named, mapped, mem, cache, view>>
  /\ UNCHANGED <<op, fd, handles, retried, todo, answer>>

(* submitTask with RKNPU_JOB_BLOCK: the call returns when the job is over. *)
Submit ==
  /\ pc = "sync"
  /\ todo = <<>>
  /\ npu' = "running"
  /\ pc' = "wait"
  /\ UNCHANGED <<named, mapped, mem, cache, view>>
  /\ UNCHANGED <<op, fd, handles, retried, todo, answer>>

SubmitReturns ==
  /\ pc = "wait"
  /\ npu = "done"
  /\ npu' = "idle"
  /\ pc' = "fetch"
  /\ UNCHANGED <<named, mapped, mem, cache, view>>
  /\ UNCHANGED <<op, fd, handles, retried, todo, answer>>

(* Mutant: the result of the submit ioctl is not looked at.                *)
SubmitFailsIgnored ==
  /\ pc = "wait"
  /\ "submit" \in Faults
  /\ npu = "running"
  /\ npu' = "idle"
  /\ pc' = "fetch"
  /\ UNCHANGED <<named, mapped, mem, cache, view>>
  /\ UNCHANGED <<op, fd, handles, retried, todo, answer>>

(* Mutant: after an aborted job the program keeps waiting for its end.     *)
SubmitFailsWaits ==
  /\ pc = "wait"
  /\ "submit" \in Faults
  /\ npu = "running"
  /\ npu' = "idle"
  /\ UNCHANGED <<named, mapped, mem, cache, view>>
  /\ UNCHANGED <<pc, op, fd, handles, retried, todo, answer>>

(* The job is refused, or the 10 s timeout passes and the kernel aborts it.*)
SubmitFails ==
  /\ pc = "wait"
  /\ "submit" \in Faults
  /\ npu = "running"
  /\ npu' = "idle"
  /\ pc' = "release"
  /\ answer' = "null"
  /\ UNCHANGED <<named, mapped, mem, cache, view>>
  /\ UNCHANGED <<op, fd, handles, retried, todo>>

SyncFromDevice ==
  /\ pc = "fetch"
  /\ \E done \in MemSync :
       IF done THEN CacheInvalidate("output")
               ELSE UNCHANGED <<mem, cache, view>>
  /\ pc' = "copy"
  /\ UNCHANGED <<named, mapped, npu, op, fd, handles, retried, todo, answer>>

(* malloc and memcpy of the output, or the caller reading it in place.     *)
CopyOutput ==
  /\ pc = "copy"
  /\ answer' = CpuView("output")
  /\ pc' = "release"
  /\ UNCHANGED <<deviceVars, op, fd, handles, retried, todo>>

CopyFails ==
  /\ pc = "copy"
  /\ op.copies /\ "malloc" \in Faults
  /\ answer' = "null"
  /\ pc' = "release"
  /\ UNCHANGED <<deviceVars, op, fd, handles, retried, todo>>

-----------------------------------------------------------------------------
(***************************************************************************)
(* release_memhandles, and its copies in release_conv_result,              *)
(* release_matmul_handles and float16_matmul: every buffer that has a      *)
(* pointer is unmapped, every one that has a handle is destroyed, then the *)
(* struct is zeroed. A destroy that fails is only printed.                 *)
(***************************************************************************)
DestroyResults(S) ==
  IF "destroy" \in Faults THEN SUBSET S ELSE {{}}

(* Mutant: the munmap of the output is missing.                            *)
ReleaseForgetsOutput ==
  /\ pc = "release"
  /\ mapped' = mapped \ (Held \ {handles["output"]})
  /\ \E kept \in DestroyResults(Held) : named' = (named \ Held) \cup kept
  /\ mem' = [b \in Buf |-> "stale"]
  /\ cache' = [b \in Buf |-> "absent"]
  /\ view' = [b \in Buf |-> "stale"]
  /\ handles' = [b \in Buf |-> None]
  /\ pc' = "close"
  /\ UNCHANGED <<npu, op, fd, retried, todo, answer>>

(* Mutant: mem_destroy of the input gets input_dma for input_obj.          *)
ReleaseWrongObj ==
  /\ pc = "release"
  /\ mapped' = mapped \ Held
  /\ named' = named \ (Held \ {handles["input"]})
  /\ mem' = [b \in Buf |-> "stale"]
  /\ cache' = [b \in Buf |-> "absent"]
  /\ view' = [b \in Buf |-> "stale"]
  /\ handles' = [b \in Buf |-> None]
  /\ pc' = "close"
  /\ UNCHANGED <<npu, op, fd, retried, todo, answer>>

Release ==
  /\ pc = "release"
  /\ mapped' = mapped \ Held
  /\ \E kept \in DestroyResults(Held) : named' = (named \ Held) \cup kept
  /\ mem' = [b \in Buf |-> "stale"]
  /\ cache' = [b \in Buf |-> "absent"]
  /\ view' = [b \in Buf |-> "stale"]
  /\ handles' = [b \in Buf |-> None]
  /\ pc' = "close"
  /\ UNCHANGED <<npu, op, fd, retried, todo, answer>>

(* close(fd): the kernel drops the handle table, and the op returns.       *)
Close ==
  /\ pc = "close"
  /\ fd' = "closed"
  /\ named' = {}
  /\ retried' = FALSE
  /\ pc' = "idle"
  /\ UNCHANGED <<mapped, mem, cache, view, npu, op, handles, todo, answer>>

-----------------------------------------------------------------------------
(* The cache acts on buffers that exist.                                   *)
CacheStep == \E b \in Buf :
  /\ handles[b] # None
  /\ Evict(b) \/ Prefetch(b)
  /\ UNCHANGED progVars

NpuStep == NpuExecute /\ UNCHANGED progVars

(* The program's own steps inside an operation.                            *)
OpStep ==
  \/ \E b \in Buf, o \in Obj : Alloc(b, o)
  \/ AllocRetry
  \/ AllocFails
  \/ BuildRegCmd
  \/ PackOperands
  \/ SyncToDevice
  \/ Submit
  \/ SubmitReturns
  \/ SubmitFails
  \/ SyncFromDevice
  \/ CopyOutput
  \/ CopyFails
  \/ Release
  \/ Close

Next ==
  \/ \E o \in Ops : Open(o)
  \/ OpenFails
  \/ OpStep
  \/ NpuStep
  \/ CacheStep
  \/ Exited

Spec == Init /\ [][Next]_vars

(***************************************************************************)
(* The program runs while it can, and a started job ends: by itself or by  *)
(* the timeout of the submit. Nothing is assumed of the cache, nor that    *)
(* another operation is ever started.                                      *)
(***************************************************************************)
FairSpec == Spec /\ WF_vars(OpStep) /\ WF_vars(NpuStep)

-----------------------------------------------------------------------------
(* Properties.                                                             *)

(***************************************************************************)
(* Between operations the process keeps no object alive, neither by a      *)
(* handle nor by a mapping, and no descriptor, whichever call of the last  *)
(* operation failed: every early return of the op functions goes through   *)
(* the release code and close.                                             *)
(***************************************************************************)
NothingHeldBetweenOps ==
  pc \in {"idle", "exited"} => named = {} /\ mapped = {} /\ fd = "closed"

(***************************************************************************)
(* Every mapping is recorded in the handles, each in one buffer only: a    *)
(* mapping nobody recorded survives even close(fd), and a shared one would *)
(* be unmapped and destroyed twice. The attempt createRegCmd repeats for   *)
(* the output and the failures inside mem_allocate are what could break it.*)
(***************************************************************************)
MappingsRecorded ==
  /\ mapped = Held
  /\ \A b1, b2 \in Buf : handles[b1] = handles[b2] /\ handles[b1] # None
                         => b1 = b2

(***************************************************************************)
(* While the NPU works on a job the program waits for it, and all four     *)
(* buffers stay alive and mapped: the blocking submit is what keeps the    *)
(* release code away from memory the NPU writes.                           *)
(***************************************************************************)
NpuMemoryAlive ==
  npu # "idle" => pc = "wait" /\ \A b \in Buf : handles[b] \in named \cap mapped

(***************************************************************************)
(* The release code itself destroys every handle, so that close(fd) finds  *)
(* an empty handle table unless a destroy call failed: a wrong obj_addr in *)
(* one of the mem_destroy calls, or one missing, is hidden by close.       *)
(***************************************************************************)
ReleasedBeforeClose ==
  pc = "close" /\ "destroy" \notin Faults => named = {}

(***************************************************************************)
(* An operation returns NULL or what the NPU computed from the operands of *)
(* this very operation: never the cleared output, what the pages held      *)
(* before, or a run on data that had not reached memory.                   *)
(***************************************************************************)
AnswerIsResult == answer \in {"none", "null", "checked", "result"}

(***************************************************************************)
(* Every operation that is started returns, whatever fails on the way.     *)
(***************************************************************************)
EveryOpReturns == (pc \notin {"idle", "exited"}) ~> (pc = "idle")

-----------------------------------------------------------------------------
(***************************************************************************)
(* OpContract, as this module implements it.                               *)
(***************************************************************************)
Phase ==
  CASE pc \in {"idle", "exited"} -> pc
    [] pc \in {"release", "close"} -> "settled"
    [] pc \in {"fetch", "copy"} \/ npu = "done" -> "computed"
    [] OTHER -> "busy"

Contract == INSTANCE OpContract
              WITH phase <- Phase, memory <- Live, result <- answer

(* Every behaviour of the operation is one its contract allows.            *)
ImplementsContract == Contract!ContractSpec
=============================================================================
