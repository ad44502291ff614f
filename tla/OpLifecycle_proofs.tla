------------------------- MODULE OpLifecycle_proofs -------------------------
(***************************************************************************)
(* Theorems about OpLifecycle, for every set of objects, every set of ops  *)
(* and every set of calls that may fail: that nothing leaks and no memory  *)
(* is freed under the NPU; then, for ops that sync what they must, that    *)
(* the answer is the NPU's result, and that OpLifecycle implements         *)
(* OpContract.                                                             *)
(***************************************************************************)
EXTENDS OpLifecycle, TLAPS

USE DEF Location, Answer, Buf, Content, LineState

LEMMA OpFields ==
  ASSUME NEW o \in Ops
  PROVE  /\ o.sync \in Seq(Buf)
         /\ o.clears \in BOOLEAN
         /\ o.submits \in BOOLEAN
         /\ o.copies \in BOOLEAN
         /\ o # None
  BY OpsAssumption DEF OpKind

(* The mirror of the device operators' types.                              *)
LEMMA CpuWriteType ==
  ASSUME DeviceTypeOK, NEW S \in SUBSET Buf, NEW val \in [Buf -> Content],
         CpuWrite(S, val)
  PROVE  /\ mem' \in [Buf -> Content]
         /\ cache' \in [Buf -> LineState]
         /\ view' \in [Buf -> Content]
  BY DEF CpuWrite, DeviceTypeOK

LEMMA CacheCleanType ==
  ASSUME DeviceTypeOK, NEW b \in Buf, CacheClean(b)
  PROVE  /\ mem' \in [Buf -> Content]
         /\ cache' \in [Buf -> LineState]
         /\ view' \in [Buf -> Content]
  BY DEF CacheClean, DeviceTypeOK, CpuView

LEMMA CacheInvalidateType ==
  ASSUME DeviceTypeOK, NEW b \in Buf, CacheInvalidate(b)
  PROVE  /\ mem' \in [Buf -> Content]
         /\ cache' \in [Buf -> LineState]
         /\ view' \in [Buf -> Content]
  BY DEF CacheInvalidate, DeviceTypeOK

-----------------------------------------------------------------------------
(* An op is known from its call to its return.                             *)
OpKnown == pc \notin {"idle", "exited"} => op \in Ops

(* Type correctness: no step stores anything but an object of the kernel,  *)
(* or zero, in the handles, and none reads a field of an op that is not    *)
(* there.                                                                  *)
LEMMA TypeStep ==
  ASSUME TypeOK, OpKnown, [Next]_vars
  PROVE  TypeOK' /\ OpKnown'
<1> USE DEF TypeOK, OpKnown
<1>1. ASSUME NEW o \in Ops, Open(o)
      PROVE  TypeOK' /\ OpKnown'
  BY <1>1 DEF Open, DeviceTypeOK, deviceVars
<1>2. CASE OpenFails
  BY <1>2 DEF OpenFails, DeviceTypeOK, deviceVars
<1>3. ASSUME NEW b \in Buf, NEW o \in Obj, Alloc(b, o)
      PROVE  TypeOK' /\ OpKnown'
  <2>1. /\ named' \in SUBSET Obj
        /\ mapped' \in SUBSET Obj
        /\ handles' \in [Buf -> Obj \cup {None}]
        /\ pc' \in Location \ {"idle", "exited"}
        /\ pc = "alloc"
        /\ UNCHANGED <<npu, op, fd, retried, todo, answer>>
    BY <1>3 DEF Alloc, MemAllocate, DeviceTypeOK
  <2>2. /\ mem' \in [Buf -> Content]
        /\ cache' \in [Buf -> LineState]
        /\ view' \in [Buf -> Content]
    BY <1>3 DEF Alloc, Fresh, InitialLine, DeviceTypeOK
  <2> QED BY <2>1, <2>2 DEF DeviceTypeOK
<1>4. ASSUME AllocRetry \/ AllocFails
      PROVE  TypeOK' /\ OpKnown'
  <2>1. named' \in SUBSET Obj
    BY <1>4 DEF AllocRetry, AllocFails, MemAllocateFails, MapFails, DeviceTypeOK
  <2>2. /\ UNCHANGED <<mapped, mem, cache, view, npu, op, fd, handles, todo>>
        /\ pc = "alloc" /\ pc' \in {"alloc", "release"}
        /\ retried' \in BOOLEAN /\ answer' \in Answer
    BY <1>4 DEF AllocRetry, AllocFails, MemAllocateFails
  <2> QED BY <2>1, <2>2 DEF DeviceTypeOK
<1>5. CASE BuildRegCmd
  <2> DEFINE val == [b \in Buf |-> IF b = "tasks" THEN "op" ELSE "regcmd"]
  <2>1. CpuWrite({"weights", "tasks"}, val)
    BY <1>5 DEF BuildRegCmd
  <2>2. val \in [Buf -> Content]
    OBVIOUS
  <2>3. /\ mem' \in [Buf -> Content]
        /\ cache' \in [Buf -> LineState]
        /\ view' \in [Buf -> Content]
    <3> HIDE DEF val
    <3> QED BY <2>1, <2>2, CpuWriteType DEF TypeOK
  <2>4. /\ UNCHANGED <<named, mapped, npu, op, fd, handles, retried, todo>>
        /\ pc = "build" /\ pc' \in {"pack", "release"} /\ answer' \in Answer
    BY <1>5 DEF BuildRegCmd
  <2> QED BY <2>3, <2>4 DEF DeviceTypeOK
<1>6. CASE PackOperands
  <2> DEFINE val == [b \in Buf |-> IF b = "output" THEN "zero" ELSE "op"]
  <2> DEFINE S == {"weights", "input"} \cup (IF op.clears THEN {"output"} ELSE {})
  <2>1. CpuWrite(S, val)
    BY <1>6 DEF PackOperands
  <2>2. val \in [Buf -> Content] /\ S \in SUBSET Buf
    OBVIOUS
  <2>3. /\ mem' \in [Buf -> Content]
        /\ cache' \in [Buf -> LineState]
        /\ view' \in [Buf -> Content]
    <3> HIDE DEF val, S
    <3> QED BY <2>1, <2>2, CpuWriteType DEF TypeOK
  <2>4. /\ UNCHANGED <<named, mapped, npu, op, fd, handles, retried, answer>>
        /\ pc = "pack" /\ pc' = "sync" /\ todo' = op.sync
    BY <1>6 DEF PackOperands
  <2>5. todo' \in Seq(Buf)
    BY <2>4, OpFields
  <2> QED BY <2>3, <2>4, <2>5 DEF DeviceTypeOK
<1>7. CASE SyncToDevice
  <2>1. /\ UNCHANGED <<named, mapped, npu, pc, op, fd, handles, retried, answer>>
        /\ todo # <<>> /\ todo' = Tail(todo)
        /\ CacheClean(Head(todo)) \/ UNCHANGED <<mem, cache, view>>
    BY <1>7 DEF SyncToDevice
  <2>2. Head(todo) \in Buf /\ todo' \in Seq(Buf)
    BY <2>1
  <2>3. /\ mem' \in [Buf -> Content]
        /\ cache' \in [Buf -> LineState]
        /\ view' \in [Buf -> Content]
    BY <2>1, <2>2, CacheCleanType DEF DeviceTypeOK
  <2> QED BY <2>1, <2>2, <2>3 DEF DeviceTypeOK
<1>8. ASSUME Submit \/ SubmitReturns \/ SubmitFails
      PROVE  TypeOK' /\ OpKnown'
  BY <1>8 DEF Submit, SubmitReturns, SubmitFails, DeviceTypeOK
<1>9. CASE SyncFromDevice
  <2>1. /\ UNCHANGED <<named, mapped, npu, op, fd, handles, retried, todo, answer>>
        /\ pc = "fetch" /\ pc' = "copy"
        /\ CacheInvalidate("output") \/ UNCHANGED <<mem, cache, view>>
    BY <1>9 DEF SyncFromDevice
  <2>2. /\ mem' \in [Buf -> Content]
        /\ cache' \in [Buf -> LineState]
        /\ view' \in [Buf -> Content]
    BY <2>1, CacheInvalidateType DEF DeviceTypeOK
  <2> QED BY <2>1, <2>2 DEF DeviceTypeOK
<1>10. ASSUME CopyOutput \/ CopyFails
       PROVE  TypeOK' /\ OpKnown'
  BY <1>10 DEF CopyOutput, CopyFails, CpuView, DeviceTypeOK, deviceVars
<1>11. CASE Release
  <2>1. named' \in SUBSET Obj /\ mapped' \in SUBSET Obj
    BY <1>11 DEF Release, DestroyResults, Held, DeviceTypeOK
  <2>2. /\ UNCHANGED <<npu, op, fd, retried, todo, answer>>
        /\ pc = "release" /\ pc' = "close"
        /\ handles' \in [Buf -> Obj \cup {None}]
        /\ mem' \in [Buf -> Content]
        /\ cache' \in [Buf -> LineState]
        /\ view' \in [Buf -> Content]
    BY <1>11 DEF Release
  <2> QED BY <2>1, <2>2 DEF DeviceTypeOK
<1>12. CASE Close
  BY <1>12 DEF Close, DeviceTypeOK
<1>13. CASE NpuStep
  BY <1>13 DEF NpuStep, NpuExecute, progVars, DeviceTypeOK
<1>14. CASE CacheStep
  <2>1. PICK b \in Buf : Evict(b) \/ Prefetch(b)
    BY <1>14 DEF CacheStep
  <2>2. UNCHANGED progVars
    BY <1>14 DEF CacheStep
  <2>3. /\ mem' \in [Buf -> Content]
        /\ cache' \in [Buf -> LineState]
        /\ view' \in [Buf -> Content]
        /\ UNCHANGED <<named, mapped, npu>>
    BY <2>1 DEF Evict, Prefetch, DeviceTypeOK
  <2> QED BY <2>2, <2>3 DEF progVars, DeviceTypeOK
<1>15. CASE Exited \/ UNCHANGED vars
  BY <1>15 DEF Exited, vars, progVars, deviceVars, DeviceTypeOK
<1> QED
  BY <1>1, <1>2, <1>3, <1>4, <1>5, <1>6, <1>7, <1>8, <1>9, <1>10, <1>11,
     <1>12, <1>13, <1>14, <1>15 DEF Next, OpStep

LEMMA InitTypes ==
  ASSUME Init
  PROVE  TypeOK /\ OpKnown
<1>1. DeviceTypeOK
  BY DEF Init, DeviceInit, DeviceTypeOK
<1>2. todo \in Seq(Buf) /\ handles \in [Buf -> Obj \cup {None}]
  BY DEF Init
<1> QED BY <1>1, <1>2 DEF Init, TypeOK, OpKnown

(* Every value a run of the driver stores has its type.                    *)
THEOREM TypeCorrect == Spec => []TypeOK
<1>1. Init => TypeOK /\ OpKnown
  BY InitTypes
<1>2. TypeOK /\ OpKnown /\ [Next]_vars => (TypeOK /\ OpKnown)'
  BY TypeStep
<1> QED BY <1>1, <1>2, PTL DEF Spec

-----------------------------------------------------------------------------
(***************************************************************************)
(* Where the program is determines which buffers have an object, and an    *)
(* object stays named until close.                                         *)
(***************************************************************************)
FdOpen == fd = "closed" <=> pc \in {"idle", "exited"}

HandlesByStage ==
  /\ pc \in {"idle", "exited", "close"} => \A b \in Buf : handles[b] = None
  /\ pc \in {"build", "pack", "sync", "wait", "fetch", "copy"}
       => \A b \in Buf : handles[b] # None

HeldNamed == Held \subseteq named

NoNames == pc \in {"idle", "exited"} => named = {}

JobByStage == npu # "idle" => pc = "wait"

Ownership ==
  /\ MappingsRecorded
  /\ FdOpen
  /\ HandlesByStage
  /\ HeldNamed
  /\ NoNames
  /\ JobByStage

LEMMA NextOutput ==
  ASSUME IsNext("output")
  PROVE  \A b \in Buf \ {"output"} : handles[b] # None
<1>1. PICK i \in 1..4 : /\ AllocOrder[i] = "output"
                       /\ \A j \in 1..(i - 1) : handles[AllocOrder[j]] # None
  BY DEF IsNext
<1>2. i = 4
  BY <1>1 DEF AllocOrder
<1>3. /\ handles["tasks"] # None
      /\ handles["weights"] # None
      /\ handles["input"] # None
  <2>1. 1 \in 1..(i - 1) /\ 2 \in 1..(i - 1) /\ 3 \in 1..(i - 1)
    BY <1>2
  <2> QED BY <1>1, <2>1 DEF AllocOrder
<1> QED BY <1>3

LEMMA OwnershipStep ==
  ASSUME TypeOK, OpKnown, Ownership, [Next]_vars
  PROVE  Ownership'
<1> USE DEF TypeOK, DeviceTypeOK, Ownership
(* Steps that leave objects and handles alone.                             *)
<1> DEFINE Kept == UNCHANGED <<named, mapped, handles>>
<1>0. ASSUME Kept,
             FdOpen', HandlesByStage', NoNames', JobByStage'
      PROVE  Ownership'
  BY <1>0 DEF MappingsRecorded, HeldNamed, Held
<1>1. ASSUME NEW o \in Ops, Open(o)
      PROVE  Ownership'
  BY <1>0, <1>1 DEF Open, deviceVars, FdOpen, HandlesByStage, NoNames, JobByStage
<1>2. CASE OpenFails
  BY <1>0, <1>2 DEF OpenFails, deviceVars, FdOpen, HandlesByStage, NoNames, JobByStage
<1>3. ASSUME NEW b \in Buf, NEW o \in Obj, Alloc(b, o)
      PROVE  Ownership'
  <2>1. /\ pc = "alloc"
        /\ o \notin named \cup mapped
        /\ named' = named \cup {o}
        /\ mapped' = mapped \cup {o}
        /\ handles' = [handles EXCEPT ![b] = o]
        /\ pc' = IF b = "output" THEN "build" ELSE "alloc"
        /\ UNCHANGED <<npu, fd>>
    BY <1>3 DEF Alloc, MemAllocate, Live
  <2>2. handles[b] = None /\ o # None
    BY <1>3, DeviceAssumption DEF Alloc, IsNext
  <2>3. Held' = Held \cup {o}
    BY <2>1, <2>2 DEF Held
  <2>4. MappingsRecorded'
    <3>1. mapped' = Held'
      BY <2>1, <2>3 DEF MappingsRecorded
    <3>2. ASSUME NEW b1 \in Buf, NEW b2 \in Buf,
                 handles'[b1] = handles'[b2], handles'[b1] # None
          PROVE  b1 = b2
      <4>1. \A c \in Buf : handles[c] # o
        BY <2>1, <2>2 DEF MappingsRecorded, Held
      <4> QED BY <2>1, <3>2, <4>1 DEF MappingsRecorded
    <3> QED BY <3>1, <3>2 DEF MappingsRecorded
  <2>5. HandlesByStage'
    <3>1. CASE b = "output"
      <4>1. \A c \in Buf \ {"output"} : handles[c] # None
        BY <1>3, <3>1, NextOutput DEF Alloc
      <4> QED BY <2>1, <2>2, <3>1, <4>1 DEF HandlesByStage
    <3>2. CASE b # "output"
      BY <2>1, <3>2 DEF HandlesByStage
    <3> QED BY <3>1, <3>2
  <2>6. HeldNamed' /\ FdOpen' /\ NoNames' /\ JobByStage'
    BY <2>1, <2>3 DEF HeldNamed, FdOpen, NoNames, JobByStage
  <2> QED BY <2>4, <2>5, <2>6
<1>4. ASSUME AllocRetry \/ AllocFails
      PROVE  Ownership'
  <2>1. /\ named \subseteq named'
        /\ pc = "alloc" /\ pc' \in {"alloc", "release"}
        /\ UNCHANGED <<mapped, npu, handles, fd>>
    BY <1>4 DEF AllocRetry, AllocFails, MemAllocateFails, MapFails
  <2>2. MappingsRecorded' /\ HeldNamed'
    BY <2>1 DEF MappingsRecorded, HeldNamed, Held
  <2> QED BY <2>1, <2>2 DEF FdOpen, HandlesByStage, NoNames, JobByStage
<1>5. ASSUME BuildRegCmd \/ PackOperands \/ SyncToDevice
      PROVE  Ownership'
  <2>1. Kept /\ UNCHANGED <<npu, fd>>
    BY <1>5 DEF BuildRegCmd, PackOperands, SyncToDevice
  <2>2. /\ pc \in {"build", "pack", "sync"}
        /\ pc' \in {"pack", "release", "sync"}
    BY <1>5 DEF BuildRegCmd, PackOperands, SyncToDevice
  <2> QED BY <1>0, <2>1, <2>2 DEF FdOpen, HandlesByStage, NoNames, JobByStage
<1>6. ASSUME Submit \/ SubmitReturns \/ SubmitFails
      PROVE  Ownership'
  <2>1. Kept /\ UNCHANGED fd
    BY <1>6 DEF Submit, SubmitReturns, SubmitFails
  <2>2. \/ pc = "sync" /\ pc' = "wait"
        \/ pc = "wait" /\ pc' \in {"fetch", "release"} /\ npu' = "idle"
    BY <1>6 DEF Submit, SubmitReturns, SubmitFails
  <2> QED BY <1>0, <2>1, <2>2 DEF FdOpen, HandlesByStage, NoNames, JobByStage
<1>7. ASSUME SyncFromDevice \/ CopyOutput \/ CopyFails
      PROVE  Ownership'
  <2>1. Kept /\ UNCHANGED <<npu, fd>>
    BY <1>7 DEF SyncFromDevice, CopyOutput, CopyFails, deviceVars
  <2>2. /\ pc \in {"fetch", "copy"}
        /\ pc' \in {"copy", "release"}
    BY <1>7 DEF SyncFromDevice, CopyOutput, CopyFails
  <2> QED BY <1>0, <2>1, <2>2 DEF FdOpen, HandlesByStage, NoNames, JobByStage
<1>8. CASE Release
  <2>1. /\ pc = "release" /\ pc' = "close"
        /\ mapped' = mapped \ Held
        /\ handles' = [b \in Buf |-> None]
        /\ UNCHANGED <<npu, fd>>
    BY <1>8 DEF Release
  <2>2. Held' = {} /\ mapped' = {}
    BY <2>1 DEF Held, MappingsRecorded
  <2>3. MappingsRecorded' /\ HeldNamed' /\ HandlesByStage'
    BY <2>1, <2>2 DEF MappingsRecorded, HeldNamed, HandlesByStage
  <2> QED BY <2>1, <2>3 DEF FdOpen, NoNames, JobByStage
<1>9. CASE Close
  <2>1. /\ pc = "close" /\ pc' = "idle" /\ fd' = "closed"
        /\ named' = {}
        /\ UNCHANGED <<mapped, npu, handles>>
    BY <1>9 DEF Close
  <2>2. Held' = {} /\ Held = {}
    BY <2>1 DEF Held, HandlesByStage
  <2>3. MappingsRecorded' /\ HeldNamed'
    BY <2>1, <2>2 DEF MappingsRecorded, HeldNamed
  <2> QED BY <2>1, <2>3 DEF FdOpen, NoNames, JobByStage, HandlesByStage
<1>10. CASE NpuStep
  <2>1. Kept /\ UNCHANGED <<pc, fd>> /\ npu # "idle"
    BY <1>10 DEF NpuStep, NpuExecute, progVars
  <2> QED BY <1>0, <2>1 DEF FdOpen, HandlesByStage, NoNames, JobByStage
<1>11. CASE CacheStep
  <2>1. Kept /\ UNCHANGED <<pc, fd, npu>>
    BY <1>11 DEF CacheStep, Evict, Prefetch, progVars
  <2> QED BY <1>0, <2>1 DEF FdOpen, HandlesByStage, NoNames, JobByStage
<1>12. CASE Exited \/ UNCHANGED vars
  <2>1. Kept /\ UNCHANGED <<pc, fd, npu>>
    BY <1>12 DEF Exited, vars, progVars, deviceVars
  <2> QED BY <1>0, <2>1 DEF FdOpen, HandlesByStage, NoNames, JobByStage
<1> QED
  BY <1>1, <1>2, <1>3, <1>4, <1>5, <1>6, <1>7, <1>8, <1>9, <1>10, <1>11,
     <1>12 DEF Next, OpStep

LEMMA OwnershipCorrect == Spec => [](TypeOK /\ OpKnown /\ Ownership)
<1>1. Init => TypeOK /\ OpKnown
  BY InitTypes
<1>2. Init => Ownership
  BY DEF Init, DeviceInit, Ownership, MappingsRecorded, Held, FdOpen,
         HandlesByStage, HeldNamed, NoNames, JobByStage
<1>3. TypeOK /\ OpKnown /\ Ownership /\ [Next]_vars
        => (TypeOK /\ OpKnown /\ Ownership)'
  BY TypeStep, OwnershipStep
<1> QED BY <1>1, <1>2, <1>3, PTL DEF Spec

(* No operation leaves an object, a mapping or a descriptor behind.        *)
THEOREM NoLeak == Spec => []NothingHeldBetweenOps
<1>1. Ownership => NothingHeldBetweenOps
  BY DEF Ownership, NothingHeldBetweenOps, MappingsRecorded, HandlesByStage,
         NoNames, FdOpen, Held
<1> QED BY <1>1, OwnershipCorrect, PTL

(* The handles record every mapping, each once.                            *)
THEOREM MappingsAlwaysRecorded == Spec => []MappingsRecorded
<1>1. Ownership => MappingsRecorded
  BY DEF Ownership
<1> QED BY <1>1, OwnershipCorrect, PTL

(* The NPU never works on memory that was released.                        *)
THEOREM NpuMemorySafe == Spec => []NpuMemoryAlive
<1>1. TypeOK /\ Ownership => NpuMemoryAlive
  BY DEF Ownership, NpuMemoryAlive, MappingsRecorded, HandlesByStage,
         HeldNamed, JobByStage, Held, TypeOK
<1> QED BY <1>1, OwnershipCorrect, PTL

-----------------------------------------------------------------------------
(* Where no destroy fails, the handle table holds what the op holds, also  *)
(* between the two attempts for the output.                                *)
OnlyHeldNamed == "destroy" \notin Faults => named = Held

LEMMA OnlyHeldNamedStep ==
  ASSUME TypeOK, OpKnown, Ownership, OnlyHeldNamed, [Next]_vars
  PROVE  OnlyHeldNamed'
<1> USE DEF OnlyHeldNamed
<1> SUFFICES ASSUME "destroy" \notin Faults
             PROVE  named' = Held'
  OBVIOUS
<1>0. ASSUME UNCHANGED <<named, handles>>
      PROVE  named' = Held'
  BY <1>0 DEF Held
<1>1. ASSUME NEW b \in Buf, NEW o \in Obj, Alloc(b, o)
      PROVE  named' = Held'
  <2>1. named' = named \cup {o} /\ handles' = [handles EXCEPT ![b] = o]
    BY <1>1 DEF Alloc, MemAllocate
  <2>2. handles[b] = None /\ o # None /\ handles \in [Buf -> Obj \cup {None}]
    BY <1>1, DeviceAssumption DEF Alloc, IsNext, TypeOK
  <2>3. Held' = Held \cup {o}
    BY <2>1, <2>2 DEF Held
  <2> QED BY <2>1, <2>3
<1>2. ASSUME AllocRetry \/ AllocFails
      PROVE  named' = Held'
  BY <1>0, <1>2 DEF AllocRetry, AllocFails, MemAllocateFails, MapFails
<1>3. CASE Release
  <2>1. named' = named \ Held /\ handles' = [b \in Buf |-> None]
    BY <1>3 DEF Release, DestroyResults
  <2> QED BY <2>1 DEF Held
<1>4. CASE Close
  <2>1. Held' = {} /\ named' = {}
    BY <1>4 DEF Close, Held, Ownership, HandlesByStage
  <2> QED BY <2>1
<1>5. ASSUME \/ BuildRegCmd \/ PackOperands \/ SyncToDevice \/ Submit
             \/ SubmitReturns \/ SubmitFails \/ SyncFromDevice
             \/ CopyOutput \/ CopyFails
      PROVE  named' = Held'
  BY <1>0, <1>5 DEF BuildRegCmd, PackOperands, SyncToDevice, Submit,
     SubmitReturns, SubmitFails, SyncFromDevice, CopyOutput, CopyFails,
     deviceVars
<1>6. ASSUME (\E o \in Ops : Open(o)) \/ OpenFails \/ NpuStep \/ CacheStep
             \/ Exited \/ UNCHANGED vars
      PROVE  named' = Held'
  BY <1>0, <1>6 DEF Open, OpenFails, NpuStep, NpuExecute, CacheStep, Evict,
     Prefetch, Exited, vars, progVars, deviceVars
<1> QED BY <1>1, <1>2, <1>3, <1>4, <1>5, <1>6 DEF Next, OpStep

(* Unless a destroy fails, the release code leaves nothing to close(fd).   *)
THEOREM ReleaseComplete == Spec => []ReleasedBeforeClose
<1>1. Init => OnlyHeldNamed
  BY DEF Init, DeviceInit, OnlyHeldNamed, Held
<1>2. TypeOK /\ OpKnown /\ Ownership /\ OnlyHeldNamed /\ [Next]_vars
        => OnlyHeldNamed'
  BY OnlyHeldNamedStep
<1>3. Ownership /\ OnlyHeldNamed => ReleasedBeforeClose
  BY DEF Ownership, HandlesByStage, OnlyHeldNamed, ReleasedBeforeClose, Held
<1> QED BY <1>1, <1>2, <1>3, OwnershipCorrect, PTL DEF Spec

-----------------------------------------------------------------------------
(***************************************************************************)
(* The answer of an op is the NPU's result, for every op that syncs its    *)
(* operands and, if it clears the output, the output too, whatever the     *)
(* cache does in between. A sync may fail for its size only: the code goes *)
(* on when both attempts fail.                                             *)
(***************************************************************************)
Syncs(o, b) == \E i \in 1..Len(o.sync) : o.sync[i] = b

KeepsOutputClean(o) ==
  o.submits => /\ Syncs(o, "weights") /\ Syncs(o, "input")
               /\ o.clears => Syncs(o, "output")

CleanDevice ==
  /\ "sync" \notin Faults
  /\ \A o \in Ops : KeepsOutputClean(o)

(* A buffer whose sync to the device is still to come.                     *)
Awaits(b) == \E i \in 1..Len(todo) : todo[i] = b

Operands == {"weights", "input"}

(* Only the task table is uncached, and what the CPU wrote is in memory.   *)
TasksUncached ==
  /\ \A b \in Buf : cache[b] = "uncached" => b = "tasks"
  /\ handles["tasks"] # None => cache["tasks"] = "uncached"
  /\ pc \in {"pack", "sync", "wait"} => mem["tasks"] = "op"

(* The CPU sees this op's operands, and so does the NPU where no dirty     *)
(* line is in between.                                                     *)
OperandsWritten ==
  pc \in {"sync", "wait"} =>
    \A b \in Operands : /\ CpuView(b) = "op"
                        /\ cache[b] # "dirty" => mem[b] = "op"

(* No line is dirty whose sync is over, nor the output's before the pack.  *)
SyncedClean ==
  /\ pc \in {"idle", "exited", "alloc", "build", "pack", "close"}
       => cache["output"] # "dirty"
  /\ pc \in {"sync", "wait", "fetch", "copy"}
       => \A b \in Operands \cup {"output"} : ~Awaits(b) => cache[b] # "dirty"
  /\ pc \in {"wait", "fetch", "copy"} => todo = <<>>

OutputWritten ==
  /\ npu = "done" \/ pc \in {"fetch", "copy"} => mem["output"] = "result"
  /\ pc = "copy" /\ Present("output") => view["output"] = "result"

CacheInv ==
  /\ pc = "pack" => op.submits
  /\ TasksUncached
  /\ OperandsWritten
  /\ SyncedClean
  /\ OutputWritten
  /\ AnswerIsResult

LEMMA SyncSucceeds ==
  ASSUME CleanDevice
  PROVE  MemSync = {TRUE}
  BY DEF CleanDevice, MemSync, Attempt

(* With one buffer synced, every other one that no longer waits has not    *)
(* been waiting.                                                           *)
LEMMA AwaitsTail ==
  ASSUME TypeOK, todo # <<>>, todo' = Tail(todo), NEW b, Awaits(b)
  PROVE  b = Head(todo) \/ Awaits(b)'
<1>1. PICK i \in 1..Len(todo) : todo[i] = b
  BY DEF Awaits
<1>2. todo \in Seq(Buf) /\ Len(todo) \in Nat
  BY DEF TypeOK
<1>3. CASE i = 1
  BY <1>1, <1>2, <1>3
<1>4. CASE i # 1
  <2>1. i - 1 \in 1..Len(Tail(todo)) /\ Tail(todo)[i - 1] = b
    BY <1>1, <1>2, <1>4
  <2> QED BY <2>1 DEF Awaits
<1> QED BY <1>3, <1>4

-----------------------------------------------------------------------------
(* The steps of the device.                                                *)

LEMMA EvictKeeps ==
  ASSUME TypeOK, CacheInv, NEW b \in Buf, Ownership,
         Evict(b), UNCHANGED progVars
  PROVE  CacheInv'
<1> USE DEF TypeOK, DeviceTypeOK, Buf
<1>1. /\ cache' = [cache EXCEPT ![b] = "absent"]
      /\ view' = [view EXCEPT ![b] = "stale"]
      /\ mem' = [mem EXCEPT ![b] = IF cache[b] = "dirty" THEN view[b] ELSE @]
      /\ Present(b)
      /\ UNCHANGED <<npu, pc, op, handles, todo, answer>>
  BY DEF Evict, progVars
<1>2. b # "tasks" \/ handles["tasks"] = None
  BY <1>1 DEF CacheInv, TasksUncached, Present
<1>3. TasksUncached'
  <2>1. pc \in {"pack", "sync", "wait"} => handles["tasks"] # None
    BY DEF Ownership, HandlesByStage
  <2> QED BY <1>1, <1>2, <2>1 DEF CacheInv, TasksUncached
<1>4. OperandsWritten'
  BY <1>1 DEF CacheInv, OperandsWritten, CpuView, Present, Operands
<1>5. SyncedClean'
  BY <1>1 DEF CacheInv, SyncedClean, Awaits, Operands
<1>6. OutputWritten'
  <2>1. npu = "done" \/ pc \in {"fetch", "copy"}
          => todo = <<>> /\ pc \in {"wait", "fetch", "copy"}
    BY DEF CacheInv, SyncedClean, Ownership, JobByStage
  <2>2. npu = "done" \/ pc \in {"fetch", "copy"} => cache["output"] # "dirty"
    BY <2>1 DEF CacheInv, SyncedClean, Awaits
  <2> QED BY <1>1, <2>2 DEF CacheInv, OutputWritten, Present
<1> QED BY <1>1, <1>3, <1>4, <1>5, <1>6 DEF CacheInv, AnswerIsResult

LEMMA PrefetchKeeps ==
  ASSUME TypeOK, CacheInv, NEW b \in Buf, handles[b] # None,
         Prefetch(b), UNCHANGED progVars
  PROVE  CacheInv'
<1> USE DEF TypeOK, DeviceTypeOK, Buf
<1>1. /\ cache[b] = "absent"
      /\ cache' = [cache EXCEPT ![b] = "clean"]
      /\ view' = [view EXCEPT ![b] = mem[b]]
      /\ UNCHANGED <<mem, npu, pc, op, handles, todo, answer>>
  BY DEF Prefetch, progVars
<1>2. b # "tasks"
  BY <1>1 DEF CacheInv, TasksUncached
<1>3. TasksUncached'
  BY <1>1, <1>2 DEF CacheInv, TasksUncached
<1>4. OperandsWritten'
  BY <1>1 DEF CacheInv, OperandsWritten, CpuView, Present, Operands
<1>5. SyncedClean'
  BY <1>1 DEF CacheInv, SyncedClean, Awaits, Operands
<1>6. OutputWritten'
  BY <1>1 DEF CacheInv, OutputWritten, Present
<1> QED BY <1>1, <1>3, <1>4, <1>5, <1>6 DEF CacheInv, AnswerIsResult

(* A job reads nothing but the operands of this op.                        *)
LEMMA NpuKeeps ==
  ASSUME TypeOK, CacheInv, Ownership, NpuStep
  PROVE  CacheInv'
<1> USE DEF TypeOK, DeviceTypeOK, Buf
<1>1. /\ npu = "running" /\ npu' = "done"
      /\ mem' = [mem EXCEPT !["output"] =
                   IF \A b \in NpuReads : mem[b] = "op"
                   THEN "result" ELSE "garbage"]
      /\ UNCHANGED <<cache, view, pc, op, handles, todo, answer>>
  BY DEF NpuStep, NpuExecute, progVars
<1>2. pc = "wait" /\ todo = <<>>
  BY <1>1 DEF Ownership, JobByStage, CacheInv, SyncedClean
<1>3. \A b \in NpuReads : mem[b] = "op"
  <2>1. \A b \in Operands : cache[b] # "dirty"
    BY <1>2 DEF CacheInv, SyncedClean, Awaits
  <2> QED BY <1>2, <2>1 DEF CacheInv, OperandsWritten, TasksUncached, Operands, NpuReads
<1>4. mem' = [mem EXCEPT !["output"] = "result"]
  BY <1>1, <1>3
<1>5. TasksUncached' /\ SyncedClean'
  BY <1>1, <1>4 DEF CacheInv, TasksUncached, SyncedClean, Awaits
<1>6. OperandsWritten'
  BY <1>1, <1>4 DEF CacheInv, OperandsWritten, CpuView, Present, Operands
<1>7. OutputWritten'
  BY <1>1, <1>2, <1>4 DEF OutputWritten
<1> QED BY <1>1, <1>5, <1>6, <1>7 DEF CacheInv, AnswerIsResult

-----------------------------------------------------------------------------
(* The steps of the program.                                               *)

LEMMA PackKeeps ==
  ASSUME TypeOK, OpKnown, CacheInv, Ownership, CleanDevice, PackOperands
  PROVE  CacheInv'
<1> USE DEF TypeOK, DeviceTypeOK, Buf
<1> DEFINE S == Operands \cup (IF op.clears THEN {"output"} ELSE {})
           val == [b \in Buf |-> IF b = "output" THEN "zero" ELSE "op"]
<1>1. /\ pc = "pack" /\ pc' = "sync"
      /\ todo' = op.sync
      /\ CpuWrite(S, val)
      /\ UNCHANGED <<npu, op, handles, answer>>
  BY DEF PackOperands, Operands
<1>2. "tasks" \notin S /\ \A b \in Operands : b \in S /\ val[b] = "op"
  BY DEF Operands
<1>3. "output" \in S => op.clears
  BY DEF Operands
<1> HIDE DEF S, val
<1>4. TasksUncached'
  BY <1>1, <1>2 DEF CacheInv, TasksUncached, CpuWrite
<1>5. OperandsWritten'
  <2>1. \A b \in Operands : cache[b] # "uncached"
    BY DEF CacheInv, TasksUncached, Operands
  <2> QED BY <1>1, <1>2, <2>1
          DEF CpuWrite, OperandsWritten, CpuView, Present, Operands
<1>6. SyncedClean'
  <2>1. \A b \in Operands : Awaits(b)'
    BY <1>1 DEF CacheInv, OpKnown, CleanDevice, KeepsOutputClean, Syncs,
                Awaits, Operands
  <2>2. op.clears => Awaits("output")'
    BY <1>1 DEF CacheInv, OpKnown, CleanDevice, KeepsOutputClean, Syncs, Awaits
  <2>3. ~op.clears => cache'["output"] # "dirty"
    BY <1>1, <1>3 DEF CacheInv, SyncedClean, CpuWrite
  <2> QED BY <1>1, <1>3, <2>1, <2>2, <2>3 DEF SyncedClean
<1>7. OutputWritten'
  BY <1>1 DEF OutputWritten, Ownership, JobByStage
<1> QED BY <1>1, <1>4, <1>5, <1>6, <1>7 DEF CacheInv, AnswerIsResult

LEMMA SyncKeeps ==
  ASSUME TypeOK, CacheInv, Ownership, CleanDevice, SyncToDevice
  PROVE  CacheInv'
<1> USE DEF TypeOK, DeviceTypeOK, Buf
<1> DEFINE h == Head(todo)
<1>0. CacheClean(h)
  <2>1. PICK done \in MemSync :
          IF done THEN CacheClean(h) ELSE UNCHANGED <<mem, cache, view>>
    BY DEF SyncToDevice
  <2>2. done = TRUE
    BY SyncSucceeds
  <2> QED BY ONLY <2>1, <2>2
<1>1. /\ pc = "sync" /\ todo # <<>> /\ todo' = Tail(todo)
      /\ mem' = [mem EXCEPT ![h] = CpuView(h)]
      /\ cache' = [cache EXCEPT ![h] = IF @ = "dirty" THEN "clean" ELSE @]
      /\ UNCHANGED <<view, npu, pc, op, handles, answer>>
  BY <1>0 DEF SyncToDevice, CacheClean
<1>2. h \in Buf
  BY <1>1
<1>3. handles["tasks"] # None
  BY <1>1 DEF Ownership, HandlesByStage
<1>4. TasksUncached'
  BY <1>1, <1>2, <1>3 DEF CacheInv, TasksUncached, CpuView, Present
<1>5. OperandsWritten'
  BY <1>1, <1>2 DEF CacheInv, OperandsWritten, CpuView, Present, Operands
<1>6. SyncedClean'
  <2>1. ASSUME NEW b \in Operands \cup {"output"}, ~Awaits(b)'
        PROVE  cache'[b] # "dirty"
    <3>1. CASE b = h
      BY <1>1, <1>2, <3>1
    <3>2. CASE b # h
      <4>1. ~Awaits(b)
        BY <1>1, <2>1, <3>2, AwaitsTail
      <4>2. cache'[b] = cache[b]
        BY <1>1, <3>2
      <4> QED BY <1>1, <4>1, <4>2 DEF CacheInv, SyncedClean
    <3> QED BY <3>1, <3>2
  <2> QED BY <1>1, <2>1 DEF SyncedClean
<1>7. OutputWritten'
  BY <1>1 DEF OutputWritten, Ownership, JobByStage
<1> QED BY <1>1, <1>4, <1>5, <1>6, <1>7 DEF CacheInv, AnswerIsResult

LEMMA FetchKeeps ==
  ASSUME TypeOK, CacheInv, CleanDevice, SyncFromDevice \/ CopyOutput \/ CopyFails
  PROVE  CacheInv'
<1> USE DEF TypeOK, DeviceTypeOK, Buf
<1>1. CASE SyncFromDevice
  <2>0. CacheInvalidate("output")
    <3>1. PICK done \in MemSync : IF done THEN CacheInvalidate("output")
                                   ELSE UNCHANGED <<mem, cache, view>>
      BY <1>1 DEF SyncFromDevice
    <3>2. done = TRUE
      BY SyncSucceeds
    <3> QED BY ONLY <3>1, <3>2
  <2>1. /\ pc = "fetch" /\ pc' = "copy"
        /\ cache' = [cache EXCEPT !["output"] = IF @ = "uncached" THEN @ ELSE "absent"]
        /\ UNCHANGED <<mem, npu, op, handles, todo, answer>>
    BY <1>1, <2>0 DEF SyncFromDevice, CacheInvalidate
  <2>2. TasksUncached' /\ OperandsWritten' /\ OutputWritten'
    BY <2>1 DEF CacheInv, TasksUncached, OperandsWritten, OutputWritten, Present
  <2>3. SyncedClean'
    BY <2>1 DEF CacheInv, SyncedClean, Awaits, Operands
  <2> QED BY <2>1, <2>2, <2>3 DEF CacheInv, AnswerIsResult
<1>2. CASE CopyOutput \/ CopyFails
  <2>1. /\ pc = "copy" /\ pc' = "release"
        /\ answer' \in {CpuView("output"), "null"}
        /\ UNCHANGED <<mem, cache, view, npu, op, handles, todo>>
    BY <1>2 DEF CopyOutput, CopyFails, deviceVars
  <2>2. answer' \in {"result", "null"}
    BY <2>1 DEF CacheInv, OutputWritten, CpuView
  <2>3. TasksUncached' /\ OperandsWritten' /\ SyncedClean' /\ OutputWritten'
    BY <2>1 DEF CacheInv, TasksUncached, OperandsWritten, SyncedClean, OutputWritten
  <2> QED BY <2>1, <2>2, <2>3 DEF CacheInv, AnswerIsResult
<1> QED BY <1>1, <1>2

LEMMA SubmitKeeps ==
  ASSUME TypeOK, CacheInv, Ownership, Submit \/ SubmitReturns \/ SubmitFails
  PROVE  CacheInv'
<1>1. /\ \/ pc = "sync" /\ todo = <<>> /\ pc' = "wait" /\ npu' = "running"
            /\ answer' = answer
         \/ pc = "wait" /\ npu = "done" /\ pc' = "fetch" /\ npu' = "idle"
            /\ answer' = answer
         \/ pc = "wait" /\ pc' = "release" /\ npu' = "idle" /\ answer' = "null"
      /\ UNCHANGED <<mem, cache, view, op, handles, todo>>
  BY DEF Submit, SubmitReturns, SubmitFails
<1>2. TasksUncached' /\ OperandsWritten'
  BY <1>1 DEF CacheInv, TasksUncached, OperandsWritten, CpuView, Present
<1>3. SyncedClean'
  BY <1>1 DEF CacheInv, SyncedClean, Awaits
<1>4. OutputWritten'
  BY <1>1 DEF CacheInv, OutputWritten
<1> QED BY <1>1, <1>2, <1>3, <1>4 DEF CacheInv, AnswerIsResult

LEMMA AllocKeeps ==
  ASSUME TypeOK, CacheInv, Ownership,
         \/ \E b \in Buf, o \in Obj : Alloc(b, o)
         \/ AllocRetry
         \/ AllocFails
  PROVE  CacheInv'
<1> USE DEF TypeOK, DeviceTypeOK, Buf
<1>1. ASSUME NEW b \in Buf, NEW o \in Obj, Alloc(b, o)
      PROVE  CacheInv'
  <2>1. /\ pc = "alloc" /\ pc' \in {"alloc", "build"}
        /\ handles' = [handles EXCEPT ![b] = o]
        /\ cache' = [cache EXCEPT ![b] = InitialLine(b)]
        /\ UNCHANGED <<npu, op, todo, answer>>
    BY <1>1 DEF Alloc, Fresh
  <2>2. TasksUncached' /\ SyncedClean'
    BY <2>1 DEF CacheInv, TasksUncached, SyncedClean, InitialLine
  <2>3. OperandsWritten' /\ OutputWritten'
    BY <2>1 DEF OperandsWritten, OutputWritten, Ownership, JobByStage
  <2> QED BY <2>1, <2>2, <2>3 DEF CacheInv, AnswerIsResult
<1>2. CASE AllocRetry \/ AllocFails
  <2>1. /\ pc = "alloc" /\ pc' \in {"alloc", "release"}
        /\ answer' \in {answer, "null"}
        /\ UNCHANGED <<mem, cache, view, npu, op, handles, todo>>
    BY <1>2 DEF AllocRetry, AllocFails, MemAllocateFails
  <2>2. TasksUncached' /\ SyncedClean' /\ OperandsWritten' /\ OutputWritten'
    BY <2>1 DEF CacheInv, TasksUncached, SyncedClean, OperandsWritten,
                OutputWritten, Ownership, JobByStage
  <2> QED BY <2>1, <2>2 DEF CacheInv, AnswerIsResult
<1> QED BY <1>1, <1>2

LEMMA BuildKeeps ==
  ASSUME TypeOK, CacheInv, Ownership, BuildRegCmd
  PROVE  CacheInv'
<1> USE DEF TypeOK, DeviceTypeOK, Buf
<1>1. /\ pc = "build"
      /\ CpuWrite({"weights", "tasks"},
                  [b \in Buf |-> IF b = "tasks" THEN "op" ELSE "regcmd"])
      /\ \/ op.submits /\ pc' = "pack" /\ answer' = answer
         \/ pc' = "release" /\ answer' = "checked"
      /\ UNCHANGED <<npu, op, handles, todo>>
  BY DEF BuildRegCmd
<1>2. cache["tasks"] = "uncached"
  BY <1>1 DEF CacheInv, TasksUncached, Ownership, HandlesByStage
<1>3. TasksUncached' /\ SyncedClean'
  BY <1>1, <1>2 DEF CacheInv, TasksUncached, SyncedClean, CpuWrite
<1>4. OperandsWritten' /\ OutputWritten'
  BY <1>1 DEF OperandsWritten, OutputWritten, Ownership, JobByStage
<1> QED BY <1>1, <1>3, <1>4 DEF CacheInv, AnswerIsResult

LEMMA ReleaseKeeps ==
  ASSUME TypeOK, CacheInv, Ownership, Release
  PROVE  CacheInv'
<1>1. /\ pc = "release" /\ pc' = "close"
      /\ cache' = [b \in Buf |-> "absent"]
      /\ handles' = [b \in Buf |-> None]
      /\ UNCHANGED <<npu, op, todo, answer>>
  BY DEF Release
<1>2. TasksUncached' /\ SyncedClean'
  BY <1>1 DEF TasksUncached, SyncedClean, Buf
<1>3. OperandsWritten' /\ OutputWritten'
  BY <1>1 DEF OperandsWritten, OutputWritten, Ownership, JobByStage
<1> QED BY <1>1, <1>2, <1>3 DEF CacheInv, AnswerIsResult

(* The steps that begin and end an op touch no buffer.                     *)
LEMMA CallKeeps ==
  ASSUME TypeOK, CacheInv, Ownership,
         \/ \E o \in Ops : Open(o)
         \/ OpenFails
         \/ Close
         \/ Exited
         \/ UNCHANGED vars
  PROVE  CacheInv'
<1>1. CASE UNCHANGED vars
  BY <1>1 DEF vars, progVars, deviceVars, CacheInv, TasksUncached,
              OperandsWritten, SyncedClean, OutputWritten, AnswerIsResult,
              CpuView, Present, Awaits
<1>2. CASE Exited
  BY <1>1, <1>2 DEF Exited
<1>3. CASE (\E o \in Ops : Open(o)) \/ OpenFails \/ Close
  <2>1. /\ pc \in {"idle", "close"} /\ pc' \in {"alloc", "exited", "idle"}
        /\ answer' \in {answer, "none"}
        /\ UNCHANGED <<mem, cache, view, npu, handles, todo>>
    BY <1>3 DEF Open, OpenFails, Close, deviceVars
  <2>2. TasksUncached' /\ SyncedClean' /\ OperandsWritten' /\ OutputWritten'
    BY <2>1 DEF CacheInv, TasksUncached, SyncedClean, OperandsWritten,
                OutputWritten, Ownership, JobByStage
  <2> QED BY <2>1, <2>2 DEF CacheInv, AnswerIsResult
<1> QED BY <1>1, <1>2, <1>3

-----------------------------------------------------------------------------
LEMMA CacheInvStep ==
  ASSUME TypeOK, OpKnown, Ownership, CacheInv, CleanDevice, [Next]_vars
  PROVE  CacheInv'
<1>1. CASE CacheStep
  BY <1>1, EvictKeeps, PrefetchKeeps DEF CacheStep
<1>2. CASE OpStep
  BY <1>2, AllocKeeps, BuildKeeps, PackKeeps, SyncKeeps, SubmitKeeps,
     FetchKeeps, ReleaseKeeps, CallKeeps DEF OpStep
<1>3. CASE NpuStep
  BY <1>3, NpuKeeps
<1>4. CASE (\E o \in Ops : Open(o)) \/ OpenFails \/ Exited \/ UNCHANGED vars
  BY <1>4, CallKeeps
<1> QED BY <1>1, <1>2, <1>3, <1>4 DEF Next

(***************************************************************************)
(* An op that syncs what the CPU wrote returns NULL or the NPU's result on *)
(* this op's operands, whatever the cache evicts and fetches and whichever *)
(* of the other calls fail.                                                *)
(***************************************************************************)
THEOREM AnswersAreResults ==
  ASSUME CleanDevice
  PROVE  Spec => []AnswerIsResult
<1>1. Init => CacheInv
  BY DEF Init, DeviceInit, CacheInv, TasksUncached, OperandsWritten, Buf,
         SyncedClean, OutputWritten, AnswerIsResult
<1>2. TypeOK /\ OpKnown /\ Ownership /\ CacheInv /\ [Next]_vars => CacheInv'
  BY CacheInvStep
<1>3. CacheInv => AnswerIsResult
  BY DEF CacheInv
<1> QED BY <1>1, <1>2, <1>3, OwnershipCorrect, PTL DEF Spec

-----------------------------------------------------------------------------
(***************************************************************************)
(* Every step of an op is a step of its contract, or none: OpLifecycle     *)
(* implements OpContract under the refinement mapping it states (Phase,    *)
(* Live and answer), for the same ops and faults. A destroy may fail too.  *)
(***************************************************************************)
Inv == TypeOK /\ OpKnown /\ Ownership /\ CacheInv

LEMMA InvCorrect ==
  ASSUME CleanDevice
  PROVE  Spec => []Inv
<1>1. Init => CacheInv
  BY DEF Init, DeviceInit, CacheInv, TasksUncached, OperandsWritten, Buf,
         SyncedClean, OutputWritten, AnswerIsResult
<1>2. TypeOK /\ OpKnown /\ Ownership /\ CacheInv /\ [Next]_vars => CacheInv'
  BY CacheInvStep
<1> QED BY <1>1, <1>2, OwnershipCorrect, PTL DEF Spec, Inv

-----------------------------------------------------------------------------
Stutters == UNCHANGED <<Phase, Live, answer>>

LEMMA StutterRefines ==
  ASSUME Stutters
  PROVE  [Contract!ContractNext]_(Contract!contractVars)
  BY DEF Stutters, Contract!contractVars

(* The four buffers of an op that has its handles are four live objects.   *)
LEMMA FourLive ==
  ASSUME Inv, pc = "wait"
  PROVE  \E t, w, i, o \in Live :
           t # w /\ t # i /\ t # o /\ w # i /\ w # o /\ i # o
<1>1. \A b \in Buf : handles[b] # None /\ handles[b] \in Live
  BY DEF Inv, Ownership, HandlesByStage, HeldNamed, Held, Live
<1>2. \A b1, b2 \in Buf : b1 # b2 => handles[b1] # handles[b2]
  BY <1>1 DEF Inv, Ownership, MappingsRecorded
<1>3. {"tasks", "weights", "input", "output"} \subseteq Buf
  BY DEF Buf
<1>4. \E t, w, i, o \in Live :
        /\ t = handles["tasks"] /\ w = handles["weights"]
        /\ i = handles["input"] /\ o = handles["output"]
  BY <1>1, <1>3
<1> QED BY <1>2, <1>3, <1>4

LEMMA CallRefines ==
  ASSUME Inv, (\E o \in Ops : Open(o)) \/ OpenFails
  PROVE  Contract!ContractNext
<1>1. CASE \E o \in Ops : Open(o)
  <2>1. Contract!Call
    BY <1>1 DEF Open, Contract!Call, Phase, Live, deviceVars, Inv, Ownership,
                JobByStage
  <2> QED BY <2>1 DEF Contract!ContractNext
<1>2. CASE OpenFails
  <2>1. Phase = "idle" /\ Phase' = "exited"
    BY <1>2 DEF OpenFails, Phase, deviceVars, Inv, Ownership, JobByStage
  <2>2. Live' = Live /\ answer' = answer
    BY <1>2 DEF OpenFails, Live, deviceVars
  <2> QED BY <2>1, <2>2 DEF Contract!ContractNext, Contract!Exit
<1> QED BY <1>1, <1>2

LEMMA AllocRefines ==
  ASSUME Inv, NEW b \in Buf, NEW o \in Obj, Alloc(b, o)
  PROVE  Contract!ContractNext
<1>1. /\ Phase = "busy" /\ Phase' = "busy" /\ answer' = answer
      /\ o \in Obj \ Live /\ Live' = Live \cup {o}
  BY DEF Alloc, MemAllocate, Phase, Live, Inv, Ownership, JobByStage
<1> QED BY <1>1 DEF Contract!ContractNext, Contract!Collect

(* An attempt that fails leaves the memory, or one object more of it.      *)
LEMMA FailedAllocRefines ==
  ASSUME Inv, AllocRetry \/ AllocFails
  PROVE  Contract!ContractNext \/ Stutters
<1>1. Live' = Live \/ \E o \in Obj \ Live : Live' = Live \cup {o}
  BY DEF AllocRetry, AllocFails, MemAllocateFails, MapFails, Live
<1>2. CASE AllocRetry
  <2>1. Phase = "busy" /\ Phase' = "busy" /\ answer' = answer
    BY <1>2 DEF AllocRetry, MemAllocateFails, Phase, Inv, Ownership, JobByStage
  <2> QED BY <1>1, <2>1 DEF Stutters, Contract!ContractNext, Contract!Collect
<1>3. CASE AllocFails
  <2>1. Phase = "busy" /\ Phase' = "settled" /\ answer' = "null"
    BY <1>3 DEF AllocFails, MemAllocateFails, Phase, Inv, Ownership, JobByStage
  <2> QED BY <1>1, <2>1 DEF Contract!ContractNext, Contract!Settle
<1> QED BY <1>2, <1>3

LEMMA BuildRefines ==
  ASSUME Inv, BuildRegCmd \/ PackOperands \/ SyncToDevice \/ Submit
  PROVE  Contract!ContractNext \/ Stutters
<1>1. Live' = Live
  BY DEF BuildRegCmd, PackOperands, SyncToDevice, Submit, Live
<1>2. CASE BuildRegCmd
  <2>1. Phase = "busy"
    BY <1>2 DEF BuildRegCmd, Phase, Inv, Ownership, JobByStage
  <2>2. \/ Phase' = "busy" /\ answer' = answer
        \/ Phase' = "settled" /\ answer' = "checked"
    BY <1>2 DEF BuildRegCmd, Phase, Inv, Ownership, JobByStage
  <2> QED BY <1>1, <2>1, <2>2 DEF Stutters, Contract!ContractNext,
                                  Contract!Settle
<1>3. CASE PackOperands \/ SyncToDevice \/ Submit
  <2>1. Phase = "busy" /\ Phase' = "busy" /\ answer' = answer
    BY <1>3 DEF PackOperands, SyncToDevice, Submit, Phase, Inv, Ownership,
                JobByStage
  <2> QED BY <1>1, <2>1 DEF Stutters
<1> QED BY <1>2, <1>3

(* The end of the job is the computation; its failure settles for NULL.    *)
LEMMA WaitRefines ==
  ASSUME Inv, NpuStep \/ SubmitReturns \/ SubmitFails
  PROVE  Contract!ContractNext \/ Stutters
<1>1. Live' = Live
  BY DEF NpuStep, NpuExecute, SubmitReturns, SubmitFails, Live
<1>2. CASE NpuStep
  <2>1. /\ npu = "running" /\ npu' = "done" /\ pc' = pc /\ answer' = answer
        /\ pc = "wait"
    BY <1>2 DEF NpuStep, NpuExecute, progVars, Inv, Ownership, JobByStage
  <2>2. Phase = "busy" /\ Phase' = "computed"
    BY <2>1 DEF Phase
  <2> QED BY <1>1, <2>1, <2>2, FourLive DEF Contract!ContractNext,
                                            Contract!Compute
<1>3. CASE SubmitReturns
  <2>1. Phase = "computed" /\ Phase' = "computed" /\ answer' = answer
    BY <1>3 DEF SubmitReturns, Phase
  <2> QED BY <1>1, <2>1 DEF Stutters
<1>4. CASE SubmitFails
  <2>1. Phase = "busy" /\ Phase' = "settled" /\ answer' = "null"
    BY <1>4 DEF SubmitFails, Phase
  <2> QED BY <1>1, <2>1 DEF Contract!ContractNext, Contract!Settle
<1> QED BY <1>2, <1>3, <1>4

(* What is copied is the result, because the line that is read is clean.   *)
LEMMA FetchRefines ==
  ASSUME Inv, SyncFromDevice \/ CopyOutput \/ CopyFails
  PROVE  Contract!ContractNext \/ Stutters
<1>1. Live' = Live
  BY DEF SyncFromDevice, CopyOutput, CopyFails, Live, deviceVars
<1>2. CASE SyncFromDevice
  <2>1. Phase = "computed" /\ Phase' = "computed" /\ answer' = answer
    BY <1>2 DEF SyncFromDevice, Phase
  <2> QED BY <1>1, <2>1 DEF Stutters
<1>3. CASE CopyOutput
  <2>1. answer' = "result"
    BY <1>3 DEF CopyOutput, CpuView, Inv, CacheInv, OutputWritten
  <2>2. Phase = "computed" /\ Phase' = "settled"
    BY <1>3 DEF CopyOutput, Phase, deviceVars, Inv, Ownership, JobByStage
  <2> QED BY <1>1, <2>1, <2>2 DEF Contract!ContractNext, Contract!Settle
<1>4. CASE CopyFails
  <2>1. Phase = "computed" /\ Phase' = "settled" /\ answer' = "null"
    BY <1>4 DEF CopyFails, Phase, deviceVars, Inv, Ownership, JobByStage
  <2> QED BY <1>1, <2>1 DEF Contract!ContractNext, Contract!Settle
<1> QED BY <1>2, <1>3, <1>4

LEMMA ReleaseRefines ==
  ASSUME Inv, Release \/ Close
  PROVE  Contract!ContractNext
<1>1. CASE Release
  <2>1. Phase = "settled" /\ Phase' = "settled" /\ answer' = answer
    BY <1>1 DEF Release, Phase, deviceVars, Inv, Ownership, JobByStage
  <2>2. Live' \subseteq Live
    BY <1>1 DEF Release, DestroyResults, Live, Inv, Ownership, HeldNamed
  <2> QED BY <2>1, <2>2 DEF Contract!ContractNext, Contract!GiveBack
<1>2. CASE Close
  <2>1. Phase = "settled" /\ Phase' = "idle" /\ answer' = answer
    BY <1>2 DEF Close, Phase, deviceVars, Inv, Ownership, JobByStage
  <2>2. Live' = {}
    BY <1>2 DEF Close, Live, Inv, Ownership, MappingsRecorded, HandlesByStage,
                Held
  <2> QED BY <2>1, <2>2 DEF Contract!ContractNext, Contract!Return
<1> QED BY <1>1, <1>2

LEMMA QuietRefines ==
  ASSUME CacheStep \/ Exited \/ UNCHANGED vars
  PROVE  Stutters
  BY DEF CacheStep, Evict, Prefetch, Exited, vars, progVars, deviceVars,
         Stutters, Phase, Live

LEMMA StepRefines ==
  ASSUME Inv, [Next]_vars
  PROVE  [Contract!ContractNext]_(Contract!contractVars)
<1>1. Contract!ContractNext \/ Stutters
  BY CallRefines, AllocRefines, FailedAllocRefines, BuildRefines, WaitRefines,
     FetchRefines, ReleaseRefines, QuietRefines DEF Next, OpStep
<1> QED BY <1>1, StutterRefines

(***************************************************************************)
(* The driver keeps the contract of its ops: memory is given back before   *)
(* an op returns, all of it, and a result is returned only of a            *)
(* computation that ended, whichever calls fail on the way.                *)
(***************************************************************************)
THEOREM DriverKeepsContract ==
  ASSUME CleanDevice
  PROVE  Spec => ImplementsContract
<1>1. Init => Contract!ContractInit
  BY DEF Init, DeviceInit, Contract!ContractInit, Phase, Live
<1>2. Inv /\ [Next]_vars => [Contract!ContractNext]_(Contract!contractVars)
  BY StepRefines
<1> QED
  BY <1>1, <1>2, InvCorrect, PTL DEF Spec, ImplementsContract,
     Contract!ContractSpec
=============================================================================
