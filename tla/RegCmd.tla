------------------------------- MODULE RegCmd -------------------------------
(***************************************************************************)
(* What the NPU is told. createRegCmd resets the recorder; regcmd_helper   *)
(* emits the block of the algorithm through emit_raw, which notes where    *)
(* the chain registers of a task are; finish_current_task closes the task; *)
(* createRegCmd patches the chain registers, copies the commands to the    *)
(* front of the weights buffer and fills the task table; submitTask starts *)
(* the job. All of the bookkeeping is in globals that outlive the op.      *)
(***************************************************************************)
EXTENDS RegBlocks, FiniteSets, SequencesExt

CONSTANTS
  Algorithms,   \* the algorithms asked for
  MaxRegTasks   \* MAX_REG_TASKS, 16

RegAssumption ==
  /\ Algorithms \subseteq Nat
  /\ MaxRegTasks \in Nat \ {0}
  /\ LutEntries \in Nat \ {0}
  /\ Reserved \in Nat

VARIABLES
  pc,                    \* "idle", "emit", "patch", "table", "built"
  current_alu_algorithm,
  todo,                  \* the items of the block not yet emitted
  regs,                  \* the commands recorded
  reg_task_count,
  reg_task_offsets,      \* by task, from 0
  reg_task_lengths,
  reg_pc_base,           \* index of the task's chain register, None if it has none
  reg_pc_amount,
  tasks,                 \* the task table
  flags                  \* flags of the last submit

tracking == <<reg_task_count, reg_task_offsets, reg_task_lengths,
              reg_pc_base, reg_pc_amount>>
vars == <<pc, current_alu_algorithm, todo, regs, tracking, tasks, flags>>

None == 0   \* (size_t)-1; indices of regs start at 1 here

Pad == [unit |-> "none", reg |-> "pad", val |-> <<0>>]

Slots == 0..(MaxRegTasks - 1)
NoTracking == [t \in Slots |-> 0]

Init ==
  /\ pc = "idle"
  /\ current_alu_algorithm = 2
  /\ todo = <<>> /\ regs = <<>>
  /\ reg_task_count = 0
  /\ reg_task_offsets = [t \in 0..MaxRegTasks |-> 0]
  /\ reg_task_lengths = NoTracking
  /\ reg_pc_base = NoTracking /\ reg_pc_amount = NoTracking
  /\ tasks = <<>>
  /\ flags = {}

-----------------------------------------------------------------------------
(* set_alu_algorithm, regs.size = 0, reset_reg_tracking, regcmd_helper.    *)
CreateRegCmd(algorithm) ==
  /\ pc = "idle"
  /\ pc' = "emit"
  /\ current_alu_algorithm' = algorithm
  /\ todo' = Block(algorithm)
  /\ regs' = <<>>
  /\ reg_task_count' = 0
  /\ reg_task_offsets' = [t \in 0..MaxRegTasks |-> 0]
  /\ reg_task_lengths' = NoTracking
  /\ reg_pc_base' = NoTracking /\ reg_pc_amount' = NoTracking
  /\ UNCHANGED <<tasks, flags>>

(* emit_raw, once or in a for loop: push, and note the chain registers.    *)
EmitRaw ==
  /\ pc = "emit" /\ todo # <<>>
  /\ LET item == Head(todo)
         size == Len(regs) + item.times
         Note(indices, reg) ==
           IF item.reg = reg /\ reg_task_count < MaxRegTasks
           THEN [indices EXCEPT ![reg_task_count] = size] ELSE indices
     IN  /\ regs' = regs \o [i \in 1..item.times |->
                     [unit |-> item.unit, reg |-> item.reg, val |-> item.val]]
         /\ reg_pc_base' = Note(reg_pc_base, "BASE_ADDRESS")
         /\ reg_pc_amount' = Note(reg_pc_amount, "REGISTER_AMOUNTS")
  /\ todo' = Tail(todo)
  /\ UNCHANGED <<pc, current_alu_algorithm, reg_task_count, reg_task_offsets,
                 reg_task_lengths, tasks, flags>>

(***************************************************************************)
(* finish_current_task: called by the block of conv2d at its end, and by   *)
(* createRegCmd after every other block; so each op has one task. The      *)
(* length is the one before the padding to 64 bytes.                       *)
(***************************************************************************)
FinishCurrentTask ==
  /\ pc = "emit" /\ todo = <<>>
  /\ reg_task_count < MaxRegTasks
  /\ LET count == Len(regs) - reg_task_offsets[reg_task_count]
         padding == (8 - (count % 8)) % 8
     IN  /\ reg_task_lengths' = [reg_task_lengths EXCEPT ![reg_task_count] = count]
         /\ regs' = regs \o [i \in 1..padding |-> Pad]
  /\ reg_task_count' = reg_task_count + 1
  /\ reg_task_offsets' = [reg_task_offsets EXCEPT ![reg_task_count'] = Len(regs')]
  /\ pc' = "patch"
  /\ UNCHANGED <<current_alu_algorithm, todo, reg_pc_base, reg_pc_amount, tasks, flags>>

(* overwrite_reg_value keeps unit and register.                            *)
Overwrite(commands, index, value) ==
  IF index \in DOMAIN commands
  THEN [commands EXCEPT ![index].val = <<value>>] ELSE commands

(* The address of the next task relative to the first command, 0 for none. *)
NextTask(t) ==
  IF t + 1 < reg_task_count THEN reg_task_offsets[t + 1] * 8 ELSE 0

(* Mutant: the address of the task itself.                                 *)
PatchChainSelf ==
  /\ pc = "patch"
  /\ regs' = FoldLeft(
       LAMBDA commands, t :
         Overwrite(Overwrite(commands, reg_pc_base[t - 1], reg_task_lengths[t - 1]),
                   reg_pc_amount[t - 1], reg_task_lengths[t - 1]),
       regs, [t \in 1..reg_task_count |-> t])
  /\ pc' = "table"
  /\ UNCHANGED <<current_alu_algorithm, todo, tracking, tasks, flags>>

(* The patch loop: both chain registers of every task that has them.       *)
PatchChain ==
  /\ pc = "patch"
  /\ regs' = FoldLeft(
       LAMBDA commands, t :
         Overwrite(Overwrite(commands, reg_pc_base[t - 1], NextTask(t - 1)),
                   reg_pc_amount[t - 1], reg_task_lengths[t - 1]),
       regs, [t \in 1..reg_task_count |-> t])
  /\ pc' = "table"
  /\ UNCHANGED <<current_alu_algorithm, todo, tracking, tasks, flags>>

(* The algorithms whose tasks end in the pooling unit.                     *)
Pooling == current_alu_algorithm \in {24, 25, 26, 27}

(* The loop that fills the task table.                                     *)
FillTasks ==
  /\ pc = "table"
  /\ tasks' = [t \in 1..reg_task_count |->
       LET is_small == current_alu_algorithm = 13 /\ (t - 1) % 2 = 0 /\ t # 1
       IN  [interrupt |-> IF is_small \/ Pooling THEN "PPU" ELSE "DPU",
            regcfg_amount |-> reg_task_lengths[t - 1],
            regcfg_offset |-> reg_task_offsets[t - 1] * 8]]
  /\ pc' = "built"
  /\ UNCHANGED <<current_alu_algorithm, todo, regs, tracking, flags>>

(* submitTask.                                                             *)
SubmitTask ==
  /\ pc = "built"
  /\ flags' = {"PC", "BLOCK"} \cup
       (IF current_alu_algorithm # 13 THEN {"PINGPONG"} ELSE {})
  /\ pc' = "idle"
  /\ UNCHANGED <<current_alu_algorithm, todo, regs, tracking, tasks>>

Next ==
  \/ \E algorithm \in Algorithms : CreateRegCmd(algorithm)
  \/ EmitRaw \/ FinishCurrentTask \/ PatchChain \/ FillTasks \/ SubmitTask

Spec == Init /\ [][Next]_vars

-----------------------------------------------------------------------------
TypeOK ==
  /\ pc \in {"idle", "emit", "patch", "table", "built"}
  /\ current_alu_algorithm \in Algorithms \cup {2}
  /\ reg_task_count \in 0..MaxRegTasks
  /\ reg_task_offsets \in [0..MaxRegTasks -> Nat]
  /\ reg_task_lengths \in [Slots -> Nat]
  /\ reg_pc_base \in [Slots -> Nat] /\ reg_pc_amount \in [Slots -> Nat]
  /\ \A t \in DOMAIN tasks : tasks[t].interrupt \in {"DPU", "PPU"}
  /\ flags \subseteq {"PC", "BLOCK", "PINGPONG"}

(* The commands of a block, one by one.                                    *)
Commands(block) ==
  FlattenSeq([k \in 1..Len(block) |->
    [i \in 1..block[k].times |->
      [unit |-> block[k].unit, reg |-> block[k].reg, val |-> block[k].val]]])

Built == pc = "built"
Enables(first, last) == {i \in first..last : regs[i].reg = "OPERATION_ENABLE"}

(***************************************************************************)
(* The table describes what was recorded: tasks lie one behind the other   *)
(* at multiples of 64 bytes, the commands of a task are all of it up to    *)
(* the padding, and each task starts its units exactly once.               *)
(***************************************************************************)
TasksCoverCommands ==
  Built =>
    /\ tasks # <<>> /\ tasks[1].regcfg_offset = 0
    /\ \A t \in DOMAIN tasks :
         LET first == tasks[t].regcfg_offset \div 8 + 1
             last == first + tasks[t].regcfg_amount - 1
             end == IF t = Len(tasks) THEN Len(regs)
                    ELSE tasks[t + 1].regcfg_offset \div 8
         IN  /\ tasks[t].regcfg_offset % 64 = 0 /\ end % 8 = 0
             /\ last <= end
             /\ \A i \in first..last : regs[i].reg # "pad"
             /\ \A i \in (last + 1)..end : regs[i].reg = "pad"
             /\ Cardinality(Enables(first, last)) = 1

(***************************************************************************)
(* Patching touches the chain registers and nothing else, whatever indices *)
(* earlier ops left in the globals: every other command is the one its     *)
(* block emits for this algorithm.                                         *)
(***************************************************************************)
OnlyChainPatched ==
  Built =>
    LET block == Commands(Block(current_alu_algorithm))
    IN  \A i \in DOMAIN block :
          /\ regs[i].reg = block[i].reg /\ regs[i].unit = block[i].unit
          /\ regs[i].reg \in {"BASE_ADDRESS", "REGISTER_AMOUNTS"} \/ regs[i] = block[i]

(***************************************************************************)
(* A chain ends: the last task names no next one, and every chain register *)
(* of a task names the task behind it.                                     *)
(***************************************************************************)
ChainEnds ==
  Built =>
    \A i \in DOMAIN regs : regs[i].reg = "BASE_ADDRESS" =>
      \E t \in DOMAIN tasks :
        /\ tasks[t].regcfg_offset \div 8 < i
        /\ i <= tasks[t].regcfg_offset \div 8 + tasks[t].regcfg_amount
        /\ regs[i].val = IF t = Len(tasks) THEN <<0>> ELSE <<tasks[t + 1].regcfg_offset>>

(***************************************************************************)
(* The commands fit in the bytes reserved for them in front of the         *)
(* weights. (The code checks them against the whole buffer.)               *)
(***************************************************************************)
CommandsInReserve == Len(regs) * 8 <= Reserved

(***************************************************************************)
(* No address register of a job points at the commands: operands are read  *)
(* from the input buffer or behind the reserve of the weights buffer.      *)
(***************************************************************************)
OperandsBesideCommands ==
  Built =>
    \A i \in DOMAIN regs :
      regs[i].reg \in {"SRC_BASE_ADDR", "EW_BASE_ADDR", "FEATURE_DATA_ADDR", "DCOMP_ADDR0"}
        => regs[i].val.buf = "input" \/ regs[i].val.at >= Len(regs) * 8

(***************************************************************************)
(* The job is waited for at the right unit: the interrupt a task waits for *)
(* is the one of the unit that writes the output, and the task starts that *)
(* unit together with every unit whose registers it sets.                  *)
(***************************************************************************)
WaitsForOutputUnit ==
  Built =>
    LET units == UNION {regs[i].val.on : i \in Enables(1, Len(regs))}
    IN  \A i \in DOMAIN regs :
          /\ regs[i].reg = "DST_BASE_ADDR" => tasks[1].interrupt = regs[i].unit
          /\ regs[i].unit \notin {"PC", "none"} => regs[i].unit \in units

(***************************************************************************)
(* run_minmax_bin_regcheck: the commands of algorithms 56 and 57 enable    *)
(* the binary mode, with algorithm 0 and 1.                                *)
(***************************************************************************)
RegcheckPasses ==
  Built /\ current_alu_algorithm \in {56, 57} =>
    \E i \in DOMAIN regs :
      /\ regs[i].reg = "EW_CFG"
      /\ regs[i].val.binary_en
      /\ regs[i].val.alu_algo = current_alu_algorithm - 56
=============================================================================
