------------------------------ MODULE GemDump ------------------------------
(***************************************************************************)
(* The programs that show GEM buffers: the two dump.py, which begin alike  *)
(* and have grown apart, the hello.c both come from, and                   *)
(* patch_task_buffer.py, which blanks part of a buffer between two dumps.  *)
(* dump/ outlives the process. DmaLog has the meeting with a running       *)
(* driver; here the buffers lie still while a process shows them.          *)
(*                                                                         *)
(* Sizes, offsets and addresses count words of 8 bytes. A block is a line  *)
(* of the raw dump, two words; a task is five, its amount of commands in   *)
(* the low half of the fourth and their address in the fifth.              *)
(***************************************************************************)
EXTENDS Integers, SequencesExt

CONSTANTS
    Tool,       \* which program: "ops_reg", "ops_rknn" or "hello"
    Memories,   \* what ops leave: each a function of the flink names
    Args,       \* the lists of names the program is called with
    Limits,     \* values of --size
    PatchEnds,  \* the ranges patch_task_buffer is asked to zero
    Listing,    \* the flink names, as sorted(os.listdir("dump")) has them
    Fold,       \* zero blocks shown one by one; 4
    MaxAmount,  \* the largest amount believed; 2^16
    Half,       \* half a word; 2^32
    hello_base  \* the address hello.c puts on the first command

Names == UNION {DOMAIN m : m \in Memories}

DumpAssumption ==
    /\ Tool \in {"ops_reg", "ops_rknn", "hello"}
    /\ \A m \in Memories : \A g \in DOMAIN m :
          /\ m[g] \in [dma : Nat, map : Nat, words : Seq(Nat), logged : BOOLEAN]
          /\ Len(m[g].words) % 2 = 0
    /\ Listing \in Seq(Names) /\ \A g \in Names : \E n \in DOMAIN Listing : g = Listing[n]
    /\ \A a \in Args : a \in Seq(Nat \ {0})
    /\ Limits \cup {Fold, MaxAmount, Half, hello_base} \subseteq Nat

VARIABLES
    mem,      \* the buffers
    patched,  \* zero_after_task0 came after the last op
    gems,     \* the names still to show
    limit,    \* --size
    phase,    \* "raw", "tasks", "decode", or "next" between two buffers
    i,        \* the block the raw dump is at
    lines,    \* the lines it has printed, each with its first block
    entries,  \* _TASK_REGCMDS
    labels,   \* the address printed beside each command
    files,    \* dump/gemN-dump
    reports   \* dump/gemN_tasks.txt

vars == <<mem, patched, gems, limit, phase, i, lines, entries, labels,
          files, reports>>

TaskWords == 5

gem == Head(gems)

words == mem[gem].words

Word(n) == words[n + 1]

dump_size ==
    IF Tool = "ops_reg" /\ limit < Len(words) THEN limit ELSE Len(words)

----------------------------------------------------------------------------
(* The raw dump.                                                           *)

Blocks == (dump_size + 1) \div 2

ZeroBlock(b) == Word(2 * b) = 0 /\ Word((2 * b) + 1) = 0

(* The zero blocks from b on; hello.c does not look for them.              *)
zero_blocks(b) ==
    IF Tool = "hello" THEN 0
    ELSE CHOOSE n \in 0 .. Blocks - b :
            /\ \A k \in 0 .. n - 1 : ZeroBlock(b + k)
            /\ b + n = Blocks \/ ~ZeroBlock(b + n)

Line(b, n) == [at |-> b, blocks |-> n]

(* What a file has after new is written to it: hello.c opens it without    *)
(* O_TRUNC.                                                                *)
Written(old, new) ==
    IF Tool = "hello" THEN new \o SubSeq(old, Len(new) + 1, Len(old)) ELSE new

(* GEM_OPEN and the raw file, which hello.c writes in its second pass. A   *)
(* name nobody has is passed over.                                         *)
Open ==
    /\ phase = "next" /\ gems # <<>>
    /\ labels' = <<>>
    /\ IF gem \in DOMAIN mem
       THEN /\ phase' = "raw" /\ i' = 0 /\ lines' = <<>>
            /\ files' = [files EXCEPT ![gem] =
                            Written(@, SubSeq(words, 1, dump_size))]
            /\ gems' = gems
       ELSE /\ gems' = Tail(gems)
            /\ UNCHANGED <<phase, i, lines, files>>
    /\ UNCHANGED <<mem, patched, limit, entries, reports>>

ShowBlocks ==
    /\ phase = "raw" /\ i < Blocks
    /\ LET zeros == zero_blocks(i)
           n == IF zeros = 0 THEN 1 ELSE zeros
       IN  /\ lines' = lines \o
                 IF n > Fold THEN <<Line(i, n)>>
                 ELSE [k \in 1 .. n |-> Line(i + k - 1, 1)]
           /\ i' = i + n
    /\ UNCHANGED <<mem, patched, gems, limit, phase, entries, labels, files,
                   reports>>

RawDone ==
    /\ phase = "raw" /\ i = Blocks
    /\ phase' = IF \/ gem = 1 /\ Tool # "hello"
                   \/ gem = 2 /\ Tool = "ops_rknn"
                THEN "tasks" ELSE "decode"
    /\ UNCHANGED <<mem, patched, gems, limit, i, lines, entries, labels,
                   files, reports>>

----------------------------------------------------------------------------
(* The tasks.                                                              *)

regcfg_amount(t) == Word(t + 3) % Half
regcmd_addr(t) == Word(t + 4)

IsTask(t) ==
    /\ regcfg_amount(t) \in 1 .. MaxAmount
    /\ regcmd_addr(t) # 0 /\ regcmd_addr(t) % 2 = 0

(* The chunks begin within dump_size; a last one the buffer cuts is left.  *)
Chunks ==
    LET begun == (dump_size + TaskWords - 1) \div TaskWords
        whole == Len(words) \div TaskWords
    IN  IF begun < whole THEN begun ELSE whole

TaskAt(t) ==
    [offset |-> t, amount |-> regcfg_amount(t), addr |-> regcmd_addr(t)]

decode_tasks_from_buffer ==
    LET tasks[c \in 0 .. Chunks] ==
            IF c = 0 THEN <<>>
            ELSE LET t == (c - 1) * TaskWords
                 IN  IF IsTask(t) THEN Append(tasks[c - 1], TaskAt(t))
                                  ELSE tasks[c - 1]
    IN  tasks[Chunks]

Entry(g, task) ==
    [flink |-> g, offset |-> task.offset, amount |-> task.amount,
     addr |-> task.addr, used |-> FALSE]

\* Mutant: a task that is known is entered again.
AppendTaskEntry(es, g, task) == Append(es, Entry(g, task))

(* ops_reg keeps one entry for a place of a buffer.                        *)
_add_task_entry(es, g, task) ==
    LET at == {n \in DOMAIN es : es[n].flink = g /\ es[n].offset = task.offset}
    IN  IF Tool = "ops_reg" /\ at # {}
        THEN [n \in DOMAIN es |->
                IF n \in at THEN [Entry(g, task) EXCEPT !.used = es[n].used]
                ELSE es[n]]
        ELSE Append(es, Entry(g, task))

Entered(es, g, tasks) ==
    LET known[n \in 0 .. Len(tasks)] ==
            IF n = 0 THEN es ELSE _add_task_entry(known[n - 1], g, tasks[n])
    IN  known[Len(tasks)]

NextGem == phase' = "next" /\ gems' = Tail(gems)

(* A table without tasks leaves the report of an earlier one in place.     *)
Tasks ==
    /\ phase = "tasks"
    /\ LET tasks == decode_tasks_from_buffer
       IN  /\ entries' = Entered(entries, gem, tasks)
           /\ reports' = IF tasks = <<>> THEN reports
                         ELSE [reports EXCEPT ![gem] = tasks]
    /\ IF Tool = "ops_reg" THEN NextGem
                           ELSE phase' = "decode" /\ gems' = gems
    /\ UNCHANGED <<mem, patched, limit, i, lines, labels, files>>

----------------------------------------------------------------------------
(* The register commands.                                                  *)

(* hello.c shows zero words too.                                           *)
commands == {n \in 0 .. dump_size - 1 : Word(n) # 0 \/ Tool = "hello"}

ensure_task_regcmds_loaded ==
    IF Tool # "ops_reg" \/ \E n \in DOMAIN entries : entries[n].flink = gem
    THEN entries
    ELSE LET known[n \in 0 .. Len(Listing)] ==
                 IF n = 0 THEN entries
                 ELSE Entered(known[n - 1], Listing[n], reports[Listing[n]])
         IN  known[Len(Listing)]

Off(es, n) ==
    LET d == es[n].amount - Cardinality(commands) IN IF d < 0 THEN -d ELSE d

(* The entry whose amount is nearest, an unused one before a used one.     *)
best_entry(es) ==
    FoldLeft(LAMBDA best, n :
        IF \/ best = 0
           \/ Off(es, n) < Off(es, best)
           \/ /\ Off(es, n) = Off(es, best)
              /\ ~es[n].used /\ es[best].used
        THEN n ELSE best, 0, [n \in DOMAIN es |-> n])

Matched(es) ==
    LET best == best_entry(es)
    IN  best # 0 /\ (Off(es, best) = 0 \/ ~es[best].used)

base_addr(es) ==
    CASE Tool = "hello" -> hello_base
      [] Tool = "ops_rknn" /\ Matched(es) -> es[best_entry(es)].addr
      [] OTHER -> IF mem[gem].logged THEN mem[gem].dma ELSE mem[gem].map

Labels(es) == [n \in commands |-> base_addr(es) + n]

Decode ==
    /\ phase = "decode"
    /\ IF commands = {}
       THEN UNCHANGED <<entries, labels>>
       ELSE LET es == ensure_task_regcmds_loaded
            IN  /\ labels' = Labels(es)
                /\ entries' = IF Matched(es) /\ Tool # "hello"
                              THEN [es EXCEPT ![best_entry(es)].used = TRUE]
                              ELSE es
    /\ NextGem
    /\ UNCHANGED <<mem, patched, limit, i, lines, files, reports>>

----------------------------------------------------------------------------
(* Between two processes.                                                  *)

Calm == phase = "next" /\ gems = <<>>

Start ==
    /\ Calm
    /\ gems' \in Args /\ limit' \in Limits
    /\ entries' = <<>> /\ labels' = <<>> /\ i' = 0 /\ lines' = <<>>
    /\ UNCHANGED <<mem, patched, phase, files, reports>>

(* An op runs and leaves other buffers under the names.                    *)
NewOp ==
    /\ Calm
    /\ mem' \in Memories /\ patched' = FALSE
    /\ entries' = <<>> /\ labels' = <<>> /\ i' = 0 /\ lines' = <<>>
    /\ UNCHANGED <<gems, limit, phase, files, reports>>

Clamp(n, size) == IF n > size THEN size ELSE n

Zeroed(w, from, to) ==
    [n \in DOMAIN w |-> IF n \in from + 1 .. to THEN 0 ELSE w[n]]

AfterTask0(w) == Zeroed(w, Clamp(TaskWords, Len(w)), Len(w))

zero_after_task0 ==
    /\ Calm /\ 1 \in DOMAIN mem
    /\ mem' = [mem EXCEPT ![1].words = AfterTask0(@)]
    /\ patched' = TRUE
    /\ entries' = <<>> /\ labels' = <<>> /\ i' = 0 /\ lines' = <<>>
    /\ UNCHANGED <<gems, limit, phase, files, reports>>

zero_reg_after_offset ==
    /\ Calm /\ 2 \in DOMAIN mem
    /\ \E from, to \in PatchEnds :
          LET size == Len(mem[2].words)
          IN  mem' = [mem EXCEPT ![2].words =
                        Zeroed(@, Clamp(from, size), Clamp(to, size))]
    /\ entries' = <<>> /\ labels' = <<>> /\ i' = 0 /\ lines' = <<>>
    /\ UNCHANGED <<patched, gems, limit, phase, files, reports>>

Init ==
    /\ mem \in Memories /\ patched = FALSE
    /\ gems = <<>> /\ limit \in Limits /\ phase = "next"
    /\ i = 0 /\ lines = <<>> /\ entries = <<>> /\ labels = <<>>
    /\ files = [g \in Names |-> <<>>] /\ reports = [g \in Names |-> <<>>]

Next == \/ Open \/ ShowBlocks \/ RawDone \/ Tasks \/ Decode
        \/ Start \/ NewOp \/ zero_after_task0 \/ zero_reg_after_offset

Spec == Init /\ [][Next]_vars

----------------------------------------------------------------------------
(* Every entry could be a task.                                            *)
TypeOK ==
    /\ DOMAIN mem \subseteq Names /\ patched \in BOOLEAN
    /\ phase \in {"next", "raw", "tasks", "decode"}
    /\ phase # "next" => gems # <<>> /\ gem \in DOMAIN mem
    /\ i \in Nat /\ limit \in Limits
    /\ \A n \in DOMAIN lines : lines[n].at \in Nat /\ lines[n].blocks > 0
    /\ \A n \in DOMAIN entries :
          /\ entries[n].flink \in Names
          /\ entries[n].amount \in 1 .. MaxAmount
          /\ entries[n].addr % 2 = 0 /\ entries[n].used \in BOOLEAN

(* The lines of the raw dump show each block so far once and in order, and *)
(* a line stands for several blocks only where all of them are zero.       *)
EveryBlockOnce ==
    phase \in {"raw", "tasks", "decode"} =>
        /\ \A n \in DOMAIN lines :
              /\ lines[n].at = IF n = 1 THEN 0
                               ELSE lines[n - 1].at + lines[n - 1].blocks
              /\ lines[n].blocks > 1 =>
                    \A w \in 2 * lines[n].at ..
                             (2 * (lines[n].at + lines[n].blocks)) - 1 :
                        Word(w) = 0
        /\ i = IF lines = <<>> THEN 0
               ELSE Last(lines).at + Last(lines).blocks
        /\ phase # "raw" => 2 * i >= dump_size

(* ops_reg: however often a table is decoded and its report read back, a   *)
(* place of a buffer has one entry.                                        *)
OneEntryAPlace ==
    \A m, n \in DOMAIN entries :
        /\ entries[m].flink = entries[n].flink
        /\ entries[m].offset = entries[n].offset
        => m = n

(* The address beside a command of a logged buffer is where the NPU finds  *)
(* it; gem 1 holds no commands. ops_rknn/dump.py disagrees.                *)
LabelsOwn ==
    phase = "decode" /\ gem # 1 /\ mem[gem].logged =>
        \A n \in DOMAIN labels' : labels'[n] = mem[gem].dma + n

(* The file of a buffer being shown is that buffer, nothing of an earlier  *)
(* and larger one behind it.                                               *)
DumpIsBuffer ==
    phase \in {"raw", "tasks", "decode"} =>
        files[gem] = SubSeq(words, 1, dump_size)

(* "Patch GEM buffers to keep only the first task": after                  *)
(* zero_after_task0, until the next op, no other task is decoded.          *)
OnlyFirstTask ==
    phase = "tasks" /\ gem = 1 /\ patched =>
        \A n \in DOMAIN decode_tasks_from_buffer :
            decode_tasks_from_buffer[n].offset = 0
=============================================================================
