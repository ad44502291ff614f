---------------------------- MODULE FlinkSample ----------------------------
(***************************************************************************)
(* include/old/hello2.c: one job on five buffers, each given a global      *)
(* flink name, the output opened again under its name at the end. Calls    *)
(* fail where the kernel lets them; what the program does about it differs *)
(* from call to call: it exits, goes to cleanup, prints and goes on, or    *)
(* does not look.                                                          *)
(*                                                                         *)
(* Every buffer is created cacheable, so what the CPU wrote may stay in    *)
(* its cache until a sync, or until the cache evicts it. Only the register *)
(* commands and the task are written. Mappings are left out: nothing       *)
(* depends on them before the process ends.                                *)
(***************************************************************************)
EXTENDS Integers, Sequences

Buffer == {"instr", "tasks", "input", "weight", "output"}
Order == <<"instr", "tasks", "input", "weight", "output">>

VARIABLES
    pc,       \* where main is
    todo,     \* the buffers a run of calls still has to go through
    handles,  \* per buffer, the handles the descriptor has of its object
    flinks,   \* the buffers with a flink name
    dirty,    \* the buffers with stores still in the CPU cache
    ran,      \* what the NPU ran: "no" job, "these" commands, or "others"
    ret,      \* what the last call returned, where main keeps it
    status,   \* the exit status
    trouble   \* the calls that failed

vars == <<pc, todo, handles, flinks, dirty, ran, ret, status, trouble>>

Init ==
    /\ pc = "open" /\ todo = <<>>
    /\ handles = [b \in Buffer |-> 0]
    /\ flinks = {} /\ dirty = {} /\ ran = "no"
    /\ ret = 0 /\ status = 0 /\ trouble = {}

----------------------------------------------------------------------------
(* exit(code): the descriptor is closed with the process.                  *)
Exit(code) ==
    /\ pc' = "exited" /\ status' = code
    /\ handles' = [b \in Buffer |-> 0]

(* After the last buffer of a run of calls main is at `then`.              *)
Proceed(then, order) ==
    /\ todo # <<>>
    /\ IF Len(todo) > 1 THEN pc' = pc /\ todo' = Tail(todo)
                        ELSE pc' = then /\ todo' = order

Failing(call) == trouble' = trouble \cup {call}

(* The device, its version and its unique name.                            *)
Open ==
    /\ pc = "open"
    /\ \/ /\ pc' = "alloc" /\ todo' = Order
          /\ UNCHANGED <<handles, status, trouble>>
       \/ \E code \in {1, 2} :
             Exit(code) /\ Failing("open") /\ UNCHANGED todo
    /\ UNCHANGED <<flinks, dirty, ran, ret>>

mem_allocate ==
    /\ pc = "alloc"
    /\ \/ /\ Proceed("flink", Order)
          /\ handles' = [handles EXCEPT ![Head(todo)] = 1]
          /\ UNCHANGED <<status, trouble>>
       \/ Exit(2) /\ Failing("create") /\ UNCHANGED todo
    /\ UNCHANGED <<flinks, dirty, ran, ret>>

(* A name that cannot be made sends main to cleanup.                       *)
create_flink_name ==
    /\ pc = "flink"
    /\ \/ /\ Proceed("write", <<>>)
          /\ flinks' = flinks \cup {Head(todo)}
          /\ UNCHANGED trouble
       \/ /\ pc' = "cleanup" /\ todo' = Order /\ Failing("flink")
          /\ UNCHANGED flinks
    /\ UNCHANGED <<handles, dirty, ran, ret, status>>

\* Mutant: the commands are left to the cache.
SyncOrderTasksOnly == <<"tasks">>

SyncOrder == <<"tasks", "instr">>

(* The reset, whose result nobody looks at, the commands and the task.     *)
WriteTask ==
    /\ pc = "write"
    /\ dirty' = {"instr", "tasks"}
    /\ pc' = "sync" /\ todo' = SyncOrder
    /\ UNCHANGED <<handles, flinks, ran, ret, status, trouble>>

(* A sync that fails is printed.                                           *)
mem_sync ==
    /\ pc = "sync"
    /\ Proceed("submit", <<>>)
    /\ \/ dirty' = dirty \ {Head(todo)} /\ UNCHANGED trouble
       \/ Failing("sync") /\ UNCHANGED dirty
    /\ UNCHANGED <<handles, flinks, ran, ret, status>>

(* The cache writes a line back on its own.                                *)
Evict ==
    /\ pc # "exited"
    /\ \E b \in dirty : dirty' = dirty \ {b}
    /\ UNCHANGED <<pc, todo, handles, flinks, ran, ret, status, trouble>>

(* The submit blocks; its result becomes the exit status.                  *)
Submit ==
    /\ pc = "submit"
    /\ \/ /\ ran' = IF dirty = {} THEN "these" ELSE "others"
          /\ ret' = 0 /\ UNCHANGED trouble
       \/ ret' = -1 /\ Failing("submit") /\ UNCHANGED ran
    /\ pc' = "reopen"
    /\ UNCHANGED <<todo, handles, flinks, dirty, status>>

(* The output is opened by name, which makes another handle of it, looked  *)
(* at and unmapped.                                                        *)
open_gem_by_flink ==
    /\ pc = "reopen"
    /\ \/ /\ handles' = [handles EXCEPT !["output"] = @ + 1]
          /\ UNCHANGED trouble
       \/ Failing("reopen") /\ UNCHANGED handles
    /\ pc' = "cleanup" /\ todo' = Order
    /\ UNCHANGED <<flinks, dirty, ran, ret, status>>

mem_destroy ==
    /\ pc = "cleanup"
    /\ Proceed("close", <<>>)
    /\ \/ /\ handles' = [handles EXCEPT ![Head(todo)] = @ - 1]
          /\ UNCHANGED trouble
       \/ Failing("destroy") /\ UNCHANGED handles
    /\ UNCHANGED <<flinks, dirty, ran, ret, status>>

(* What the descriptor still refers to goes with it.                       *)
Close ==
    /\ pc = "close"
    /\ Exit(ret)
    /\ UNCHANGED <<todo, flinks, dirty, ran, ret, trouble>>

Next ==
    \/ Open \/ mem_allocate \/ create_flink_name \/ WriteTask \/ mem_sync
    \/ Evict \/ Submit \/ open_gem_by_flink \/ mem_destroy \/ Close

Spec == Init /\ [][Next]_vars

----------------------------------------------------------------------------
Calls == {"open", "create", "flink", "sync", "submit", "reopen", "destroy"}

(* No handle is closed twice: the counts stay natural numbers.             *)
TypeOK ==
    /\ pc \in {"open", "alloc", "flink", "write", "sync", "submit",
               "reopen", "cleanup", "close", "exited"}
    /\ \E i \in 0 .. 5 : todo \in {SubSeq(Order, i + 1, 5), SyncOrder,
                                   Tail(SyncOrder)}
    /\ handles \in [Buffer -> 0 .. 2]
    /\ flinks \subseteq Buffer /\ dirty \subseteq {"instr", "tasks"}
    /\ ran \in {"no", "these", "others"}
    /\ ret \in {0, -1} /\ status \in {0, -1, 1, 2}
    /\ trouble \subseteq Calls

(***************************************************************************)
(* The NPU runs the task and the commands main wrote, whatever the cache   *)
(* does in between, unless a sync failed: that is only printed.            *)
(***************************************************************************)
RanAsWritten == ran = "others" => "sync" \in trouble

(***************************************************************************)
(* Cleanup, reached from six places, gives every buffer back once: what is *)
(* left at the close is what a destroy failed on and the second handle of  *)
(* the output.                                                             *)
(***************************************************************************)
GivenBack ==
    pc = "close" /\ "destroy" \notin trouble =>
        \A b \in Buffer \ {"output"} : handles[b] = 0

(***************************************************************************)
(* "Properly destroy the memory objects": no object outlives its destroy.  *)
(***************************************************************************)
DestroyedInCleanup ==
    pc = "close" /\ "destroy" \notin trouble =>
        \A b \in Buffer : handles[b] = 0

(***************************************************************************)
(* An exit status of 0 says that the job ran, as the status of every other *)
(* failing call does that keeps it from running.                           *)
(***************************************************************************)
ZeroMeansRan == pc = "exited" /\ status = 0 => ran # "no"
=============================================================================
