----------------------------- MODULE OpContract ----------------------------
(***************************************************************************)
(* What an operation promises its caller, without the calls it makes: it   *)
(* collects memory, has the NPU compute into it, settles what it returns,  *)
(* and only then gives the memory back, all of it, before it returns. It   *)
(* returns NULL, or nothing but a check, or the result of its own          *)
(* computation, and the last only after that computation has ended.        *)
(***************************************************************************)
CONSTANTS Obj

VARIABLES
  phase,    \* "idle", "busy", "computed", "settled", "exited"
  memory,   \* the objects the operation keeps alive
  result    \* what it has settled to return

contractVars == <<phase, memory, result>>

ContractInit == phase = "idle" /\ memory = {} /\ result = "none"

Call ==
  /\ phase = "idle"
  /\ phase' = "busy"
  /\ result' = "none"
  /\ UNCHANGED memory

Collect ==
  /\ phase = "busy"
  /\ \E o \in Obj \ memory : memory' = memory \cup {o}
  /\ UNCHANGED <<phase, result>>

(* Four buffers take part: tasks, weights, input and output.               *)
Compute ==
  /\ phase = "busy"
  /\ \E t, w, i, o \in memory :
       t # w /\ t # i /\ t # o /\ w # i /\ w # o /\ i # o
  /\ phase' = "computed"
  /\ UNCHANGED <<memory, result>>

(* Giving up may cost one more object, when its destruction fails.         *)
Settle ==
  /\ \/ phase = "busy" /\ result' \in {"null", "checked"}
     \/ phase = "computed" /\ result' \in {"null", "result"}
  /\ phase' = "settled"
  /\ memory' = memory \/ \E o \in Obj : memory' = memory \cup {o}

GiveBack ==
  /\ phase = "settled"
  /\ memory' \subseteq memory
  /\ UNCHANGED <<phase, result>>

Return ==
  /\ phase = "settled"
  /\ phase' = "idle"
  /\ memory' = {}
  /\ UNCHANGED result

Exit ==
  /\ phase = "idle"
  /\ phase' = "exited"
  /\ UNCHANGED <<memory, result>>

ContractNext ==
  Call \/ Collect \/ Compute \/ Settle \/ GiveBack \/ Return \/ Exit

ContractSpec == ContractInit /\ [][ContractNext]_contractVars
=============================================================================
