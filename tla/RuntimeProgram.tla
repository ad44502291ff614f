--------------------------- MODULE RuntimeProgram ---------------------------
(***************************************************************************)
(* One program of RuntimePrograms at work: it picks the model of a case,   *)
(* goes through the calls of the case, and unwinds when one of them fails; *)
(* any call may fail, any model file may be missing, and the output of a   *)
(* run may hold right values, wrong ones and, when it is a float, values   *)
(* that are no numbers.  MaxCases bounds the cases of one run of main.     *)
(***************************************************************************)
EXTENDS RuntimePrograms

CONSTANTS Programs, MaxCases

ASSUME ProgramsAssumption == /\ Programs \subseteq DOMAIN Program
                             /\ MaxCases \in Nat \ {0}

VARIABLES
    name,       \* the program
    alone,      \* whether it was given a size: one case, then it returns
    cases,      \* how many cases it has begun
    size,       \* the elements of the case at hand, 0 between two cases
    model,      \* "exact", "generic" or "absent", the file it picked
    kind,       \* the type of the output of that model
    rest,       \* the calls of the case still to make
    failed,     \* whether a call of this case failed
    output,     \* the elements of the output buffer, <<>> when it has none
    result,     \* the elements the program has read
    verdict,    \* "none", "yes" or "no": the comparison it printed
    status,     \* what main will return
    unmatched,  \* whether a case that ran did not end with a "yes"
    exit,       \* "running", "ok" or "failed"
    ctx, fed, ran, held, mems

Session == INSTANCE RuntimeSession

case == <<size, model, kind, rest, failed, output, result, verdict>>
session == <<ctx, fed, ran, held, mems>>
progress == <<cases, status, unmatched, exit>>
vars == <<name, alone, case, progress, session>>

P == Program[name]

Values == IF kind = "float" THEN {"right", "wrong", "nan"}
                            ELSE {"right", "wrong"}

(* The elements the model puts out; the generic model is of one element.   *)
Elements == IF model = "generic" THEN 1 ELSE size

Fresh ==
    /\ model = "absent" /\ kind = "float" /\ rest = <<>> /\ failed = FALSE
    /\ output = <<>> /\ result = <<>> /\ verdict = "none"

Init ==
    /\ name \in Programs
    /\ alone \in (IF Program[name].loops THEN BOOLEAN ELSE {TRUE})
    /\ cases = 0 /\ status = "ok" /\ unmatched = FALSE /\ exit = "running"
    /\ size = 0 /\ Fresh
    /\ Session!SessionInit

----------------------------------------------------------------------------
(* pick_model: the file there is among the ones it looks for.              *)
Picked(n, files) ==
    IF "exact" \in files THEN "exact"
    ELSE IF n \in P.pick.blind THEN "absent"
    ELSE IF n # 1 /\ "generic" \in files /\ P.pick.generic # "no"
         THEN "generic"
    ELSE IF P.pick.generic = "blind" THEN "absent"
    ELSE "none"

(* The model decides whether elements go one by one: the path of the       *)
(* exact model of one element is the generic one, but its case is whole.   *)
ScriptFor(n, file) ==
    IF n # 1 /\ file = "generic" THEN P.scalar[n] ELSE P.whole[n]

BeginCase ==
    /\ exit = "running" /\ size = 0 /\ cases < MaxCases
    /\ alone => cases = 0
    /\ cases' = cases + 1
    /\ \E n \in P.sizes, files \in SUBSET {"exact", "generic"} :
          \/ /\ Picked(n, files) # "none"
             /\ size' = n
             /\ model' = Picked(n, files)
             /\ kind' \in Kinds
             /\ rest' = ScriptFor(n, Picked(n, files))
             /\ UNCHANGED <<status, exit>>
          \/ /\ Picked(n, files) = "none"
             /\ IF P.missing = "skip"
                THEN /\ status' = status
                     /\ exit' = IF alone THEN P.alone ELSE "running"
                ELSE /\ status' = "failed"
                     /\ exit' = "failed"
             /\ rest' = <<>>
             /\ UNCHANGED <<size, model, kind>>
    /\ failed' = FALSE /\ output' = <<>> /\ result' = <<>>
    /\ verdict' = "none"
    /\ UNCHANGED <<name, alone, unmatched, session>>

----------------------------------------------------------------------------
(* The call at hand; Advance goes on with the next one, Unwind leaves the  *)
(* case by the clean-up of its failing branch.                             *)
Calling(calls) ==
    /\ exit = "running" /\ rest # <<>>
    /\ Head(rest).call \in calls

Advance == rest' = Tail(rest) /\ failed' = failed

(* Mutant: a failing branch that forgets the last call of its clean-up.    *)
UnwindShort ==
    /\ rest' = IF Head(rest).undo = <<>> THEN <<>>
               ELSE Front(Sure(Head(rest).undo))
    /\ failed' = TRUE

Unwind == rest' = Sure(Head(rest).undo) /\ failed' = TRUE

Rest == <<name, alone, size, model, kind, progress>>

(* Calls the runtime, the file system or a child process may refuse.       *)
Fallible == {"load", "init", "query", "check", "fill", "set", "run", "get",
             "convert", "create_mem", "set_io_mem", "bind", "mem_sync",
             "read_mem"}

CallFails ==
    /\ Calling(Fallible)
    /\ ~failed
    /\ Unwind
    /\ UNCHANGED <<output, result, verdict, Rest, session>>

(* Calls that leave the session and the output as they are.                *)
Asks ==
    /\ Calling({"load", "query", "check", "fill", "convert", "set_io_mem",
                "mem_sync"})
    /\ Head(rest).call = "load" => model # "absent"
    /\ Advance
    /\ UNCHANGED <<output, result, verdict, Rest, session>>

OpenContext ==
    /\ Calling({"init"})
    /\ ctx' = TRUE
    /\ Advance
    /\ UNCHANGED <<output, result, verdict, Rest, fed, ran, held, mems>>

SetInputs ==
    /\ Calling({"set", "bind"})
    /\ fed' = TRUE /\ ran' = FALSE
    /\ Advance
    /\ UNCHANGED <<output, result, verdict, Rest, ctx, held, mems>>

RunModel ==
    /\ Calling({"run"})
    /\ ran' = TRUE
    /\ Advance
    /\ UNCHANGED <<output, result, verdict, Rest, ctx, fed, held, mems>>

(* rknn_outputs_get, or a sync of the memory the output lies in.           *)
GetOutput ==
    /\ Calling({"get", "read_mem"})
    /\ output' \in [1 .. Elements -> Values]
    /\ held' = (held \/ Head(rest).call = "get")
    /\ Advance
    /\ UNCHANGED <<result, verdict, Rest, ctx, fed, ran, mems>>

(* The program's own tests of the output.                                  *)
Passes(test) ==
    \/ test = "type" /\ kind \in P.accepts
    \/ test = "size" /\ Len(output) >= size
    \/ test = "finite" /\ \A i \in DOMAIN output : output[i] # "nan"

TestOutput ==
    /\ Calling({"type", "size", "finite"})
    /\ IF Passes(Head(rest).call) THEN Advance ELSE Unwind
    /\ UNCHANGED <<output, result, verdict, Rest, session>>

(* What a read finds at an element: outside the buffer anything, shown as  *)
(* "stray"; a NaN converted to an integer becomes any integer.             *)
Found(i) == IF i \in DOMAIN output THEN output[i] ELSE "stray"

AsInteger(v) == IF v = "nan" THEN {"right", "wrong"} ELSE {v}

ReadOutput ==
    /\ \/ Calling({"copy"}) /\ result' = [i \in 1 .. size |-> Found(i)]
       \/ /\ Calling({"copy_int"})
          /\ \E r \in [1 .. size -> {"right", "wrong", "stray"}] :
                /\ \A i \in 1 .. size : r[i] \in AsInteger(Found(i))
                /\ result' = r
       \/ Calling({"take"}) /\ result' = Append(result, Found(1))
    /\ Advance
    /\ UNCHANGED <<output, verdict, Rest, session>>

(* Mutant: the comparison alone, without the test for what is finite.      *)
SpoilsByDistance(compare) == {"wrong"}

(* The loop over the elements: what is far from the expected value spoils  *)
(* the match, and `diff > tol` does not hold of a NaN.                     *)
Spoils(compare) ==
    IF compare = "compare" THEN {"wrong"} ELSE {"wrong", "nan"}

Compare ==
    /\ Calling({"compare", "compare_finite"})
    /\ LET spoilt == \E i \in DOMAIN result :
                        result[i] \in Spoils(Head(rest).call)
       IN  verdict' = IF spoilt THEN "no" ELSE "yes"
    /\ Advance
    /\ UNCHANGED <<output, result, Rest, session>>

ReleaseOutput ==
    /\ Calling({"release"})
    /\ held' = FALSE
    /\ output' = <<>>
    /\ Advance
    /\ UNCHANGED <<result, verdict, Rest, ctx, fed, ran, mems>>

CreateMem ==
    /\ Calling({"create_mem"})
    /\ mems' = mems + 1
    /\ Advance
    /\ UNCHANGED <<output, result, verdict, Rest, ctx, fed, ran, held>>

DestroyMem ==
    /\ Calling({"destroy_mem"})
    /\ mems' = mems - 1
    /\ output' = <<>>
    /\ Advance
    /\ UNCHANGED <<result, verdict, Rest, ctx, fed, ran, held>>

DestroyContext ==
    /\ Calling({"destroy"})
    /\ ctx' = FALSE /\ fed' = FALSE /\ ran' = FALSE
    /\ output' = <<>>
    /\ Advance
    /\ UNCHANGED <<result, verdict, Rest, held, mems>>

----------------------------------------------------------------------------
(* The last failure wins over the cases that passed after it.              *)
StatusAfter(bad) == IF bad THEN "failed" ELSE status

(* What run_case returns, and what main makes of it.                       *)
EndCase ==
    LET bad == failed \/ (P.exit = "status" /\ verdict = "no")
    IN  /\ exit = "running" /\ size # 0 /\ rest = <<>>
        /\ size' = 0
        /\ unmatched' = (unmatched \/ failed \/ verdict # "yes")
        /\ status' = StatusAfter(bad)
        /\ exit' = IF alone \/ (failed /\ P.exit = "zero")
                   THEN status' ELSE "running"
        /\ UNCHANGED <<name, alone, cases, model, kind, rest, failed,
                       output, result, verdict, session>>

Return ==
    /\ exit = "running" /\ size = 0 /\ cases > 0 /\ ~alone
    /\ exit' = status
    /\ UNCHANGED <<name, alone, case, cases, status, unmatched,
                   session>>

Next ==
    \/ BeginCase \/ CallFails \/ Asks \/ OpenContext \/ SetInputs
    \/ RunModel \/ GetOutput \/ TestOutput \/ ReadOutput \/ Compare
    \/ ReleaseOutput \/ CreateMem \/ DestroyMem \/ DestroyContext
    \/ EndCase \/ Return

Spec == Init /\ [][Next]_vars

----------------------------------------------------------------------------
(* What the variables range over, between any two calls.                   *)
TypeOK ==
    /\ name \in Programs
    /\ alone \in BOOLEAN /\ unmatched \in BOOLEAN /\ failed \in BOOLEAN
    /\ cases \in 0 .. MaxCases
    /\ size \in {0} \cup P.sizes
    /\ model \in {"exact", "generic", "absent"}
    /\ kind \in Kinds
    /\ output \in BoundedSeq(Values, Many)
    /\ result \in BoundedSeq(Values \cup {"stray"}, Many)
    /\ verdict \in {"none", "yes", "no"}
    /\ status \in {"ok", "failed"}
    /\ exit \in {"running", "ok", "failed"}
    /\ {ctx, fed, ran, held} \subseteq BOOLEAN
    /\ mems \in 0 .. 3

(* However a program leaves a case, it has made the calls of the runtime   *)
(* in an order the runtime allows: it never destroys a context with an     *)
(* output or a memory still held, never releases or destroys twice, never  *)
(* asks for the output of a context that did not run on the inputs set     *)
(* last.                                                                   *)
KeepsSession == Session!SessionSpec

(* A program that returns, by whichever branch, has given back its         *)
(* context, its output and its memories.                                   *)
NothingKept == exit # "running" => ~ctx /\ ~held /\ mems = 0

(* Every element a program shows or compares lies in the output buffer of  *)
(* the model it picked, at a time it still has the buffer.                 *)
ReadsInside == \A i \in DOMAIN result : result[i] # "stray"

(* "NPU result match CPU: YES" is printed of right values only.            *)
YesMeansRight ==
    verdict = "yes" => \A i \in DOMAIN result : result[i] = "right"

(* A program that reports by its exit status returns 0 only when every     *)
(* case for which there was a model ran to its end and matched.            *)
OkMeansMatched == exit = "ok" /\ P.exit = "status" => ~unmatched
=============================================================================
