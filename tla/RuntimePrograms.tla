-------------------------- MODULE RuntimePrograms --------------------------
(***************************************************************************)
(* The programs under src/ops_rknn that put one operator of a prepared     *)
(* model on the NPU through the vendor runtime, each as data: which model  *)
(* it picks, the calls one case makes in order, and for each call the      *)
(* clean-up its failing branch makes before the case gives up.  Messages,  *)
(* sample values and tolerances are left out.  A case has one element or   *)
(* Many of them; the sizes of main are those two kinds.                    *)
(*                                                                         *)
(* In a script "copy" reads every element of the case from the output,     *)
(* "take" the first one; the _int forms convert what they read to an       *)
(* integer.  "compare" is the loop `if (diff > tol) ok = false`,           *)
(* "compare_finite" one that also refuses what is not finite, "type" the   *)
(* test of the output type, "size" that of output.size, "finite" that of   *)
(* each element before it is used, "check" any other test of what the      *)
(* runtime reported.                                                       *)
(***************************************************************************)
EXTENDS Naturals, Sequences, SequencesExt

CONSTANT Many

ASSUME ManyAssumption == Many \in Nat /\ Many > 1

Totals == {1, Many}

\* The types an output tensor may have.
Kinds == {"float", "int", "byte"}

(* A call with the clean-up of its failing branch, and several with one. *)
Step(call, undo) == [call |-> call, undo |-> undo]
Steps(calls, undo) == [i \in DOMAIN calls |-> Step(calls[i], undo)]
Sure(calls) == Steps(calls, <<>>)

(* The same script for a case of any size. *)
AnySize(script) == [n \in Totals |-> script]

(* A script repeated for each element between an opening and a closing. *)
PerElement(opening, element, closing) ==
    [n \in Totals |->
        opening \o FlattenSeq([i \in 1 .. n |-> element]) \o closing]

(* load_model and rknn_init: nothing to undo. *)
Opening == Sure(<<"load", "init">>)

Queried == Opening \o Steps(<<"query">>, <<"destroy">>)

(* rknn_inputs_set, rknn_run, rknn_outputs_get: the context is destroyed  *)
(* when one of them fails.                                                *)
Inference == Steps(<<"set", "run", "get">>, <<"destroy">>)

(* Mutant: the context is destroyed and the output kept.                   *)
CheckedUnreleased(checks) == Steps(checks, <<"destroy">>)

Checked(checks) == Steps(checks, <<"release", "destroy">>)

----------------------------------------------------------------------------
(* Picking a model: the exact one, a generic 1x1 one when there is none.  *)
(* A path is "blind" when the program returns it without a look at the    *)
(* file.                                                                  *)
ExactOnly == [blind |-> {}, generic |-> "no"]
ExactOrOne == [blind |-> {1}, generic |-> "no"]
ExactOrGeneric == [blind |-> {}, generic |-> "found"]
Named == [blind |-> Totals, generic |-> "no"]
SelectModelPath == [blind |-> {}, generic |-> "blind"]

(* A program made of cases over the sizes of its main.  It skips a size    *)
(* without a model and returns the last failure of the others; run with a  *)
(* size as argument it does that one case, where a missing model is an     *)
(* error.                                                                  *)
Cases(pick, accepts, sizes, whole, scalar) ==
    [pick |-> pick, accepts |-> accepts, sizes |-> sizes,
     whole |-> whole, scalar |-> scalar,
     loops |-> TRUE, missing |-> "skip", alone |-> "failed",
     exit |-> "status"]

(* A program whose cases are listed in main, with a model of each: no case *)
(* is skipped.                                                             *)
Listed(sizes, whole) ==
    [Cases(Named, Kinds, sizes, whole, whole) EXCEPT !.missing = "fail"]

(* A program that gives up at the first failing call and returns 0 when    *)
(* none failed, whatever it printed of its comparison.                     *)
Printed(pick, sizes, whole) ==
    [Cases(pick, Kinds, sizes, whole, whole)
        EXCEPT !.loops = FALSE, !.missing = "fail", !.exit = "zero"]

----------------------------------------------------------------------------
(* add.cpp and its copies.  run_scalar runs one element on the 1x1 model.  *)
RunScalar(checks) ==
    Inference \o Checked(checks) \o Sure(<<"take", "release">>)

RunEach(checks, compare) ==
    PerElement(Queried, RunScalar(checks), Sure(<<compare, "destroy">>))

RunWhole(checks, compare) ==
    AnySize(Queried \o Inference \o Checked(checks)
            \o Sure(<<"copy", "release", compare, "destroy">>))

AddCpp == Cases(ExactOnly, {"float"}, Totals,
                RunWhole(<<"type">>, "compare"),
                RunEach(<<"type", "finite">>, "compare"))

MaxCpp == AddCpp

MinCpp == AddCpp

MinusCpp == [AddCpp EXCEPT !.sizes = {Many}]

(* The comparisons also take a type that is not a float, byte by byte.     *)
CmpneCpp == Cases(ExactOnly, Kinds, Totals, RunWhole(<<>>, "compare"),
                  RunEach(<<"finite">>, "compare"))

CmpltCpp == [CmpneCpp EXCEPT !.sizes = {Many}]

WhereCpp == [AddCpp EXCEPT !.sizes = {Many}, !.scalar = AddCpp.whole]

NegCpp == Cases(ExactOrGeneric, Kinds, {Many},
                RunWhole(<<>>, "compare_finite"),
                RunEach(<<"finite">>, "compare_finite"))

(* The integer programs read an INT32 output as floats and truncate them:  *)
(* on a whole tensor what is not finite is converted like the rest.        *)
AddIntCpp ==
    Cases(ExactOrGeneric, {"float", "int"}, Totals,
          AnySize(Queried \o Inference \o Checked(<<"type", "size">>)
                  \o Sure(<<"copy_int", "release", "compare", "destroy">>)),
          RunEach(<<"type", "finite">>, "compare"))

ShiftCase == AddIntCpp

(* Its main counts a missing model of the one size asked for as no error.  *)
ShiftCpp == [ShiftCase EXCEPT !.alone = "ok"]

CastCpp ==
    Cases([ExactOrGeneric EXCEPT !.blind = {1}], Kinds, Totals,
          RunWhole(<<"type", "size", "finite">>, "compare"),
          RunEach(<<"type", "finite">>, "compare"))

IdivCpp == Cases(ExactOnly, {"float"}, Totals,
                 RunWhole(<<"type", "size", "finite">>, "compare"),
                 RunEach(<<"type", "finite">>, "compare"))

----------------------------------------------------------------------------
(* abs.cpp and its copies keep the output until they have compared.        *)
CompareHeld(opening, checks, compare) ==
    AnySize(opening \o Inference \o Checked(checks)
            \o Sure(<<"copy", compare, "release", "destroy">>))

Unary(opening, checks, compare) ==
    LET script == CompareHeld(opening, checks, compare)
    IN  Cases(ExactOrOne, Kinds, Totals, script, script)

AbsCpp == Unary(Queried, <<>>, "compare_finite")

CeilCpp == Unary(Queried, <<>>, "compare_finite")

FloorCpp == Unary(Queried, <<>>, "compare_finite")

RecipCpp == Unary(Queried \o Steps(<<"check">>, <<"destroy">>), <<>>,
                  "compare_finite")

DivCpp == [Unary(Opening, <<>>, "compare_finite") EXCEPT !.sizes = {Many}]

TanhCpp == Unary(Queried \o Steps(<<"check">>, <<"destroy">>), <<"size">>,
                 "compare")

SwigluCpp == TanhCpp

(* The inputs of these come from a Python process that may fail.           *)
Filled == Opening \o Steps(<<"fill">>, <<"destroy">>)

ReluCpp == Printed(ExactOrOne, {Many},
                   CompareHeld(Filled, <<>>, "compare"))

SigmoidCpp == ReluCpp

SiluCpp == ReluCpp

ActivationCpp == [ReluCpp EXCEPT !.pick = ExactOnly, !.sizes = Totals]

----------------------------------------------------------------------------
(* The programs of one operation named on the command line print their     *)
(* results beside the expected ones and compare nothing.                   *)
Shown == AnySize(Opening \o Inference
                 \o Sure(<<"copy", "release", "destroy">>))

OpsFloat16Cpp == Printed(SelectModelPath, Totals, Shown)

OpsFloat16ReluCpp == Printed(SelectModelPath, Totals, Shown)

XorCpp == Printed(SelectModelPath, Totals, Shown)

(* These feed the model one element at a time, "since the model is 1x1".   *)
OpsInt32Cpp ==
    Printed(SelectModelPath, Totals,
            PerElement(Opening,
                       Inference \o Sure(<<"take", "release">>),
                       Sure(<<"destroy">>)))

OpsInt8Cpp == OpsInt32Cpp

(* Its failing branches return with the context alive.                     *)
ReferenceInt8AddCpp ==
    Printed(Named, {Many},
            AnySize(Sure(<<"load", "init", "query", "check", "set", "run",
                           "get", "copy", "release", "destroy">>)))

----------------------------------------------------------------------------
(* The programs of one operator with weights.                              *)
(* The formats their inputs are laid out for are known ones.               *)
FormatKnown == Queried \o Steps(<<"check">>, <<"destroy">>)

(* conv2d_simple.cpp: input in the format the model reports, inference,    *)
(* the output after one more query.                                        *)
Conv2dSimpleInput == FormatKnown

Conv2dSimpleOutput ==
    Steps(<<"query">>, <<"destroy">>) \o Sure(<<"copy", "release">>)

Conv2dSimpleCpp ==
    Printed(Named, {Many},
        AnySize(Conv2dSimpleInput \o Inference \o Conv2dSimpleOutput
                \o Sure(<<"destroy">>)))

(* run_test of conv2d_multi.cpp, the same with a comparison at its end.    *)
Conv2dMultiInput == FormatKnown

Conv2dMultiOutput ==
    Checked(<<"query", "check", "size", "check">>) \o Sure(<<"copy">>)

Conv2dMultiCompare == Sure(<<"compare", "release", "destroy">>)

Conv2dMultiCpp ==
    Listed({Many},
        AnySize(Conv2dMultiInput \o Inference \o Conv2dMultiOutput
                \o Conv2dMultiCompare))

(* run_test of matmul_multi.cpp: nothing of the output is tested before it *)
(* is read.                                                                *)
MatmulMultiInput == FormatKnown

MatmulMultiOutput == Sure(<<"copy", "compare", "release", "destroy">>)

MatmulMultiCpp ==
    Listed({Many},
        AnySize(MatmulMultiInput \o Inference \o MatmulMultiOutput))

(* run_pool_test: everything is given back before the comparison.          *)
PoolInput == FormatKnown

PoolOutput ==
    Checked(<<"check", "size">>) \o Sure(<<"copy", "release", "destroy">>)

PoolCpp ==
    Listed(Totals,
        AnySize(PoolInput \o Inference \o PoolOutput
                \o Sure(<<"compare">>)))

(* The output of conv1d_simple.cpp lies in a tensor memory of its own, and *)
(* main goes through its cases until a call fails.                         *)
destroy_output_mem == <<"destroy_mem", "destroy">>

Conv1dSimpleMem == Queried \o Steps(<<"create_mem">>, <<"destroy">>)

Conv1dSimpleInference ==
    Steps(<<"set_io_mem", "set", "run", "get">>, destroy_output_mem)
    \o Steps(<<"mem_sync">>, <<"release">> \o destroy_output_mem)

Conv1dSimpleOutput ==
    Sure(<<"copy", "release", "compare">> \o destroy_output_mem)

Conv1dSimpleCpp ==
    [Printed(Named, {Many},
        AnySize(Conv1dSimpleMem \o Conv1dSimpleInference
                \o Conv1dSimpleOutput))
        EXCEPT !.loops = TRUE]

(* matmul_api.cpp destroys its memories and its context on every way out:  *)
(* unwound[n] is what the destructors do when n memories exist.            *)
unwound == [n \in 0 .. 3 |->
    [i \in 1 .. n |-> "destroy_mem"] \o <<"destroy">>]

MatmulMems ==
    <<Step("create_mem", unwound[0]), Step("create_mem", unwound[1]),
      Step("create_mem", unwound[2])>>
    \o Steps(<<"mem_sync", "bind", "run", "read_mem">>, unwound[3])

Float16Output ==
    Steps(<<"check">>, unwound[3])
    \o Sure(<<"copy", "compare">> \o unwound[3])

RunFloat16Case ==
    AnySize(Sure(<<"init">>) \o Steps(<<"convert">>, unwound[0])
            \o MatmulMems \o Float16Output)

(* The dims of the context do not fit: another one is created in its place.*)
RunFloat16Recreated ==
    [n \in Totals |->
        Sure(<<"init", "destroy">>) \o RunFloat16Case[n]]

RunInt8Case ==
    AnySize(Sure(<<"init">>) \o MatmulMems
            \o Sure(<<"copy", "compare_finite">> \o unwound[3]))

MatmulApiCpp == Listed({Many}, RunFloat16Case)

MatmulApiRecreatedCpp == Listed({Many}, RunFloat16Recreated)

MatmulApiInt8Cpp == Listed({Many}, RunInt8Case)

----------------------------------------------------------------------------
Program ==
    [add |-> AddCpp, max |-> MaxCpp, min |-> MinCpp, minus |-> MinusCpp,
     cmpne |-> CmpneCpp, cmplt |-> CmpltCpp, where |-> WhereCpp,
     neg |-> NegCpp, add_int |-> AddIntCpp, shift |-> ShiftCpp,
     cast |-> CastCpp, idiv |-> IdivCpp, abs |-> AbsCpp, ceil |-> CeilCpp,
     floor |-> FloorCpp, recip |-> RecipCpp, div |-> DivCpp,
     tanh |-> TanhCpp, swiglu |-> SwigluCpp, relu |-> ReluCpp,
     sigmoid |-> SigmoidCpp, silu |-> SiluCpp, activation |-> ActivationCpp,
     ops_float16 |-> OpsFloat16Cpp, ops_float16_relu |-> OpsFloat16ReluCpp,
     xor |-> XorCpp, ops_int32 |-> OpsInt32Cpp, ops_int8 |-> OpsInt8Cpp,
     reference_int8add |-> ReferenceInt8AddCpp,
     conv2d_simple |-> Conv2dSimpleCpp, conv2d_multi |-> Conv2dMultiCpp,
     matmul_multi |-> MatmulMultiCpp, pool |-> PoolCpp,
     conv1d_simple |-> Conv1dSimpleCpp, matmul_api |-> MatmulApiCpp,
     matmul_api_recreated |-> MatmulApiRecreatedCpp,
     matmul_api_int8 |-> MatmulApiInt8Cpp]
=============================================================================
