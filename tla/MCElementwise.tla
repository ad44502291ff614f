--------------------------- MODULE MCElementwise ---------------------------
(***************************************************************************)
(* The element-wise half of ops_reg. One process is started: "geometry" is *)
(* main with its calls one after the other as AluGeometry sees them, the   *)
(* others are the test functions of main by what they compute. The         *)
(* variables of the processes that do not run keep an initial or an idle   *)
(* value.                                                                  *)
(***************************************************************************)
EXTENDS AluGeometry, SequencesExt, Functions

CONSTANTS
  Processes,                              \* those a run starts
  Values, Pairs, Ramps, Images,           \* of AluCase
  libm, Tests, Inputs, MaxSize,           \* of LutCase
  Sizes, Kinds, Precision                 \* of MinmaxBin

VARIABLES
  process,
  case_pc, op, caller, shape, buf, k, verdict, right, case_status,
  cmpeq_last, cmpeq_last_size,
  lut_pc, test, last, features, output, result, lut, lut_status,
  size, device, kind, fixed, todo, verdicts, minmax_status

caseVars == <<case_pc, op, caller, shape, buf, k, verdict, right, case_status,
              cmpeq_last, cmpeq_last_size>>
lutVars == <<lut_pc, test, last, features, output, result, lut, lut_status>>
minmaxVars == <<size, device, kind, fixed, todo, verdicts, minmax_status>>

Case == INSTANCE AluCase WITH pc <- case_pc, status <- case_status
Lut == INSTANCE LutCase WITH pc <- lut_pc, status <- lut_status
Minmax == INSTANCE MinmaxBin WITH status <- minmax_status

ASSUME ElementwiseAssumption ==
  Case!CaseAssumption /\ Lut!LutAssumption /\ Minmax!MinmaxAssumption

Idle == "idle"
NoGeometry == Init /\ calls = Script
NoCase ==
  /\ case_pc = Idle /\ op = Idle /\ caller = Idle /\ shape = Idle /\ buf = Idle
  /\ k = Idle /\ verdict = Idle /\ right = Idle /\ case_status = Idle
  /\ cmpeq_last = Idle /\ cmpeq_last_size = Idle
NoLut ==
  /\ lut_pc = Idle /\ test = Idle /\ last = Idle /\ features = Idle
  /\ output = Idle /\ result = Idle /\ lut = Idle /\ lut_status = Idle
NoMinmax ==
  /\ size = Idle /\ device = Idle /\ kind = Idle /\ fixed = Idle
  /\ todo = Idle /\ verdicts = Idle /\ minmax_status = Idle

ElementwiseInit ==
  /\ process \in Processes
  /\ IF process = "geometry" THEN Init ELSE NoGeometry
  /\ IF process = "case" THEN Case!Init ELSE NoCase
  /\ IF process = "lut" THEN Lut!Init ELSE NoLut
  /\ IF process = "minmax" THEN Minmax!Init ELSE NoMinmax

MinmaxDone == Minmax!Done /\ UNCHANGED minmaxVars

ElementwiseNext ==
  \/ /\ process = "geometry" /\ Next
     /\ UNCHANGED <<process, caseVars, lutVars, minmaxVars>>
  \/ /\ process = "case" /\ Case!Next
     /\ UNCHANGED <<process, vars, lutVars, minmaxVars>>
  \/ /\ process = "lut" /\ Lut!Next
     /\ UNCHANGED <<process, vars, caseVars, minmaxVars>>
  \/ /\ process = "minmax" /\ (Minmax!Next \/ MinmaxDone)
     /\ UNCHANGED <<process, vars, caseVars, lutVars>>

ElementwiseSpec ==
  ElementwiseInit
    /\ [][ElementwiseNext]_<<process, vars, caseVars, lutVars, minmaxVars>>

(***************************************************************************)
(* test_add to test_silu on an NPU that computes right: every case accepts *)
(* what its stages and host steps make of it, and cmpneq never negates an  *)
(* answer that cmpeq kept of an earlier case.                              *)
(***************************************************************************)
CasesSound ==
  process = "case" =>
    /\ Case!TypeOK
    /\ Case!RightIsAccepted
    /\ Case!CmpneqWorksOnItsCmpeq

(***************************************************************************)
(* The look-up tests: both tables have one value at zero, no case looks    *)
(* beyond its table, and what is read, decoded, is the function itself.    *)
(***************************************************************************)
LookupsSound ==
  process = "lut" =>
    /\ Lut!TypeOK
    /\ Lut!TablesMeet
    /\ Lut!InputsInsideTable
    /\ Lut!ResultIsFunction

(***************************************************************************)
(* test_minmax_bin: a right device is accepted whatever it writes for a    *)
(* yes, one deaf to its operands fails some of the six cases, and no later *)
(* case hides a failed one.                                                *)
(***************************************************************************)
MinmaxSound ==
  process = "minmax" =>
    /\ Minmax!TypeOK
    /\ Minmax!RightIsAccepted
    /\ Minmax!DeafIsCaught
    /\ Minmax!FailureIsKept

-----------------------------------------------------------------------------
(* What the constants are given. First AluGeometry: kTests and the configs *)
(* of its test functions, in order.                                        *)
Sized(case, rows, cols) == [case |-> case, rows |-> rows, cols |-> cols]

AllTests ==
  <<Sized("max", 2, 2), Sized("div", 2, 2), Sized("idiv", 4, 4)>> \o
  [i \in 1..5 |-> Sized("pool", 4, 4)] \o
  <<Sized("globalavgpool", 4, 4), Sized("compare", 2, 2),
    Sized("compare", 2, 2), Sized("compare", 2, 2), Sized("compare", 1, 1),
    Sized("compare", 1, 3), Sized("compare", 1, 1), Sized("compare", 2, 2),
    Sized("compare", 12, 5), Sized("cmpeq", 2, 2), Sized("cmpneq", 2, 2),
    Sized("add", 1, 1), Sized("add", 2, 2), Sized("add", 8, 8),
    Sized("unary", 1, 1), Sized("rounddown", 4, 4), Sized("unary", 4, 4),
    Sized("unary", 2, 2), Sized("unary", 1, 5), Sized("unary", 8, 8),
    Sized("where", 1, 1), Sized("where", 2, 2), Sized("where", 8, 8),
    Sized("unary", 1, 1), Sized("unary", 2, 2), Sized("unary", 4, 4),
    Sized("unary", 8, 8), Sized("unary", 1, 1), Sized("unary", 2, 2),
    Sized("unary", 8, 8), Sized("table", 2, 2)>> \o
  [i \in 1..4 |-> Sized("table", 4, 4)] \o
  [i \in 1..15 |-> Sized("lut", 4, 4)] \o
  <<Sized("lut", 64, 64)>> \o
  [i \in 1..9 |-> Sized("table", 4, 4)] \o
  <<Sized("silu", 4, 4), Sized("relu", 2, 2)>>

(* Shapes of the command line at the limits of a register field.           *)
SmallCalls == {<<0, 3>>, <<1, 1>>, <<1, 16>>, <<2, 7>>, <<3, 5>>}
WideCalls == {<<1, 8192>>, <<8192, 1>>, <<3, 2500>>, <<17, 256>>}
LargeCalls == {<<100, 100>>, <<256, 256>>, <<8, 8192>>, <<300, 300>>}

Calls(cases, shapes) ==
  {Sized(case, s[1], s[2]) : case \in cases, s \in shapes}

FixedCube == {"pool", "table", "silu"}
NeverSet == {"add", "relu"}
CliTests ==
  Calls(DOMAIN Stages, SmallCalls)
    \cup Calls(DOMAIN Stages \ FixedCube, WideCalls)
    \cup Calls(DOMAIN Stages \ (FixedCube \cup NeverSet), LargeCalls)

(* Shapes the cases accept, larger than what the registers can say.        *)
WideAdd == Calls(NeverSet, LargeCalls)
FixedCalls == Calls(FixedCube, {<<4, 4>>, <<4, 5>>, <<8, 8>>})

-----------------------------------------------------------------------------
(* AluCase.                                                                *)
Of(r, c) == [rows |-> r, cols |-> c]

MCValues == {-24, 0, 12}
MCPairs == {Of(1, 1), Of(1, 2)}
MCRamps == {Of(1, 1), Of(1, 2), Of(1, 3), Of(2, 2), Of(3, 3)}

(* A single peak, up or down, on a flat image.                             *)
MCImages == {[i \in 1..16 |-> IF i = p THEN v ELSE -16] : p \in 1..16, v \in {48, -48}}

-----------------------------------------------------------------------------
(* LutCase.                                                                *)
(* The values of a function at the steps of a sequence.                    *)
At(steps, values) == [j \in Range(steps) |-> values[CHOOSE i \in DOMAIN steps : steps[i] = j]]

(* 0, 1, 2, 3 and the last step of a table of 5216 to the one, and 0, 1/2, *)
(* 15/16 and the last of one of 16384; below, those around 1 and 2.        *)
Wide == <<-512, -489, -326, -163, 0, 163, 326, 489, 512>>
Unit == <<-512, -480, -256, 0, 256, 480, 512>>

(* The C library, 2^20 to the one.                                         *)
MClibm == [
  sin |-> At(Wide, <<-512, -147975, -953467, -882346, 0, 882346, 953467, 147975, 512>>),
  cos |-> At(Wide, <<-1048576, -1038082, -436362, 566548, 1048576, 566548, -436362, -1038082, -1048576>>),
  tanh |-> At(Wide, <<-1044663, -1043391, -1010856, -798589, 0, 798589, 1010856, 1043391, 1044663>>),
  atan |-> At(Wide, <<-1323914, -1309719, -1160930, -823550, 0, 823550, 1160930, 1309719, 1323914>>),
  asinh |-> At(Wide, <<-1952603, -1906779, -1513762, -924187, 0, 924187, 1513762, 1906779, 1952603>>),
  acosh |-> At(Wide, <<0, 0, 0, 0, 0, 0, 1380930, 1848374, 1899351>>),
  sinh |-> At(Wide, <<-12103796, -10504503, -3803039, -1232288, 0, 1232288, 3803039, 10504503, 12103796>>),
  cosh |-> At(Wide, <<12149132, 10556709, 3944948, 1618037, 1048576, 1618037, 3944948, 10556709, 12149132>>),
  exp |-> At(Wide, <<45335, 52206, 141909, 385750, 1048576, 2850325, 7747987, 21061212, 24252928>>),
  exp2 |-> At(Wide, <<118859, 131072, 262144, 524288, 1048576, 2097152, 4194304, 8388608, 9250528>>),
  log1pexp |-> At(Wide, <<44383, 50948, 133094, 328479, 726817, 1377055, 2230246, 3196676, 3338069>>),
  tanhlog1pexp |-> At(Wide, <<44356, 50907, 132383, 318139, 629146, 907121, 1019194, 1043870, 1044980>>),
  erfsqrt2 |-> At(Wide, <<-1046811, -1045745, -1000866, -715852, 0, 715852, 1000866, 1045745, 1046811>>),
  exp1702 |-> At(Wide, <<4998, 6355, 34855, 191175, 1048576, 5751341, 31545566, 173024474, 219992304>>),
  asin |-> At(Unit, <<-1647099, -1274413, -549033, 0, 549033, 1274413, 1647099>>),
  acos |-> At(Unit, <<3294199, 2921513, 2196132, 1647099, 1098066, 372686, 0>>),
  atanh |-> At(Unit, <<0, -1800398, -575989, 0, 575989, 1800398, 0>>),
  exp2596 |-> At(<<-163, -162, -82, -81, 0, 81, 82, 162, 163>>, <<140603, 142347, 381611, 386344, 1048576, 2845937, 2881235, 7724147, 7819949>>),
  exp2824 |-> At(<<-177, -176, -89, -88, 0, 88, 89, 176, 177>>, <<141108, 142716, 382485, 386844, 1048576, 2842262, 2874652, 7704213, 7792009>>),
  asinh_of_32 |-> 4361161,
  acosh_of_32 |-> 4360649,
  atanh_of_0_999 |-> 3984800]

(* The look-up tests in the order of kTests; sigmoid runs two cases.       *)
MCTests ==
  <<14, 14, 28, 30, 29>> \o [i \in 1..16 |-> i + 39] \o <<32, 33, 34, 35, 36, 38, 39, 31, 37, 15>>

MCInputs ==
  [linear |-> {-64, -32, 0, 32, 64}, asin |-> {-30, -16, 0, 16, 30}, acosh |-> {32, 64, 96}]

-----------------------------------------------------------------------------
(***************************************************************************)
(* MinmaxBin: the halves 1 and -0, the float 1, the byte 1 and a slot of   *)
(* ones, with every constant output of four to eleven elements, as many as *)
(* halves of 3 bits can tell apart.                                        *)
(***************************************************************************)
Slots == {"fp16_pos", "fp16_nz", "fp32_pos", "fp32_nz", "u8_slot",
          "u16_slot", "u32_slot", "slot_any"}

MCKinds ==
    {[shows |-> Slots \ {"u8_slot"}, bits |-> 10 .. 13],
     [shows |-> {"u16_slot", "u32_slot", "slot_any", "fp32_pos", "fp32_nz"},
      bits |-> {15}],
     [shows |-> {"fp32_pos", "fp32_nz", "u32_slot", "slot_any"},
      bits |-> 23 .. 29],
     [shows |-> Slots, bits |-> {0}],
     [shows |-> Slots \ {"fp16_pos", "fp32_pos"}, bits |-> 0 .. 127]}
=============================================================================
