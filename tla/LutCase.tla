------------------------------ MODULE LutCase ------------------------------
(***************************************************************************)
(* The activation functions the NPU looks up, and the cases that test      *)
(* them. An op fills its two tables on first use: LE with the function at  *)
(* 512 steps below zero up to zero, LO from zero to 512 steps above. The   *)
(* NPU multiplies an input by an operand to find its place in the tables,  *)
(* and a case turns the entry back into a value and compares it with the   *)
(* function computed on the CPU. Each function is thus written twice, once *)
(* for the table and once for the test, and so is its scale.               *)
(*                                                                         *)
(* Numbers are fixed point, 2^20 to the one. The C library is a constant,  *)
(* given at the steps a run looks at: the tables are kept there only, and  *)
(* an input is a step or a whole number between two. Registers other than  *)
(* the operand are in AluGeometry; the arrays of a case are not kept.      *)
(***************************************************************************)
EXTENDS Integers, Sequences, FiniteSetsExt, SequencesExt, Functions, Halves

CONSTANTS
  libm,    \* the C functions at the steps -512..512 of a table a run looks at
  Tests,   \* the algorithms of the tests, in the order they are run
  Inputs,  \* what each loader of inputs may load, 32 to the one
  MaxSize  \* elements of a case

VARIABLES
  pc,       \* "start", "run", "compare", "exit"
  test,     \* the test that is run
  last,     \* the last to run
  features, \* the inputs of its case
  output,   \* what the NPU wrote
  result,   \* the output as values
  lut,      \* the static tables, by algorithm; <<>> until filled
  status    \* what the program returns

vars == <<pc, test, last, features, output, result, lut, status>>

One == 1048576
Abs(x) == IF x < 0 THEN -x ELSE x
Larger(x, y) == IF x > y THEN x ELSE y
Within(low, x, high) == IF x < low THEN low ELSE IF x > high THEN high ELSE x

(* a / m, and a * b for a factor b that is not negative, digit by digit.   *)
Ratio(a, m) ==
  LET digit[n \in 0..10] ==
        IF n = 0 THEN <<a \div m, a % m>>
        ELSE LET d == digit[n - 1]
             IN  <<(4 * d[1]) + ((4 * d[2]) \div m), (4 * d[2]) % m>>
  IN  digit[10][1]
Times(a, b) ==
  ((a * (b \div 16384)) \div 64) + ((a * ((b \div 128) % 128)) \div 8192)
  + ((a * (b % 128)) \div One)

(* The value of a half-precision number, when it is whole.                 *)
Fp16(h) == (1024 + (h % 1024)) * TwoTo((h \div 1024) - 25)
(* A whole number below 2^24 to the eleven bits of a half.                 *)
ToFp16(n) ==
  LET ulp == Max({1} \cup {TwoTo(e) : e \in {k \in 1..13 : Abs(n) >= TwoTo(k + 10)}})
  IN  ulp * ((n + (ulp \div 2)) \div ulp)

-----------------------------------------------------------------------------
(* The steps a table is kept at, of a function given there.                *)
Steps(f) == {j \in DOMAIN f : j >= 0}

(* A table: the operand that finds a place in it, and the function x steps *)
(* below zero and x steps above. A step is 32 / 5216 where nothing else is *)
(* said, and 32 / 16384 for asin, acos and atanh.                          *)
Table(operand, le, lo) == [operand |-> Fp16(operand), le |-> le, lo |-> lo]

X(j) == Ratio(32 * j, 5216)
Grid == DOMAIN libm.exp
Half == Steps(libm.exp)

(* What a run gives for the library, and what the cases load: functions at *)
(* steps on both sides of zero, odd ones zero there, no power negative;    *)
(* inputs from -2 to 2, from -0.95 to 0.95 and from 1 to 3.                *)
Mirrored(S) == S \subseteq Int /\ 0 \in S /\ \A j \in S : -j \in S
LutAssumption ==
  /\ MaxSize \in Nat \ {0}
  /\ Tests \in Seq({14, 15} \cup 28..55) \ {<<>>}
  /\ Inputs.linear \subseteq -64..64 /\ Inputs.asin \subseteq -30..30
  /\ Inputs.acosh \subseteq 32..96
  /\ Mirrored(Grid) /\ {-512, 512} \subseteq Grid
  /\ {libm.sin, libm.cos, libm.tanh, libm.atan, libm.asinh, libm.acosh, libm.sinh, libm.cosh,
       libm.log1pexp, libm.tanhlog1pexp, libm.erfsqrt2} \subseteq [Grid -> Int]
  /\ {libm.exp, libm.exp2, libm.exp1702} \subseteq [Grid -> Nat]
  /\ \A f \in {libm.asin, libm.acos, libm.atanh} :
       Mirrored(DOMAIN f) /\ f \in [DOMAIN f -> Int]
  /\ \A f \in {libm.exp2596, libm.exp2824} : Mirrored(DOMAIN f) /\ f \in [DOMAIN f -> Nat]
  /\ \A f \in {libm.sin, libm.tanh, libm.atan, libm.asinh, libm.sinh, libm.asin, libm.atanh} :
       f[0] = 0
  /\ libm.sinh[512] > 0 /\ libm.cosh[512] > 0

(* The forms of the blocks: an odd and an even function, and one taken as  *)
(* it is on both sides. All are divided by m.                              *)
Odd(operand, f, m) ==
  Table(operand, [x \in Steps(f) |-> -Ratio(f[x], m)], [x \in Steps(f) |-> Ratio(f[x], m)])
Even(f, m) ==
  Table(\h6d18, [x \in Half |-> Ratio(f[x], m)], [x \in Half |-> Ratio(f[x], m)])

Biased(f, max_pos, max_neg) ==
  LET max_abs == Larger(Larger(Abs(max_pos), Abs(max_neg)), One)
  IN  Table(\h6d18, [x \in Half |-> Ratio(f[-x], max_abs)], [x \in Half |-> Ratio(f[x], max_abs)])

(* pi / 2 and the inverses of the factors written in the code.             *)
half_pi == 1647099
asinh_max == 3989463
acosh_max == 4360649
atanh_max == 3984800

sin_table == Odd(\h6d18, libm.sin, One)
cos_table == Even(libm.cos, One)
tanh_table == Odd(\h6d18, libm.tanh, One)
asin_table == Odd(\h7400, libm.asin, half_pi)

acos_table ==
  LET f == libm.acos
  IN  Table(\h7400, [x \in Steps(f) |-> Ratio(f[-x], half_pi) - One],
                    [x \in Steps(f) |-> Ratio(f[x], half_pi) - One])
atan_table == Odd(\h6d18, libm.atan, half_pi)
asinh_table == Odd(\h6d18, libm.asinh, asinh_max)
acosh_table ==
  Even([x \in Half |-> IF X(x) < One THEN 0 ELSE libm.acosh[x]], acosh_max)
atanh_table ==
  Odd(\h7400, [libm.atanh EXCEPT ![512] = atanh_max, ![-512] = -atanh_max], atanh_max)
sinh_table == Odd(\h6d18, libm.sinh, libm.sinh[512])
cosh_table == Even(libm.cosh, libm.cosh[512])

sigmoid_table ==
  LET e == libm.exp2596
      f == [j \in DOMAIN e |-> Ratio(One, One + e[-j])]
  IN  Table(\h6912, [x \in Steps(e) |-> f[-x]], [x \in Steps(e) |-> f[x]])
silu_table ==
  LET e == libm.exp2824
      f == [j \in DOMAIN e |-> Ratio(Ratio(32 * j, 2824), One + e[-j])]
  IN  Table(\h6984, [x \in Steps(e) |-> f[-x]], [x \in Steps(e) |-> f[x]])

alpha == 1754544
scale == 1101740
celu_value == [j \in Grid |-> IF X(j) > 0 THEN X(j) ELSE libm.exp[j] - One]
selu_value ==
  [j \in Grid |-> Times(IF X(j) > 0 THEN X(j) ELSE Times(libm.exp[j] - One, alpha), scale)]
swish_value == [j \in Grid |-> Ratio(X(j), One + libm.exp[-j])]
softsign_value == [j \in Grid |-> Ratio(X(j), One + Abs(X(j)))]
logsigmoid_value == [j \in Grid |-> -libm.log1pexp[-j]]
hardsigmoid_value == [j \in Grid |-> Within(0, (X(j) \div 6) + (One \div 2), One)]
softplus_value == libm.log1pexp
gelu_value == [j \in Grid |-> Times(X(j) \div 2, One + libm.erfsqrt2[j])]
quick_gelu_value == [j \in Grid |-> Ratio(X(j), One + libm.exp1702[-j])]
elu_value == [j \in Grid |-> IF X(j) > 0 THEN X(j) ELSE libm.exp[j] - One]
relu6_value == [j \in Grid |-> Within(0, X(j), 6 * One)]
hardswish_value == [j \in Grid |-> Times(X(j), Within(0, X(j) + (3 * One), 6 * One)) \div 6]
mish_value == [j \in Grid |-> Times(X(j), libm.tanhlog1pexp[j])]
hardtanh_value == [j \in Grid |-> Within(-One, X(j), One)]

OnGrid(f) == Biased(f, f[512], f[-512])
celu_table == OnGrid(celu_value)
selu_table == OnGrid(selu_value)
swish_table == OnGrid(swish_value)
softsign_table == OnGrid(softsign_value)
logsigmoid_table == OnGrid(logsigmoid_value)
hardsigmoid_table == OnGrid(hardsigmoid_value)
softplus_table == OnGrid(softplus_value)
gelu_table == OnGrid(gelu_value)
quick_gelu_table == OnGrid(quick_gelu_value)
elu_table == OnGrid(elu_value)
relu6_table == OnGrid(relu6_value)
hardswish_table == OnGrid(hardswish_value)
mish_table == OnGrid(mish_value)
hardtanh_table == OnGrid(hardtanh_value)
exp_table == OnGrid(libm.exp)
exp2_table == OnGrid(libm.exp2)

TableOf(a) ==
  CASE a = 14 -> sigmoid_table [] a = 15 -> silu_table
    [] a = 28 -> sin_table [] a = 29 -> cos_table [] a \in {30, 31} -> tanh_table
    [] a = 32 -> asin_table [] a = 33 -> acos_table [] a = 34 -> atan_table
    [] a = 35 -> asinh_table [] a = 36 -> acosh_table [] a = 37 -> atanh_table
    [] a = 38 -> sinh_table [] a = 39 -> cosh_table
    [] a = 40 -> celu_table [] a = 41 -> selu_table [] a = 42 -> swish_table
    [] a = 43 -> softsign_table [] a = 44 -> logsigmoid_table [] a = 45 -> hardsigmoid_table
    [] a = 46 -> softplus_table [] a = 47 -> gelu_table [] a = 48 -> quick_gelu_table
    [] a = 49 -> elu_table [] a = 50 -> relu6_table [] a = 51 -> hardswish_table
    [] a = 52 -> mish_table [] a = 53 -> hardtanh_table
    [] a = 54 -> exp_table [] a = 55 -> exp2_table

-----------------------------------------------------------------------------
(* An entry of a table, to the nearest.                                    *)
Entry(a, y) ==
  IF a = 14 THEN Within(0, (y + 16) \div 32, 32767)
  ELSE IF a = 15 THEN Within(-32768, ((1000 * y) + 92552) \div 185104, 32767)
  ELSE Within(0, (y + One + 32) \div 64, 32767)

(* Mutant: LE is sent from zero down.                                      *)
FilledFromZero(a) ==
  LET t == TableOf(a)
      above == {513 + x : x \in DOMAIN t.lo}
  IN  [i \in DOMAIN t.le \cup above |->
         Entry(a, IF i \in above THEN t.lo[i - 513] ELSE t.le[i])]

(* The tables in the order they are sent: LE falls to zero, LO rises.      *)
Filled(a) ==
  LET t == TableOf(a)
      below == {512 - x : x \in DOMAIN t.le}
      above == {513 + x : x \in DOMAIN t.lo}
  IN  [i \in below \cup above |->
         Entry(a, IF i \in above THEN t.lo[i - 513] ELSE t.le[512 - i])]

(* What the NPU looks up: the place of an input is its product with the    *)
(* operand, 32 to the entry and held inside the table; between two entries *)
(* it answers in proportion. An entry the table is not kept at counts as   *)
(* the nearest that is.                                                    *)
Place(a, x) == (x * TableOf(a).operand) \div 32
LookUp(table, place) ==
  LET at == Within(-16384, place, 16384)
      low == IF at < 0 THEN 512 + (at \div 32) ELSE 513 + (at \div 32)
      Nearest(i) ==
        LET side == {e \in DOMAIN table : (e <= 512) = (at < 0)}
        IN  table[CHOOSE e \in side : \A d \in side : Abs(e - i) <= Abs(d - i)]
      part == at % 32
  IN  IF part = 0 THEN Nearest(low)
      ELSE Nearest(low) + (((Nearest(low + 1) - Nearest(low)) * part) \div 32)

(* The value a case makes of an entry. silu sends it through a product     *)
(* with 0.0001766241, which a half holds as 1482 / 2^23.                   *)
Value(a, raw) ==
  IF a = 14 THEN raw * 32
  ELSE IF a = 15 THEN ToFp16(ToFp16(raw) * 1482) \div 8
  ELSE (raw - 16384) * 64

-----------------------------------------------------------------------------
(* The cases: how the inputs are loaded, what the CPU expects of them, and *)
(* how far a result may be off. The steps of 5216 hold the inputs of every *)
(* case but the three whose inputs are inside one; Rtol adds a thousandth  *)
(* of what is expected.                                                    *)
Case(inputs, expected, atol, rtol) ==
  [inputs |-> inputs, expected |-> expected, atol |-> atol, rtol |-> rtol]
Plain(expected, atol) == Case("linear", expected, atol, FALSE)
Over(f, m) == [j \in DOMAIN f |-> Ratio(f[j], m)]

run_sigmoid_case == Plain([j \in Grid |-> Ratio(One, One + libm.exp[-j])], 5243)
run_silu_case == Plain([j \in Grid |-> Times(X(j), Ratio(One, One + libm.exp[-j]))], 1049)
run_sin_case == Plain(libm.sin, 5243)
run_tan_case == Plain(libm.tanh, 10486)
run_cos_case == Plain(libm.cos, 5243)
run_asin_case == Case("asin", Over(libm.asin, half_pi), 5243, FALSE)
run_acos_case ==
  Case("asin", [j \in DOMAIN libm.acos |-> Ratio(libm.acos[j], half_pi) - One], 5243, FALSE)
run_atan_case == Plain(Over(libm.atan, half_pi), 5243)
run_asinh_case == Plain(Over(libm.asinh, asinh_max), 5243)
run_acosh_case == Case("acosh", Over(libm.acosh, acosh_max), 5243, FALSE)
run_sinh_case == Plain(Over(libm.sinh, libm.sinh[512]), 5243)
run_cosh_case == Plain(Over(libm.cosh, libm.cosh[512]), 5243)
run_tanh_case == Plain(libm.tanh, 10486)
run_atanh_case == Case("asin", Over(libm.atanh, atanh_max), 5243, FALSE)

lut_ref_inv_scale(fn) == Larger(Larger(Abs(fn[512]), Abs(fn[-512])), One)
run_lut_case(fn) == Case("linear", Over(fn, lut_ref_inv_scale(fn)), 1, TRUE)

ref_celu == [j \in Grid |-> IF X(j) > 0 THEN X(j) ELSE libm.exp[j] - One]
ref_selu ==
  [j \in Grid |-> IF X(j) > 0 THEN Times(X(j), scale)
                  ELSE Times(Times(libm.exp[j] - One, alpha), scale)]
ref_swish == [j \in Grid |-> Ratio(X(j), One + libm.exp[-j])]
ref_softsign == [j \in Grid |-> Ratio(X(j), One + Abs(X(j)))]
ref_logsigmoid == [j \in Grid |-> -libm.log1pexp[-j]]
ref_hardsigmoid == [j \in Grid |-> Within(0, (X(j) \div 6) + (One \div 2), One)]
ref_softplus == libm.log1pexp
ref_gelu == [j \in Grid |-> Times(X(j) \div 2, One + libm.erfsqrt2[j])]
ref_quick_gelu == [j \in Grid |-> Ratio(X(j), One + libm.exp1702[-j])]
ref_elu == [j \in Grid |-> IF X(j) > 0 THEN X(j) ELSE libm.exp[j] - One]
ref_relu6 == [j \in Grid |-> Within(0, X(j), 6 * One)]
ref_hardswish == [j \in Grid |-> Times(X(j), Within(0, X(j) + (3 * One), 6 * One)) \div 6]
ref_mish == [j \in Grid |-> Times(X(j), libm.tanhlog1pexp[j])]
ref_hardtanh == [j \in Grid |-> Within(-One, X(j), One)]
ref_exp == libm.exp
ref_exp2 == libm.exp2

CaseOf(a) ==
  CASE a = 14 -> run_sigmoid_case [] a = 15 -> run_silu_case
    [] a = 28 -> run_sin_case [] a = 29 -> run_cos_case [] a = 30 -> run_tan_case
    [] a = 31 -> run_tanh_case [] a = 32 -> run_asin_case [] a = 33 -> run_acos_case
    [] a = 34 -> run_atan_case [] a = 35 -> run_asinh_case [] a = 36 -> run_acosh_case
    [] a = 37 -> run_atanh_case [] a = 38 -> run_sinh_case [] a = 39 -> run_cosh_case
    [] a = 40 -> run_lut_case(ref_celu) [] a = 41 -> run_lut_case(ref_selu)
    [] a = 42 -> run_lut_case(ref_swish) [] a = 43 -> run_lut_case(ref_softsign)
    [] a = 44 -> run_lut_case(ref_logsigmoid) [] a = 45 -> run_lut_case(ref_hardsigmoid)
    [] a = 46 -> run_lut_case(ref_softplus) [] a = 47 -> run_lut_case(ref_gelu)
    [] a = 48 -> run_lut_case(ref_quick_gelu) [] a = 49 -> run_lut_case(ref_elu)
    [] a = 50 -> run_lut_case(ref_relu6) [] a = 51 -> run_lut_case(ref_hardswish)
    [] a = 52 -> run_lut_case(ref_mish) [] a = 53 -> run_lut_case(ref_hardtanh)
    [] a = 54 -> run_lut_case(ref_exp) [] a = 55 -> run_lut_case(ref_exp2)

Expected(a, x) ==
  CaseOf(a).expected[IF CaseOf(a).inputs = "asin" THEN 16 * x ELSE (163 * x) \div 32]
Accepts(a, x, y) ==
  LET c == CaseOf(a)
      e == Expected(a, x)
  IN  Abs(y - e) <= c.atol + (IF c.rtol THEN Abs(e) \div 1000 ELSE 0)

-----------------------------------------------------------------------------
(* tan and tanh are one block, with one static table.                      *)
Owner(a) == IF a = 31 THEN 30 ELSE a
alg == Tests[test]

(* All the tests, or the one that is named.                                *)
Init ==
  /\ pc = "start"
  /\ \/ test = 1 /\ last = Len(Tests)
     \/ test \in DOMAIN Tests /\ last = test
  /\ features = <<>> /\ output = <<>> /\ result = <<>>
  /\ lut = [a \in {Owner(b) : b \in Range(Tests)} |-> <<>>]
  /\ status = 0

(* A case loads its inputs.                                                *)
StartCase ==
  /\ pc = "start"
  /\ \E n \in 1..MaxSize : features' \in [1..n -> Inputs[CaseOf(alg).inputs]]
  /\ output' = <<>> /\ result' = <<>>
  /\ pc' = "run"
  /\ UNCHANGED <<test, last, lut, status>>

FillOnce ==
  lut' = IF lut[Owner(alg)] = <<>> THEN [lut EXCEPT ![Owner(alg)] = Filled(alg)] ELSE lut

(* The op fills its tables the first time, and the NPU looks up.           *)
RunOp ==
  /\ pc = "run"
  /\ FillOnce
  /\ output' = [i \in DOMAIN features |-> LookUp(lut'[Owner(alg)], Place(alg, features[i]))]
  /\ result' = [i \in DOMAIN output' |-> Value(alg, output'[i])]
  /\ pc' = "compare"
  /\ UNCHANGED <<test, last, features, status>>

(* The case is over: on to the next test.                                  *)
Leave(verdict) ==
  /\ status' = IF verdict # 0 THEN -1 ELSE status
  /\ pc' = IF test = last THEN "exit" ELSE "start"
  /\ test' = IF test = last THEN test ELSE test + 1
  /\ features' = <<>> /\ output' = <<>> /\ result' = <<>>
  /\ UNCHANGED last

(* The op fails, before its tables are filled or after. Once in a run      *)
(* (status is clean until then), to keep the sets of filled tables few.    *)
OpFails ==
  /\ pc = "run" /\ status = 0
  /\ FillOnce \/ UNCHANGED lut
  /\ Leave(-1)

Compare ==
  /\ pc = "compare"
  /\ Leave(IF \A i \in DOMAIN result : Accepts(alg, features[i], result[i]) THEN 0 ELSE -1)
  /\ UNCHANGED lut

Exit == pc = "exit" /\ UNCHANGED vars

Next == StartCase \/ RunOp \/ OpFails \/ Compare \/ Exit

Spec == Init /\ [][Next]_vars

-----------------------------------------------------------------------------
(***************************************************************************)
(* A table that is filled is filled on both sides with entries the NPU can *)
(* hold, and there is a result for each output.                            *)
(***************************************************************************)
TypeOK ==
  /\ pc \in {"start", "run", "compare", "exit"}
  /\ test \in DOMAIN Tests /\ last \in test..Len(Tests) /\ status \in {0, -1}
  /\ DOMAIN result = DOMAIN output /\ Len(features) <= MaxSize
  /\ \A a \in DOMAIN lut : lut[a] # <<>> =>
       /\ {512, 513} \subseteq DOMAIN lut[a]
       /\ \A i \in DOMAIN lut[a] : lut[a][i] \in (IF a = 15 THEN -32768 ELSE 0)..32767

(***************************************************************************)
(* LE ends at zero with the entry LO begins with: an input on either side  *)
(* of zero finds the same value there.                                     *)
(***************************************************************************)
TablesMeet == \A a \in DOMAIN lut : lut[a] # <<>> => lut[a][512] = lut[a][513]

(***************************************************************************)
(* No case loads an input beyond the ends of its table, where the NPU      *)
(* would answer with the last entry whatever the input.                    *)
(***************************************************************************)
InputsInsideTable ==
  \A i \in DOMAIN features : Abs(Place(alg, features[i])) < 16384

(***************************************************************************)
(* Every result is within a step of the table, 2^-14, of what the case     *)
(* expects: table, operand, look-up, decoding and reference agree on the   *)
(* function and its scale. sigmoid and silu answer in half precision, the  *)
(* latter with the error of its second product.                            *)
(***************************************************************************)
OneStep(a) == CASE a = 14 -> 512 [] a = 15 -> 2048 [] OTHER -> 68
ResultIsFunction ==
  pc = "compare" =>
    \A i \in DOMAIN result :
      Abs(result[i] - Expected(alg, features[i])) <= OneStep(alg)

(***************************************************************************)
(* A case accepts what the NPU looks up: the run ends in failure only when *)
(* an op failed.                                                           *)
(***************************************************************************)
RightIsAccepted ==
  pc = "compare" => \A i \in DOMAIN result : Accepts(alg, features[i], result[i])

(***************************************************************************)
(* The factors of the inverse functions are the reciprocals their comments *)
(* name: 1 / asinh(32), 1 / acosh(32) and 1 / atanh(0.999).                *)
(***************************************************************************)
FactorsAreReciprocals ==
  /\ Abs(acosh_max - libm.acosh_of_32) <= 1
  /\ Abs(atanh_max - libm.atanh_of_0_999) <= 1
  /\ lut[35] # <<>> => Abs(asinh_max - libm.asinh_of_32) <= 1
=============================================================================
