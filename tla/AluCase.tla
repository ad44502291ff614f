------------------------------ MODULE AluCase ------------------------------
(***************************************************************************)
(* The element-wise, comparison, rounding and pooling cases of ops_reg.    *)
(* A case fills its operands, sends them through one or more NPU ops,      *)
(* reworks what comes back on the host, and compares the end with what the *)
(* CPU computes. cmpneq runs cmpeq first and works on its last result,     *)
(* which cmpeq leaves in a static.                                         *)
(*                                                                         *)
(* Numbers are fixed point, 24 to the one, so that the halves, thirds and  *)
(* quotients here are exact. A cmpeq of one element is left out: it writes *)
(* a second one. So are pools of other images than 4 by 4, the only ones   *)
(* whose registers fit (AluGeometry). Whether each array of a case is      *)
(* freed is not kept.                                                      *)
(***************************************************************************)
EXTENDS Integers, Sequences, FiniteSetsExt, Functions

CONSTANTS
  Values,  \* what a random operand may hold
  Pairs,   \* shapes of the cases with random operands
  Ramps,   \* shapes of the cases whose operands follow from the shape
  Images   \* the 4 by 4 inputs of the pools

CaseAssumption ==
  /\ Values \subseteq Int
  /\ \A sh \in Pairs \cup Ramps : sh.rows \in Nat \ {0} /\ sh.cols \in Nat \ {0}
  /\ Images \subseteq [1..16 -> Int]

VARIABLES
  pc,        \* "idle", "stage", "done"
  op,        \* the case
  caller,    \* "main", or "cmpneq" for the cmpeq it runs
  shape,     \* its rows and columns
  buf,       \* the arrays of the case, by name
  k,         \* the next stage
  verdict,   \* what the case returned
  right,     \* whether the NPU computed every stage so far
  status,    \* what the test program returns
  cmpeq_last, cmpeq_last_size

vars == <<pc, op, caller, shape, buf, k, verdict, right, status, cmpeq_last, cmpeq_last_size>>

One == 24
Half == One \div 2
(* 2^-14: less than any difference of two operands.                        *)
Eps == 1

Size(sh) == sh.rows * sh.cols
Cells(sh) == 1..Size(sh)
Zeros(cells) == [i \in cells |-> 0]
Bool(b) == IF b THEN One ELSE 0
Larger(x, y) == IF x > y THEN x ELSE y
Smaller(x, y) == IF x < y THEN x ELSE y
Abs(x) == Larger(x, -x)
Quotient(x, y) == (x * One * (IF y < 0 THEN -1 ELSE 1)) \div Abs(y)

(* The elements of an array at a list of places, as a set and added up.    *)
At(array, places) == {array[places[n]] : n \in DOMAIN places}
Sum(array, places) ==
  LET sum[n \in 0..Len(places)] == IF n = 0 THEN 0 ELSE sum[n - 1] + array[places[n]]
  IN  sum[Len(places)]

(* To the nearest integer, from the middle to the even one.                *)
roundoff_ref(x) ==
  LET base == x \div One
      frac == x % One
  IN  One * (IF frac > Half \/ (frac = Half /\ base % 2 = 1) THEN base + 1 ELSE base)

(* An image of four by four, and its three by three windows of two by two. *)
Image == [n \in 1..16 |-> n]
Window(i) ==
  [n \in 1..4 |-> 4 * (((i - 1) \div 3) + ((n - 1) \div 2)) + ((i - 1) % 3) + ((n - 1) % 2) + 1]

-----------------------------------------------------------------------------
(* What an NPU op computes from an element x of the weights buffer and an  *)
(* element y of the input buffer, and the pools from the input.            *)
Element(alg, x, y) ==
  CASE alg = 0 -> Larger(x, y)
    [] alg = 2 -> x + y
    [] alg = 3 -> Quotient(x, y)
    [] alg = 4 -> y - x
    [] alg = 9 -> (x * y) \div One
    [] alg = 10 -> Larger(y, 0)
    [] alg \in {16, 20} -> Bool(y >= 0)
    [] alg = 17 -> Bool(y # 0)
    [] alg \in {18, 19} -> Larger(Smaller(One - y, One), 0)
    [] alg = 22 -> Abs(y)
    [] alg = 23 -> roundoff_ref(y)

Alu(alg, w, f) ==
  CASE alg = 24 -> [i \in 1..9 |-> Max(At(f, Window(i)))]
    [] alg = 25 -> [i \in 1..1 |-> Max(At(f, Image))]
    [] alg = 26 -> [i \in 1..9 |-> Sum(f, Window(i)) \div 4]
    [] alg = 27 -> [i \in 1..1 |-> Sum(f, Image) \div 4]
    [] OTHER -> [i \in DOMAIN f |-> Element(alg, w[i], f[i])]

(* It may also leave the output buffer as it was, or have its operands the *)
(* other way around.                                                       *)
Outputs(alg, w, f) ==
  LET computed == Alu(alg, w, f)
  IN  {computed, Zeros(DOMAIN computed)} \cup
      (IF alg \in 24..27 \/ alg = 3 THEN {} ELSE {Alu(alg, f, w)})

-----------------------------------------------------------------------------
(* Operands: from -2 to 2 along the elements or the columns, or any.       *)
Ramp(sh, along_cols) ==
  LET n == IF along_cols THEN sh.cols ELSE Size(sh)
  IN  [i \in Cells(sh) |-> IF n = 1 THEN -2 * One
                           ELSE ((4 * One * ((i - 1) % n)) \div (n - 1)) - (2 * One)]
Falling(sh, along_cols) == [i \in Cells(sh) |-> -Ramp(sh, along_cols)[i]]

Operands(a, b) == [a |-> a, b |-> b, zeros |-> Zeros(DOMAIN b)]
Random(sh) == {Operands(a, b) : a, b \in [Cells(sh) -> Values]}
Ramped(sh) == {Operands(Ramp(sh, ac), Falling(sh, bc)) : ac, bc \in BOOLEAN}
(* cmpge and cmple have a pair of equal operands, cmpeq several.           *)
Touching(sh) == {[e EXCEPT !.b[1] = e.a[1]] : e \in Ramped(sh)}
PartlyEqual(sh) ==
  LET a == Ramp(sh, FALSE)
  IN  Operands(a, [i \in Cells(sh) |-> a[i] + (IF (i - 1) % 4 = 0 \/ i = 2 THEN 0 ELSE One)])

-----------------------------------------------------------------------------
(* The cases: the NPU ops one runs, each with the arrays it takes as       *)
(* weights and as input and the array its output goes to.                  *)
Stage(alg, w, f, out) == [alg |-> alg, w |-> w, f |-> f, out |-> out]

RoundDown(x) == <<Stage(4, "offset", x, "stage1"), Stage(23, "zeros", "stage1", "out")>>

run_div_case == <<Stage(3, "a", "b", "out")>>
run_idiv_case == <<Stage(3, "a", "b", "div")>> \o RoundDown("div")
run_pool_case == <<Stage(24, "zeros", "a", "out")>>
run_globalmaxpool_case == <<Stage(25, "zeros", "a", "out")>>
run_globalminpool_case == <<Stage(24, "zeros", "a", "out")>>
run_avgpool_case == <<Stage(26, "zeros", "a", "out")>>
run_globalavgpool_case == <<Stage(27, "zeros", "a", "out")>>
run_cmplt_case == <<Stage(4, "a", "b", "stage1"), Stage(16, "zeros", "stage1", "out")>>

(* Mutant: cmpgt subtracts in the order of cmplt.                          *)
run_cmpgt_case_unswapped == run_cmplt_case

run_cmpgt_case == <<Stage(4, "b", "a", "stage1"), Stage(16, "zeros", "stage1", "out")>>
run_cmpge_case == <<Stage(4, "b", "a", "stage1"), Stage(20, "zeros", "stage1", "out")>>
run_cmple_case == <<Stage(4, "a", "b", "stage1"), Stage(20, "zeros", "stage1", "out")>>
run_cmpeq_case ==
  <<Stage(4, "a", "b", "stage1"), Stage(17, "zeros", "stage1", "stage2"),
    Stage(18, "zeros", "stage2", "out")>>
run_add_case == <<Stage(2, "a", "b", "out")>>
run_mul_case == <<Stage(9, "a", "b", "out")>>
run_where_case ==
  <<Stage(19, "zeros", "mask", "stage1"), Stage(9, "stage1", "b", "stage2"),
    Stage(9, "mask", "a", "stage3"), Stage(2, "stage3", "stage2", "out")>>
run_rounddown_case == RoundDown("a")
run_roundoff_case == <<Stage(23, "zeros", "a", "out")>>
run_max_case == <<Stage(0, "a", "b", "out")>>
run_minus_case == <<Stage(4, "a", "b", "out")>>
run_neg_case == <<Stage(19, "zeros", "b", "out")>>
run_abs_case == <<Stage(22, "zeros", "a", "out")>>
run_cmpneq_case == <<Stage(19, "zeros", "cmpeq_last", "out")>>
run_relu_case == <<Stage(10, "b", "a", "out")>>

Stages(o) ==
  CASE o = "div" -> run_div_case [] o = "idiv" -> run_idiv_case
    [] o \in {"maxpool", "minpool"} -> run_pool_case
    [] o = "globalmaxpool" -> run_globalmaxpool_case
    [] o = "globalminpool" -> run_globalminpool_case
    [] o = "avgpool" -> run_avgpool_case
    [] o = "globalavgpool" -> run_globalavgpool_case
    [] o = "cmple" -> run_cmple_case [] o = "cmpgt" -> run_cmpgt_case
    [] o = "cmpge" -> run_cmpge_case [] o = "cmplt" -> run_cmplt_case
    [] o = "cmpeq" -> run_cmpeq_case [] o = "cmpneq" -> run_cmpneq_case
    [] o = "add" -> run_add_case [] o = "mul" -> run_mul_case
    [] o = "rounddown" -> run_rounddown_case
    [] o = "roundoff" -> run_roundoff_case [] o = "abs" -> run_abs_case
    [] o = "where" -> run_where_case [] o = "neg" -> run_neg_case
    [] o = "minus" -> run_minus_case [] o = "relu" -> run_relu_case
    [] o = "max" -> run_max_case

Cases ==
  {"div", "idiv", "maxpool", "globalmaxpool", "globalminpool", "minpool",
   "avgpool", "globalavgpool", "cmple", "cmpgt", "cmpge", "cmplt", "cmpeq",
   "cmpneq", "add", "mul", "rounddown", "roundoff", "abs", "where", "neg",
   "minus", "relu", "max"}
Pools == {"maxpool", "minpool", "globalmaxpool", "globalminpool", "avgpool", "globalavgpool"}
RampCases == {"cmplt", "cmpgt", "cmpge", "cmple"}

(* What the host makes of the input before the op,                         *)
Fed(o, input) ==
  IF o \in {"minpool", "globalminpool"} THEN [i \in DOMAIN input |-> -input[i]] ELSE input

(* and of what the op returned. (alg 27 divides by the width, the host by  *)
(* the rows.)                                                              *)
Reworked(o, alg, y) ==
  CASE o \in {"cmplt", "cmpgt"} /\ alg = 4 -> [i \in DOMAIN y |-> y[i] - Eps]
    [] o = "minpool" -> [i \in DOMAIN y |-> -y[i]]
    [] o = "globalminpool" -> [i \in 1..1 |-> -Max(Range(y))]
    [] o = "globalavgpool" -> [i \in 1..1 |-> y[1] \div 4]
    [] OTHER -> y

(* The shapes and operands of a case.                                      *)
ShapesOf(o) ==
  CASE o \in {"div", "idiv", "add", "mul", "max", "minus", "where", "relu"} -> Pairs
    [] o \in Pools -> {[rows |-> 4, cols |-> 4]}
    [] o \in {"cmpeq", "cmpneq"} -> {sh \in Ramps : Size(sh) > 1}
    [] OTHER -> Ramps

With(env, name, array) == [x \in DOMAIN env \cup {name} |-> IF x = name THEN array ELSE env[x]]

(* The samples of rounddown and roundoff, and abs, as far as their kinds   *)
(* go: on a half, on a whole, above and below.                             *)
Samples(sh) == {[i \in Cells(sh) |-> (12 * i) + shift] : shift \in {0, 2, 24}}

InputsOf(o, sh) ==
  CASE o \in {"cmplt", "cmpgt"} -> Ramped(sh)
    [] o \in {"cmpge", "cmple"} -> Touching(sh)
    [] o \in {"cmpeq", "cmpneq"} -> {PartlyEqual(sh)}
    [] o \in Pools -> {Operands(a, a) : a \in Images}
    [] o = "div" -> {[e EXCEPT !.b = [i \in Cells(sh) |-> IF e.b[i] = 0 THEN One ELSE e.b[i]]] :
                       e \in Random(sh)}
    [] o = "idiv" -> {With(Operands(a, b), "offset", [i \in Cells(sh) |-> Half]) :
                        a \in [Cells(sh) -> {0, 36, 84, 240}], b \in [Cells(sh) -> {One, 2 * One}]}
    [] o = "rounddown" -> {With(Operands(a, a), "offset", [i \in Cells(sh) |-> Half]) :
                             a \in Samples(sh)}
    [] o = "roundoff" -> {Operands(a, a) : a \in Samples(sh)}
    [] o = "abs" -> {Operands(Ramp(sh, FALSE), Ramp(sh, FALSE))}
    [] o = "neg" -> LET bits == [i \in Cells(sh) |-> Bool(i % 2 = 0)] IN {Operands(bits, bits)}
    [] o = "where" -> {With(e, "mask", [i \in Cells(sh) |-> Bool(i % 2 = 0)]) : e \in Random(sh)}
    [] OTHER -> Random(sh)

-----------------------------------------------------------------------------
(* What the CPU computes, and the verdict.                                 *)
Each(sh, F(_)) == [i \in Cells(sh) |-> F(i)]

Reference(o, sh, e) ==
  CASE o = "maxpool" -> [i \in 1..9 |-> Max(At(e.a, Window(i)))]
    [] o = "minpool" -> [i \in 1..9 |-> Min(At(e.a, Window(i)))]
    [] o = "globalmaxpool" -> [i \in 1..1 |-> Max(At(e.a, Image))]
    [] o = "globalminpool" -> [i \in 1..1 |-> Min(At(e.a, Image))]
    [] o = "avgpool" -> [i \in 1..9 |-> Sum(e.a, Window(i)) \div 4]
    [] o = "globalavgpool" -> [i \in 1..1 |-> Sum(e.a, Image) \div 16]
    [] o = "div" -> Each(sh, LAMBDA i : Quotient(e.a[i], e.b[i]))
    [] o = "idiv" -> Each(sh, LAMBDA i : roundoff_ref(Quotient(e.a[i], e.b[i]) - Half))
    [] o = "rounddown" -> Each(sh, LAMBDA i : roundoff_ref(e.a[i] - Half))
    [] o = "roundoff" -> Each(sh, LAMBDA i : roundoff_ref(e.a[i]))
    [] o = "cmplt" -> Each(sh, LAMBDA i : Bool(e.a[i] < e.b[i]))
    [] o = "cmpgt" -> Each(sh, LAMBDA i : Bool(e.a[i] > e.b[i]))
    [] o = "cmpge" -> Each(sh, LAMBDA i : Bool(e.a[i] >= e.b[i]))
    [] o = "cmple" -> Each(sh, LAMBDA i : Bool(e.a[i] <= e.b[i]))
    [] o = "cmpeq" -> Each(sh, LAMBDA i : Bool(e.a[i] = e.b[i]))
    [] o = "cmpneq" -> Each(sh, LAMBDA i : Bool(e.a[i] # e.b[i]))
    [] o = "add" -> Each(sh, LAMBDA i : e.a[i] + e.b[i])
    [] o = "mul" -> Each(sh, LAMBDA i : (e.a[i] * e.b[i]) \div One)
    [] o = "max" -> Each(sh, LAMBDA i : Larger(e.a[i], e.b[i]))
    [] o = "minus" -> Each(sh, LAMBDA i : e.a[i] - e.b[i])
    [] o = "neg" -> Each(sh, LAMBDA i : One - e.b[i])
    [] o = "abs" -> Each(sh, LAMBDA i : Abs(e.a[i]))
    [] o = "relu" -> Each(sh, LAMBDA i : Larger(e.a[i], 0))
    [] o = "where" -> Each(sh, LAMBDA i : IF e.mask[i] = One THEN e.a[i] ELSE e.b[i])

(* A comparison counts as true above zero, and a quotient may be off by a  *)
(* quarter. minus and the comparisons accept their operands exchanged.     *)
Answer(o, out) ==
  IF o \in RampCases THEN [i \in DOMAIN out |-> Bool(out[i] > 0)] ELSE out

Close(o, out, expected) ==
  \A i \in DOMAIN expected :
    Abs(out[i] - expected[i]) <= IF o = "div" THEN One \div 4 ELSE 0

Exchanged(e) == [e EXCEPT !.a = e.b, !.b = e.a]

Matches(o, sh, e) ==
  \/ Close(o, Answer(o, e.out), Reference(o, sh, e))
  \/ /\ o \in RampCases \cup {"minus"}
     /\ Close(o, Answer(o, e.out), Reference(o, sh, Exchanged(e)))

-----------------------------------------------------------------------------
None == <<>>

Init ==
  /\ pc = "idle"
  /\ op = "add" /\ caller = "main" /\ shape = [rows |-> 1, cols |-> 1]
  /\ buf = None /\ k = 1 /\ verdict = 0 /\ right = TRUE /\ status = 0
  /\ cmpeq_last = None /\ cmpeq_last_size = 0

(* A case from test_*: cmpneq first runs cmpeq on its own shape.           *)
StartCase ==
  /\ pc = "idle"
  /\ \E o \in Cases : \E sh \in ShapesOf(o) :
       /\ op' = IF o = "cmpneq" THEN "cmpeq" ELSE o
       /\ caller' = IF o = "cmpneq" THEN "cmpneq" ELSE "main"
       /\ shape' = sh
       /\ buf' \in InputsOf(o, sh)
  /\ pc' = "stage" /\ k' = 1 /\ verdict' = 0 /\ right' = TRUE
  /\ UNCHANGED <<status, cmpeq_last, cmpeq_last_size>>

(* An allocation or an op fails: the case gives up.                        *)
GiveUp ==
  /\ pc = "stage"
  /\ pc' = "done" /\ verdict' = -1 /\ buf' = None
  /\ UNCHANGED <<op, caller, shape, k, right, status, cmpeq_last, cmpeq_last_size>>

RunStage ==
  /\ pc = "stage" /\ k <= Len(Stages(op))
  /\ LET s == Stages(op)[k]
         input == IF s.f = "cmpeq_last" THEN cmpeq_last ELSE Fed(op, buf[s.f])
     IN  \E y \in Outputs(s.alg, buf[s.w], input) :
           /\ buf' = With(buf, s.out, Reworked(op, s.alg, y))
           /\ right' = (right /\ y = Alu(s.alg, buf[s.w], input))
  /\ k' = k + 1
  /\ UNCHANGED <<pc, op, caller, shape, verdict, status, cmpeq_last, cmpeq_last_size>>

(* cmpeq leaves its answer, whatever the verdict, if it can allocate it.   *)
KeepLast ==
  \/ cmpeq_last' = buf.out /\ cmpeq_last_size' = Size(shape)
  \/ cmpeq_last' = None /\ cmpeq_last_size' = 0

Compare ==
  /\ pc = "stage" /\ k = Len(Stages(op)) + 1
  /\ verdict' = IF Matches(op, shape, buf) THEN 0 ELSE -1
  /\ IF op = "cmpeq" THEN KeepLast ELSE UNCHANGED <<cmpeq_last, cmpeq_last_size>>
  /\ pc' = "done" /\ buf' = None
  /\ UNCHANGED <<op, caller, shape, k, right, status>>

CmpeqServes == verdict = 0 /\ cmpeq_last # None /\ cmpeq_last_size = Size(shape)

(* cmpneq goes on with the answer of its cmpeq, or gives up.               *)
Cmpneq ==
  /\ pc = "done" /\ caller = "cmpneq"
  /\ op' = "cmpneq" /\ caller' = "main"
  /\ IF CmpeqServes
       THEN /\ \E e \in InputsOf("cmpneq", shape) : buf' = e
            /\ pc' = "stage" /\ k' = 1
            /\ UNCHANGED verdict
       ELSE verdict' = -1 /\ UNCHANGED <<pc, buf, k>>
  /\ UNCHANGED <<shape, right, status, cmpeq_last, cmpeq_last_size>>

Return ==
  /\ pc = "done" /\ caller = "main"
  /\ status' = IF verdict # 0 THEN -1 ELSE status
  /\ pc' = "idle"
  /\ op' = "add" /\ shape' = [rows |-> 1, cols |-> 1]
  /\ k' = 1 /\ verdict' = 0 /\ right' = TRUE
  /\ UNCHANGED <<buf, caller, cmpeq_last, cmpeq_last_size>>

Next == StartCase \/ GiveUp \/ RunStage \/ Compare \/ Cmpneq \/ Return

Spec == Init /\ [][Next]_vars

-----------------------------------------------------------------------------
TypeOK ==
  /\ pc \in {"idle", "stage", "done"}
  /\ op \in Cases /\ caller \in {"main", "cmpneq"}
  /\ k \in 1..5 /\ verdict \in {0, -1} /\ right \in BOOLEAN /\ status \in {0, -1}
  /\ cmpeq_last_size = Len(cmpeq_last)

(***************************************************************************)
(* A case whose every op the NPU computed right is judged right, by        *)
(* run_*_case, and its answer is the CPU's: the order of operands and      *)
(* stages, the negations, the offset of half and the epsilon in between    *)
(* add up to the operation the case is named for. (minus alone is accepted *)
(* for B - A, which is what its NPU op computes.)                          *)
(***************************************************************************)
RightIsAccepted ==
  (pc = "stage" /\ right /\ k = Len(Stages(op)) + 1) =>
    /\ Matches(op, shape, buf)
    /\ op # "minus" => Close(op, Answer(op, buf.out), Reference(op, shape, buf))

(***************************************************************************)
(* cmpneq negates the answer of the cmpeq it ran itself, on operands of    *)
(* its own and judged right, never that of an earlier case left in the     *)
(* static cmpeq_last (main.c:402).                                         *)
(***************************************************************************)
CmpneqWorksOnItsCmpeq ==
  (op = "cmpneq" /\ pc = "stage") =>
    cmpeq_last = Reference("cmpeq", shape, buf)
=============================================================================
