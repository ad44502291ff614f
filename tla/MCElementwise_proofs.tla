----------------------- MODULE MCElementwise_proofs -----------------------
(***************************************************************************)
(* What is proved of the element-wise half of ops_reg: AluGeometry on its  *)
(* own (TypeOK, EveryElementComputed, CubeIsShape and InsidePages), then   *)
(* MinmaxSound of MinmaxBin, CasesSound of AluCase, and LookupsSound of    *)
(* LutCase when each single look-up is near enough to its function.        *)
(***************************************************************************)
EXTENDS MCElementwise, IndexArithmetic, SequenceTheorems, FiniteSetTheorems, TLAPS

-----------------------------------------------------------------------------
(* AluGeometry: what the cube of an op covers, for every sequence of cases. *)

(* What an op of a case can be: globalavgpool sets what it reads.          *)
OpKind == {npu_op \in [sets : Globals \cup {"none"},
                   cube : Globals \cup {"table", "pool", "whole"}] :
             npu_op.cube = "whole" => npu_op.sets = "minus"}

(* Lists of up to four ops.                                                *)
LEMMA ShortLists ==
  ASSUME NEW S, NEW a \in S, NEW b \in S, NEW c \in S, NEW d \in S
  PROVE  /\ <<a>> \in Seq(S) /\ Len(<<a>>) = 1
         /\ <<a, b>> \in Seq(S) /\ Len(<<a, b>>) = 2
         /\ <<a, b, c>> \in Seq(S) /\ Len(<<a, b, c>>) = 3
         /\ <<a, b, c, d>> \in Seq(S) /\ Len(<<a, b, c, d>>) = 4
OBVIOUS

(* Every case performs at least one op.                                    *)
LEMMA StagesTyped ==
  ASSUME NEW c \in DOMAIN Stages
  PROVE  Stages[c] \in Seq(OpKind) /\ Len(Stages[c]) \in Nat \ {0}
<1>1. \A g \in Globals : Own(g) \in OpKind /\ Left(g) \in OpKind
  BY DEF OpKind, Own, Left, Globals
<1>2. /\ Left("table") \in OpKind
      /\ [sets |-> "minus", cube |-> "pool"] \in OpKind
      /\ [sets |-> "minus", cube |-> "whole"] \in OpKind
  BY DEF OpKind, Left, Globals
<1>3. Globals = {"div", "minus", "max", "lut"}
  BY DEF Globals
<1>4. c \in {"max", "div", "idiv", "pool", "globalavgpool", "compare", "cmpeq",
            "cmpneq", "add", "unary", "rounddown", "where", "table", "lut",
            "silu", "relu"}
  BY DEF Stages
<1> DEFINE Typed(list) == list \in Seq(OpKind) /\ Len(list) \in Nat \ {0}
           o == Own("minus")
           l == Left("minus")
           t == Left("table")
<1> HIDE DEF OpKind
<1>5. /\ Typed(<<Own("max")>>) /\ Typed(<<Own("div")>>) /\ Typed(<<Own("lut")>>)
      /\ Typed(<<Own("div"), o, o>>)
      /\ Typed(<<[sets |-> "minus", cube |-> "pool"]>>)
      /\ Typed(<<[sets |-> "minus", cube |-> "whole"]>>)
  BY <1>1, <1>2, <1>3, ShortLists
<1>6. /\ Typed(<<o>>) /\ Typed(<<l>>) /\ Typed(<<t>>)
      /\ Typed(<<o, l>>) /\ Typed(<<o, o>>) /\ Typed(<<t, o>>)
      /\ Typed(<<o, l, l>>) /\ Typed(<<o, l, l, o>>) /\ Typed(<<o, o, o, l>>)
  BY <1>1, <1>2, <1>3, ShortLists
<1>7. /\ Stages["max"] = <<Own("max")>> /\ Stages["div"] = <<Own("div")>>
      /\ Stages["lut"] = <<Own("lut")>>
      /\ Stages["idiv"] = <<Own("div"), o, o>>
      /\ Stages["pool"] = <<[sets |-> "minus", cube |-> "pool"]>>
      /\ Stages["globalavgpool"] = <<[sets |-> "minus", cube |-> "whole"]>>
  BY DEF Stages
<1>8. /\ Stages["compare"] = <<o, l>> /\ Stages["cmpeq"] = <<o, l, l>>
      /\ Stages["cmpneq"] = <<o, l, l, o>> /\ Stages["add"] = <<l>>
      /\ Stages["unary"] = <<o>> /\ Stages["rounddown"] = <<o, o>>
      /\ Stages["where"] = <<o, o, o, l>> /\ Stages["table"] = <<t>>
      /\ Stages["silu"] = <<t, o>> /\ Stages["relu"] = <<l>>
  BY DEF Stages
<1> HIDE DEF Typed, o, l, t
<1>9. Typed(Stages[c])
  BY <1>4, <1>5, <1>6, <1>7, <1>8
<1> QED BY <1>9 DEF Typed

(* The current op of a typed state.                                        *)
LEMMA OpTyped ==
  ASSUME TypeOK, calls # <<>>
  PROVE  Head(calls) \in Call /\ Op \in OpKind
<1>1. Head(calls) \in Call
  BY DEF TypeOK
<1>2. Head(calls).case \in DOMAIN Stages
  BY <1>1 DEF Call
<1>3. stage \in 1..Len(Stages[Head(calls).case])
  BY <1>2, StagesTyped DEF TypeOK
<1> QED BY <1>1, <1>2, <1>3, StagesTyped DEF Op

LEMMA ShapeTyped ==
  ASSUME NEW call \in Call
  PROVE  /\ Rows(call) \in Nat \ {0} /\ Cols(call) \in Nat \ {0}
         /\ Size(call) \in Nat \ {0}
<1>1. Rows(call) \in Nat \ {0} /\ Cols(call) \in Nat \ {0}
  BY DEF Call, Rows, Cols, AtLeast1
<1>2. \A x, y \in Nat \ {0} : x * y \in Nat \ {0}
  OBVIOUS
<1> QED BY <1>1, <1>2 DEF Size

(* The rest of the calls is a sequence of calls.                           *)
LEMMA TailTyped ==
  ASSUME calls \in Seq(Call), calls # <<>>
  PROVE  Tail(calls) \in Seq(Call)
OBVIOUS

LEMMA SetParamsTyped ==
  ASSUME TypeOK, calls # <<>>
  PROVE  SetParams(Op, Head(calls)) \in [Globals -> [rows : Nat, cols : Nat]]
<1>1. Head(calls) \in Call /\ Op \in OpKind
  BY OpTyped
<1>2. [rows |-> Rows(Head(calls)), cols |-> Cols(Head(calls))]
        \in [rows : Nat, cols : Nat]
  BY <1>1, ShapeTyped
<1> QED BY <1>1, <1>2 DEF SetParams, TypeOK, OpKind

-----------------------------------------------------------------------------
(* Division rounding up: enough rows, and not more than elements.          *)
LEMMA CeilCovers ==
  ASSUME NEW n \in Nat \ {0}, NEW d \in Nat \ {0}
  PROVE  /\ (n + d - 1) \div d \in Nat \ {0}
         /\ ((n + d - 1) \div d) * d >= n
         /\ (n + d - 1) \div d <= n
<1> DEFINE q == (n + d - 1) \div d
           r == (n + d - 1) % d
<1>1. n + d - 1 \in Nat
  OBVIOUS
<1>2. q \in Nat /\ r \in 0..(d - 1) /\ n + d - 1 = q * d + r
  BY <1>1
<1> HIDE DEF q, r
<1>3. q * d \in Nat /\ q * d >= n
  BY <1>2
<1>4. q # 0
  BY <1>2, <1>3
<1>5. q <= n
  <2> SUFFICES ASSUME n + 1 <= q PROVE FALSE
    BY <1>2
  <2>1. (n + 1) * d <= q * d
    BY <1>2
  <2>2. (n + 1) * d = n * d + d /\ n * d \in Nat /\ n * d >= n
    OBVIOUS
  <2> QED BY <1>2, <1>3, <2>1, <2>2
<1> QED BY <1>2, <1>3, <1>4, <1>5 DEF q

(* The cube described to the registers covers the input, by any global.    *)
LEMMA CubeOfCovers ==
  ASSUME NEW p \in [rows : Nat, cols : Nat], NEW n \in Nat \ {0}
  PROVE  /\ CubeOf(p, n).rows \in Nat \ {0}
         /\ CubeOf(p, n).cols \in Nat \ {0}
         /\ CubeOf(p, n).rows * CubeOf(p, n).cols >= n
         /\ CubeOf(p, n).rows <= p.rows \/ CubeOf(p, n).rows <= n
         /\ CubeOf(p, n).cols = p.cols \/ CubeOf(p, n).cols = n
         /\ p.cols > 0 => CubeOf(p, n).cols = p.cols
<1> DEFINE cols == IF p.cols > 0 THEN p.cols ELSE n
           rows == AtLeast1(p.rows)
<1>1. cols \in Nat \ {0} /\ rows \in Nat \ {0} /\ (rows = p.rows \/ rows = 1)
  BY DEF AtLeast1
<1>2. CubeOf(p, n).cols = cols
  BY DEF CubeOf
<1>3. CubeOf(p, n).rows = IF rows * cols < n THEN (n + cols - 1) \div cols ELSE rows
  BY DEF CubeOf
<1>4. rows * cols \in Nat
  BY <1>1
<1> HIDE DEF rows
<1>5. CASE rows * cols < n
  <2>1. cols \in Nat \ {0} /\ CubeOf(p, n).rows = (n + cols - 1) \div cols
    BY <1>1, <1>3, <1>5
  <2>2. /\ CubeOf(p, n).rows \in Nat \ {0} /\ CubeOf(p, n).rows * cols >= n
        /\ CubeOf(p, n).rows <= n
    BY <2>1, CeilCovers
  <2> QED BY <1>1, <1>2, <2>2
<1>6. CASE ~(rows * cols < n)
  <2>1. CubeOf(p, n).rows = rows /\ rows * cols >= n
    BY <1>1, <1>3, <1>4, <1>6
  <2> QED BY <1>1, <1>2, <2>1
<1> QED BY <1>5, <1>6

(* Up to the range of a field, the field keeps the size.                   *)
LEMMA InFieldId ==
  ASSUME NEW elems \in 1..Field
  PROVE  InField(elems) = elems
BY GeometryAssumption DEF InField

LEMMA InFieldTyped ==
  ASSUME NEW elems \in Nat \ {0}
  PROVE  InField(elems) \in Nat \ {0}
BY GeometryAssumption DEF InField

LEMMA PackedElemsTyped ==
  ASSUME NEW call \in Call, NEW npu_op \in OpKind
  PROVE  /\ PackedElems(npu_op, call) \in Nat \ {0}
         /\ PackedElems(npu_op, call) >= Size(call)
         /\ PackedElems(npu_op, call) \in {Size(call), PaddedElements}
         /\ npu_op.cube \notin Padded => PackedElems(npu_op, call) = Size(call)
BY ShapeTyped, GeometryAssumption DEF PackedElems

LEMMA CubeTyped ==
  ASSUME NEW call \in Call, NEW npu_op \in OpKind,
         NEW globals \in [Globals -> [rows : Nat, cols : Nat]]
  PROVE  Cube(npu_op, call, globals) \in [rows : Nat, cols : Nat]
<1>1. CASE npu_op.cube \in {"table", "pool"}
  BY <1>1 DEF Cube
<1>2. CASE npu_op.cube = "whole"
  <2>1. globals["minus"] \in [rows : Nat, cols : Nat]
    BY DEF Globals
  <2>2. Cube(npu_op, call, globals) =
          [rows |-> InField(IF globals["minus"].rows > 0
                            THEN globals["minus"].rows ELSE 4),
           cols |-> InField(IF globals["minus"].cols > 0
                            THEN globals["minus"].cols ELSE 4)]
    BY <1>2 DEF Cube
  <2> QED BY <2>1, <2>2, InFieldTyped
<1>3. CASE npu_op.cube \in Globals
  <2> DEFINE c == CubeOf(globals[npu_op.cube], PackedElems(npu_op, call))
  <2>1. c.rows \in Nat \ {0} /\ c.cols \in Nat \ {0}
    BY <1>3, PackedElemsTyped, CubeOfCovers
  <2>2. Cube(npu_op, call, globals) = [rows |-> InField(c.rows), cols |-> InField(c.cols)]
    BY <1>3 DEF Cube, Globals
  <2> HIDE DEF c
  <2> QED BY <2>1, <2>2, InFieldTyped
<1> QED BY <1>1, <1>2, <1>3 DEF OpKind

-----------------------------------------------------------------------------
(* The end of a case, as far as types go.                                  *)
LEMMA NextCallTyped ==
  ASSUME TypeOK, calls # <<>>, NextCall
  PROVE  /\ calls' \in Seq(Call) /\ stage' = 1 /\ pc' = "ready"
         /\ calls' # <<>> => stage' <= Len(Stages[Head(calls').case])
<1>1. calls' \in Seq(Call) /\ stage' = 1 /\ pc' = "ready"
  BY TailTyped DEF TypeOK, NextCall
<1>2. ASSUME calls' # <<>>
      PROVE  stage' <= Len(Stages[Head(calls').case])
  <2>1. Head(calls') \in Call
    BY <1>1, <1>2
  <2>2. Len(Stages[Head(calls').case]) \in Nat \ {0}
    BY <2>1, StagesTyped DEF Call
  <2> QED BY <1>1, <2>2
<1> QED BY <1>1, <1>2

(***************************************************************************)
(* Types: the state of the calls stays one the test program can be in.     *)
(***************************************************************************)
THEOREM TypeCorrect == Spec => []TypeOK
<1>1. Init => TypeOK
  <2> SUFFICES ASSUME Init PROVE TypeOK
    OBVIOUS
  <2>1. calls \in Seq(Call)
    <3>1. \A call \in Cli : <<call>> \in Seq(Call)
      BY GeometryAssumption
    <3> QED BY <3>1, GeometryAssumption DEF Init
  <2>2. calls # <<>> => stage <= Len(Stages[Head(calls).case])
    <3> SUFFICES ASSUME calls # <<>> PROVE 1 <= Len(Stages[Head(calls).case])
      BY DEF Init
    <3>1. Head(calls) \in Call
      BY <2>1
    <3> QED BY <3>1, StagesTyped DEF Call
  <2> QED BY <2>1, <2>2 DEF Init, TypeOK
<1>2. TypeOK /\ [Next]_vars => TypeOK'
  <2> SUFFICES ASSUME TypeOK, [Next]_vars PROVE TypeOK'
    OBVIOUS
  <2>1. CASE Refuse
    BY <2>1, NextCallTyped DEF Refuse, TypeOK
  <2>2. CASE RunStage
    <3>1. params' \in [Globals -> [rows : Nat, cols : Nat]]
      BY <2>2, SetParamsTyped DEF RunStage
    <3>2. cube' \in [rows : Nat, cols : Nat]
      BY <2>2, <3>1, OpTyped, CubeTyped DEF RunStage
    <3> QED BY <2>2, <3>1, <3>2 DEF RunStage, TypeOK
  <2>3. CASE StageFails
    <3>1. params' \in [Globals -> [rows : Nat, cols : Nat]]
      BY <2>3, SetParamsTyped DEF StageFails, TypeOK
    <3> QED BY <2>3, <3>1, NextCallTyped DEF StageFails, TypeOK
  <2>4. CASE Continue
    <3>1. Len(Stages[Head(calls).case]) \in Nat
      BY <2>4, OpTyped, StagesTyped DEF Continue, TypeOK, Call
    <3>2. CASE stage < Len(Stages[Head(calls).case])
      BY <2>4, <3>1, <3>2 DEF Continue, TypeOK
    <3>3. CASE ~(stage < Len(Stages[Head(calls).case]))
      BY <2>4, <3>3, NextCallTyped DEF Continue, TypeOK
    <3> QED BY <3>2, <3>3
  <2>5. CASE UNCHANGED vars
    BY <2>5 DEF vars, TypeOK
  <2> QED BY <2>1, <2>2, <2>3, <2>4, <2>5 DEF Next, Done
<1> QED BY <1>1, <1>2, PTL DEF Spec

-----------------------------------------------------------------------------
(* What holds of every call the program starts with holds of every call it *)
(* still has to make.                                                      *)
CallsIn(S) == \A i \in 1..Len(calls) : calls[i] \in S

LEMMA CallsStay ==
  ASSUME NEW S, TypeOK, CallsIn(S), [Next]_vars
  PROVE  CallsIn(S)'
<1>1. calls' = calls \/ (calls # <<>> /\ calls' = Tail(calls))
  <2>1. pc = "ran" => calls # <<>>
    BY DEF TypeOK
  <2> QED BY <2>1 DEF Next, Refuse, RunStage, StageFails, Continue, Done,
                      NextCall, vars
<1>2. CASE calls' = calls
  BY <1>2 DEF CallsIn
<1>3. CASE calls # <<>> /\ calls' = Tail(calls)
  <2>1. calls \in Seq(Call)
    BY DEF TypeOK
  <2>2. \A i \in 1..Len(Tail(calls)) :
          i + 1 \in 1..Len(calls) /\ Tail(calls)[i] = calls[i + 1]
    BY <1>3, <2>1
  <2> QED BY <1>3, <2>2 DEF CallsIn
<1> QED BY <1>1, <1>2, <1>3

LEMMA CallsStart ==
  ASSUME NEW S, Cli \subseteq S, \A i \in 1..Len(Script) : Script[i] \in S, Init
  PROVE  CallsIn(S)
<1>1. CASE calls = Script
  BY <1>1 DEF CallsIn
<1>2. ASSUME NEW call \in Cli, calls = <<call>>
      PROVE  CallsIn(S)
  BY <1>2 DEF CallsIn
<1> QED BY <1>1, <1>2 DEF Init

(***************************************************************************)
(* The shapes whose rows and columns fit the registers, and the small ones *)
(* that fit whatever the globals hold: as many elements as a field has     *)
(* values, and at most 16 for the ops whose cube is fixed.                 *)
(***************************************************************************)
FieldCalls == {call \in Call : Rows(call) <= Field /\ Cols(call) <= Field}

InFixedCube(case) == \E i \in 1..Len(Stages[case]) :
                     Stages[case][i].cube \in {"table", "pool"}
NarrowCalls == {call \in FieldCalls :
                 /\ Size(call) <= Field
                 /\ InFixedCube(call.case) => Size(call) <= 16}

-----------------------------------------------------------------------------
(* How many ops of the current case have had their global set.             *)
Started == IF pc = "ran" THEN stage ELSE stage - 1

(* Every global the current case has set still holds its shape.            *)
OwnParams ==
  calls # <<>> =>
    \A i \in 1..Started :
      LET s == Stages[Head(calls).case][i].sets
      IN  s # "none" => params[s] = [rows |-> Rows(Head(calls)),
                                     cols |-> Cols(Head(calls))]

LEMMA SetParamsSets ==
  ASSUME TypeOK, calls # <<>>, NEW g \in Globals
  PROVE  LET rc == [rows |-> Rows(Head(calls)), cols |-> Cols(Head(calls))]
         IN  /\ Op.sets = g => SetParams(Op, Head(calls))[g] = rc
             /\ SetParams(Op, Head(calls))[g] \in {params[g], rc}
<1>1. Op \in OpKind
  BY OpTyped
<1> QED BY <1>1 DEF SetParams, TypeOK, OpKind, Globals

LEMMA OwnParamsStay ==
  ASSUME TypeOK, OwnParams, [Next]_vars
  PROVE  OwnParams'
<1>1. CASE NextCall
  <2>1. Started' = 0
    BY <1>1 DEF NextCall, Started
  <2> QED BY <2>1 DEF OwnParams
<1>2. CASE RunStage
  <2>1. calls # <<>> /\ calls' = calls /\ stage' = stage /\ pc = "ready"
        /\ pc' = "ran" /\ params' = SetParams(Op, Head(calls))
    BY <1>2 DEF RunStage
  <2>2. stage \in Nat \ {0} /\ stage \in 1..Len(Stages[Head(calls).case])
    BY <2>1, OpTyped, StagesTyped DEF TypeOK, Call
  <2> SUFFICES ASSUME NEW i \in 1..stage,
                      Stages[Head(calls).case][i].sets # "none"
               PROVE  params'[Stages[Head(calls).case][i].sets] =
                        [rows |-> Rows(Head(calls)), cols |-> Cols(Head(calls))]
    BY <2>1 DEF OwnParams, Started
  <2> DEFINE g == Stages[Head(calls).case][i].sets
  <2>3. g \in Globals
    <3>1. Stages[Head(calls).case] \in Seq(OpKind)
      BY <2>1, OpTyped, StagesTyped DEF Call
    <3>2. Stages[Head(calls).case][i] \in OpKind
      BY <2>2, <3>1
    <3> QED BY <3>2 DEF OpKind
  <2>4. CASE i = stage
    <3>1. Op.sets = g
      BY <2>4 DEF Op
    <3> QED BY <2>1, <2>3, <3>1, SetParamsSets
  <2>5. CASE i # stage
    <3>1. i \in 1..Started
      BY <2>1, <2>2, <2>5 DEF Started
    <3>2. params[g] = [rows |-> Rows(Head(calls)), cols |-> Cols(Head(calls))]
      BY <2>1, <3>1 DEF OwnParams
    <3> QED BY <2>1, <2>3, <3>2, SetParamsSets
  <2> QED BY <2>4, <2>5
<1>3. CASE Continue /\ ~NextCall
  <2>1. calls' = calls /\ params' = params /\ pc = "ran" /\ pc' = "ready"
        /\ stage' = stage + 1
    BY <1>3 DEF Continue
  <2>2. Started' = Started
    BY <2>1 DEF Started, TypeOK
  <2> QED BY <2>1, <2>2 DEF OwnParams
<1>4. CASE UNCHANGED vars
  BY <1>4 DEF vars, OwnParams, Started
<1> QED BY <1>1, <1>2, <1>3, <1>4 DEF Next, Refuse, StageFails, Done

-----------------------------------------------------------------------------
(* The globals hold shapes of calls, so they fit the registers.            *)
ParamsFit == \A g \in Globals : params[g].rows <= Field /\ params[g].cols <= Field

LEMMA SetParamsFit ==
  ASSUME TypeOK, calls # <<>>, ParamsFit, CallsIn(FieldCalls)
  PROVE  \A g \in Globals : /\ SetParams(Op, Head(calls))[g].rows <= Field
                            /\ SetParams(Op, Head(calls))[g].cols <= Field
<1>1. Head(calls) \in FieldCalls
  <2>1. 1 \in 1..Len(calls) /\ Head(calls) = calls[1]
    BY DEF TypeOK
  <2> QED BY <2>1 DEF CallsIn
<1>2. Rows(Head(calls)) <= Field /\ Cols(Head(calls)) <= Field
  BY <1>1 DEF FieldCalls
<1> QED BY <1>2, SetParamsSets DEF ParamsFit

LEMMA ParamsFitStay ==
  ASSUME TypeOK, ParamsFit, CallsIn(FieldCalls), [Next]_vars
  PROVE  ParamsFit'
<1>1. \/ params' = params
      \/ calls # <<>> /\ params' = SetParams(Op, Head(calls))
  BY DEF Next, Refuse, RunStage, StageFails, Continue, Done, vars
<1> QED BY <1>1, SetParamsFit DEF ParamsFit

LEMMA ParamsFitStart ==
  ASSUME Init
  PROVE  ParamsFit
BY GeometryAssumption DEF Init, ParamsFit

(***************************************************************************)
(* The cube of one op covers the elements of its case: what RunStage adds. *)
(***************************************************************************)
LEMMA StageCovers ==
  ASSUME TypeOK, OwnParams', ParamsFit', CallsIn(NarrowCalls),
         PaddedElements <= Field, RunStage
  PROVE  cube'.rows * cube'.cols >= Size(Head(calls))
<1> DEFINE call == Head(calls)
<1>1. call \in Call /\ Op \in OpKind /\ calls # <<>> /\ call \in NarrowCalls
  <2>1. 1 \in 1..Len(calls) /\ Head(calls) = calls[1]
    BY DEF TypeOK, RunStage
  <2> QED BY <2>1, OpTyped DEF CallsIn, RunStage
<1>2. params' \in [Globals -> [rows : Nat, cols : Nat]]
  BY SetParamsTyped DEF RunStage
<1>3. stage \in 1..Len(Stages[call.case])
  BY <1>1, StagesTyped DEF TypeOK, Call
<1>4. cube' = Cube(Op, call, params')
  BY DEF RunStage
<1>5. Size(call) \in Nat /\ Size(call) <= Field /\ Field \in Nat \ {0}
  BY <1>1, ShapeTyped, GeometryAssumption DEF NarrowCalls
<1>6. CASE Op.cube \in {"table", "pool"}
  <2>1. Size(call) <= 16
    BY <1>1, <1>3, <1>6 DEF NarrowCalls, InFixedCube, Op
  <2>2. cube' = [rows |-> 1, cols |-> 16] \/ cube' = [rows |-> 4, cols |-> 4]
    BY <1>4, <1>6 DEF Cube
  <2> QED BY <1>5, <2>1, <2>2
<1>7. CASE Op.cube = "whole"
  <2>1. calls' = calls /\ Started' = stage
    BY DEF RunStage, Started
  <2>2. Op.sets = "minus" /\ stage \in 1..stage
    BY <1>1, <1>3, <1>7 DEF OpKind, TypeOK
  <2>3. params'["minus"] = [rows |-> Rows(call), cols |-> Cols(call)]
    BY <1>1, <2>1, <2>2 DEF OwnParams, Op
  <2>4. Rows(call) \in 1..Field /\ Cols(call) \in 1..Field
    BY <1>1, ShapeTyped, GeometryAssumption DEF NarrowCalls, FieldCalls
  <2>5. cube' = [rows |-> InField(Rows(call)), cols |-> InField(Cols(call))]
    BY <1>4, <1>7, <2>3, <2>4 DEF Cube
  <2>6. cube'.rows = Rows(call) /\ cube'.cols = Cols(call)
    BY <2>4, <2>5, InFieldId
  <2> QED BY <1>5, <2>6 DEF Size
<1>8. CASE Op.cube \in Globals
  <2> DEFINE n == PackedElems(Op, call)
             c == CubeOf(params'[Op.cube], n)
  <2>1. n \in Nat \ {0} /\ n >= Size(call) /\ n <= Field
    BY <1>1, <1>5, PackedElemsTyped, GeometryAssumption
  <2>2. /\ params'[Op.cube] \in [rows : Nat, cols : Nat]
        /\ params'[Op.cube].rows <= Field /\ params'[Op.cube].cols <= Field
    BY <1>2, <1>8 DEF ParamsFit
  <2> HIDE DEF n
  <2>3. /\ c.rows \in Nat \ {0} /\ c.cols \in Nat \ {0}
        /\ c.rows * c.cols >= n
        /\ c.rows <= params'[Op.cube].rows \/ c.rows <= n
        /\ c.cols = params'[Op.cube].cols \/ c.cols = n
    BY <2>1, <2>2, CubeOfCovers
  <2>4. cube' = [rows |-> InField(c.rows), cols |-> InField(c.cols)]
    BY <1>4, <1>8 DEF Cube, Globals, n
  <2> HIDE DEF c
  <2>5. c.rows \in 1..Field /\ c.cols \in 1..Field
    BY <1>5, <2>1, <2>2, <2>3
  <2>6. cube'.rows = c.rows /\ cube'.cols = c.cols
    BY <2>4, <2>5, InFieldId
  <2>7. c.rows * c.cols \in Nat
    BY <2>3
  <2> QED BY <1>5, <2>1, <2>3, <2>6, <2>7
<1> QED BY <1>1, <1>6, <1>7, <1>8 DEF OpKind

(***************************************************************************)
(* With shapes of at most as many elements as a register field has values  *)
(* (and at most 16 for the ops of a fixed cube) every op computes all the  *)
(* elements of its case, after every history of cases.                     *)
(***************************************************************************)
THEOREM SmallShapesComputed ==
  ASSUME PaddedElements <= Field, Cli \subseteq NarrowCalls,
         \A i \in 1..Len(Script) : Script[i] \in NarrowCalls
  PROVE  Spec => []EveryElementComputed
<1> DEFINE Inv == /\ OwnParams /\ ParamsFit /\ CallsIn(NarrowCalls)
                  /\ EveryElementComputed
<1>1. Init => Inv
  <2> SUFFICES ASSUME Init PROVE Inv
    OBVIOUS
  <2>1. OwnParams /\ EveryElementComputed
    BY DEF Init, OwnParams, Started, EveryElementComputed
  <2> QED BY <2>1, ParamsFitStart, CallsStart
<1>2. TypeOK /\ Inv /\ [Next]_vars => Inv'
  <2> SUFFICES ASSUME TypeOK, Inv, [Next]_vars PROVE Inv'
    OBVIOUS
  <2>1. CallsIn(FieldCalls)
    BY DEF CallsIn, NarrowCalls
  <2>2. OwnParams' /\ ParamsFit' /\ CallsIn(NarrowCalls)'
    BY <2>1, OwnParamsStay, ParamsFitStay, CallsStay
  <2>3. CASE RunStage
    <3>1. cube'.rows * cube'.cols >= Size(Head(calls))
      BY <2>2, <2>3, StageCovers
    <3> QED BY <2>2, <2>3, <3>1 DEF RunStage, EveryElementComputed
  <2>4. CASE Refuse \/ StageFails \/ Continue
    <3>1. pc' = "ready"
      BY <2>4 DEF Refuse, StageFails, Continue, NextCall
    <3> QED BY <2>2, <3>1 DEF EveryElementComputed
  <2>5. CASE UNCHANGED vars
    BY <2>2, <2>5 DEF vars, EveryElementComputed
  <2> QED BY <2>3, <2>4, <2>5 DEF Next, Done
<1>3. Inv => EveryElementComputed
  OBVIOUS
<1> QED BY <1>1, <1>2, <1>3, TypeCorrect, PTL DEF Spec

-----------------------------------------------------------------------------
LEMMA StageIsShape ==
  ASSUME TypeOK, OwnParams', CallsIn(FieldCalls), RunStage
  PROVE  CubeIsShape'
<1> DEFINE call == Head(calls)
<1>1. call \in Call /\ Op \in OpKind /\ calls # <<>> /\ call \in FieldCalls
  <2>1. 1 \in 1..Len(calls) /\ Head(calls) = calls[1]
    BY DEF TypeOK, RunStage
  <2> QED BY <2>1, OpTyped DEF CallsIn, RunStage
<1>2. calls' = calls /\ stage' = stage /\ Started' = stage
      /\ cube' = Cube(Op, call, params')
  BY DEF RunStage, Started
<1>3. Op' = Op
  BY <1>2 DEF Op
<1> SUFFICES ASSUME NEW i \in 1..stage, Stages[call.case][i].sets = Op.cube
             PROVE  /\ cube'.cols = Cols(call)
                    /\ Op.cube \notin Padded => cube'.rows = Rows(call)
  BY <1>2, <1>3 DEF CubeIsShape
<1>4. Op.cube \in Globals
  <2>1. stage \in 1..Len(Stages[call.case])
    BY <1>1, StagesTyped DEF TypeOK, Call
  <2>2. Stages[call.case] \in Seq(OpKind)
    BY <1>1, StagesTyped DEF Call
  <2>3. Stages[call.case][i] \in OpKind
    BY <2>1, <2>2
  <2>4. Op.cube # "none"
    BY <1>1 DEF OpKind, Globals
  <2> QED BY <2>3, <2>4 DEF OpKind
<1>5. params'[Op.cube] = [rows |-> Rows(call), cols |-> Cols(call)]
  <2>1. Op.cube # "none"
    BY <1>4 DEF Globals
  <2> QED BY <1>1, <1>2, <2>1 DEF OwnParams
<1>6. Rows(call) \in 1..Field /\ Cols(call) \in 1..Field
  BY <1>1, ShapeTyped, GeometryAssumption DEF FieldCalls
<1> DEFINE n == PackedElems(Op, call)
           c == CubeOf(params'[Op.cube], n)
<1>7. cube' = [rows |-> InField(c.rows), cols |-> InField(c.cols)]
  BY <1>2, <1>4 DEF Cube, Globals
<1>8. c.cols = Cols(call)
  BY <1>5, <1>6 DEF CubeOf
<1>9. ASSUME Op.cube \notin Padded
      PROVE  c.rows = Rows(call)
  <2>1. n = Rows(call) * Cols(call)
    BY <1>1, <1>9, PackedElemsTyped DEF Size
  <2>2. ~(AtLeast1(Rows(call)) * Cols(call) < n) /\ AtLeast1(Rows(call)) = Rows(call)
    BY <1>6, <2>1 DEF AtLeast1
  <2> HIDE DEF n
  <2> QED BY <1>5, <1>6, <2>2 DEF CubeOf
<1> HIDE DEF c
<1>10. cube'.cols = Cols(call)
  BY <1>6, <1>7, <1>8, InFieldId
<1>11. Op.cube \notin Padded => cube'.rows = Rows(call)
  BY <1>6, <1>7, <1>9, InFieldId
<1> QED BY <1>10, <1>11

(***************************************************************************)
(* With rows and columns that fit the registers, every op whose global its *)
(* case has set computes in the shape of that case, after every history.   *)
(***************************************************************************)
THEOREM OwnShape ==
  ASSUME Cli \subseteq FieldCalls,
         \A i \in 1..Len(Script) : Script[i] \in FieldCalls
  PROVE  Spec => []CubeIsShape
<1> DEFINE Inv == OwnParams /\ CallsIn(FieldCalls) /\ CubeIsShape
<1>1. Init => Inv
  <2> SUFFICES ASSUME Init PROVE Inv
    OBVIOUS
  <2>1. OwnParams /\ CubeIsShape
    BY DEF Init, OwnParams, Started, CubeIsShape
  <2> QED BY <2>1, CallsStart
<1>2. TypeOK /\ Inv /\ [Next]_vars => Inv'
  <2> SUFFICES ASSUME TypeOK, Inv, [Next]_vars PROVE Inv'
    OBVIOUS
  <2>1. OwnParams' /\ CallsIn(FieldCalls)'
    BY OwnParamsStay, CallsStay
  <2>2. CASE RunStage
    BY <2>1, <2>2, StageIsShape
  <2>3. CASE Refuse \/ StageFails \/ Continue
    <3>1. pc' = "ready"
      BY <2>3 DEF Refuse, StageFails, Continue, NextCall
    <3> QED BY <2>1, <3>1 DEF CubeIsShape
  <2>4. CASE UNCHANGED vars
    BY <2>1, <2>4 DEF vars, CubeIsShape, Op
  <2> QED BY <2>2, <2>3, <2>4 DEF Next, Done
<1>3. Inv => CubeIsShape
  OBVIOUS
<1> QED BY <1>1, <1>2, <1>3, TypeCorrect, PTL DEF Spec
-----------------------------------------------------------------------------
(* Shapes of at most half a page, and globals that hold nothing else.      *)
HalfPage(n) == 2 * n <= PageElements
FewCalls == {call \in Call : HalfPage(Size(call))}

ShapeOfFew(p) ==
  \/ p.rows = 0 /\ p.cols = 0
  \/ p.rows > 0 /\ p.cols > 0 /\ HalfPage(p.rows * p.cols)
ParamsFew == \A g \in Globals : ShapeOfFew(params[g])

LEMMA SetParamsFew ==
  ASSUME TypeOK, calls # <<>>, ParamsFew, CallsIn(FewCalls)
  PROVE  \A g \in Globals : ShapeOfFew(SetParams(Op, Head(calls))[g])
<1> DEFINE rc == [rows |-> Rows(Head(calls)), cols |-> Cols(Head(calls))]
<1>1. Head(calls) \in FewCalls
  <2>1. 1 \in 1..Len(calls) /\ Head(calls) = calls[1]
    BY DEF TypeOK
  <2> QED BY <2>1 DEF CallsIn
<1>2. Rows(Head(calls)) \in Nat \ {0} /\ Cols(Head(calls)) \in Nat \ {0}
  BY OpTyped, ShapeTyped
<1>3. HalfPage(Rows(Head(calls)) * Cols(Head(calls)))
  BY <1>1 DEF FewCalls, Size
<1>4. ShapeOfFew(rc)
  BY <1>2, <1>3 DEF ShapeOfFew
<1> QED BY <1>4, SetParamsSets DEF ParamsFew

LEMMA ParamsFewStay ==
  ASSUME TypeOK, ParamsFew, CallsIn(FewCalls), [Next]_vars
  PROVE  ParamsFew'
<1>1. \/ params' = params
      \/ calls # <<>> /\ params' = SetParams(Op, Head(calls))
  BY DEF Next, Refuse, RunStage, StageFails, Continue, Done, vars
<1> QED BY <1>1, SetParamsFew DEF ParamsFew

(* A field never holds more than the size, so neither do two.              *)
LEMMA InFieldsBelow ==
  ASSUME NEW r \in Nat \ {0}, NEW c \in Nat \ {0}
  PROVE  InField(r) * InField(c) <= r * c
<1>1. \A elems \in Nat \ {0} : InField(elems) \in 1..elems
  <2> SUFFICES ASSUME NEW elems \in Nat \ {0} PROVE InField(elems) \in 1..elems
    OBVIOUS
  <2>1. elems - 1 \in Nat /\ Field \in Nat \ {0}
    BY GeometryAssumption
  <2>2. (elems - 1) % Field \in Nat /\ (elems - 1) % Field <= elems - 1
    BY <2>1
  <2> QED BY <2>2 DEF InField
<1>2. \A x \in 1..r, y \in 1..c : x * y <= r * c
  <2> SUFFICES ASSUME NEW x \in 1..r, NEW y \in 1..c PROVE x * y <= r * c
    OBVIOUS
  <2>1. x * y <= r * y
    OBVIOUS
  <2>2. r * y <= r * c
    OBVIOUS
  <2>3. x * y \in Nat /\ r * y \in Nat /\ r * c \in Nat
    OBVIOUS
  <2> QED BY <2>1, <2>2, <2>3
<1> QED BY <1>1, <1>2

(***************************************************************************)
(* A cube is at most the leftover shape, or what rounding up to its        *)
(* columns adds to the input; either is half a page.                       *)
(***************************************************************************)
LEMMA CubeOfFew ==
  ASSUME NEW p \in [rows : Nat, cols : Nat], ShapeOfFew(p),
         NEW n \in Nat \ {0}, HalfPage(n)
  PROVE  CubeOf(p, n).rows * CubeOf(p, n).cols <= PageElements
<1> DEFINE cols == IF p.cols > 0 THEN p.cols ELSE n
           rows == AtLeast1(p.rows)
<1>0. PageElements \in Nat /\ 2 * n <= PageElements
  BY GeometryAssumption DEF HalfPage
<1>1. cols \in Nat \ {0} /\ rows \in Nat \ {0}
  BY DEF AtLeast1
<1>2. /\ CubeOf(p, n).cols = cols
      /\ CubeOf(p, n).rows = IF rows * cols < n
                             THEN (n + cols - 1) \div cols ELSE rows
  BY DEF CubeOf
<1>3. rows * cols \in Nat /\ 2 * (rows * cols) <= PageElements
  <2>1. CASE p.rows = 0 /\ p.cols = 0
    <3>1. rows = 1 /\ cols = n
      BY <2>1 DEF AtLeast1
    <3> QED BY <3>1, <1>0
  <2>2. CASE p.rows > 0 /\ p.cols > 0 /\ HalfPage(p.rows * p.cols)
    <3>1. rows = p.rows /\ cols = p.cols
      BY <2>2 DEF AtLeast1
    <3>2. p.rows * p.cols \in Nat
      OBVIOUS
    <3> QED BY <3>1, <3>2, <2>2 DEF HalfPage
  <2> QED BY <2>1, <2>2 DEF ShapeOfFew
<1>4. cols <= rows * cols
  <2>1. \A x, y \in Nat \ {0} : y <= x * y
    OBVIOUS
  <2> HIDE DEF rows, cols
  <2> QED BY <1>1, <2>1
<1> HIDE DEF rows, cols
<1>5. CASE rows * cols < n
  <2> DEFINE q == (n + cols - 1) \div cols
  <2>1. n + cols - 1 \in Nat
    BY <1>1
  <2>2. q \in Nat /\ q * cols \in Nat /\ q * cols <= n + cols - 1
    <3>1. \A x \in Nat, d \in Nat \ {0} :
            /\ x \div d \in Nat /\ (x \div d) * d \in Nat
            /\ (x \div d) * d <= x
      OBVIOUS
    <3> QED BY <1>1, <2>1, <3>1
  <2>3. CubeOf(p, n).rows * CubeOf(p, n).cols = q * cols
    BY <1>2, <1>5
  <2> HIDE DEF q
  <2> QED BY <1>0, <1>1, <1>3, <1>4, <2>2, <2>3
<1>6. CASE ~(rows * cols < n)
  <2>1. CubeOf(p, n).rows * CubeOf(p, n).cols = rows * cols
    BY <1>2, <1>6
  <2> QED BY <1>0, <1>3, <2>1
<1> QED BY <1>5, <1>6

LEMMA PageAlignAtLeast ==
  ASSUME NEW n \in Nat \ {0}
  PROVE  PageAlign(n) \in Nat /\ PageElements <= PageAlign(n)
<1>1. PageElements \in Nat \ {0}
  BY GeometryAssumption
<1> DEFINE q == (n + PageElements - 1) \div PageElements
<1>2. q \in Nat \ {0}
  BY <1>1, CeilCovers
<1>3. PageAlign(n) = q * PageElements
  BY DEF PageAlign
<1>4. \A x, y \in Nat \ {0} : x * y \in Nat /\ y <= x * y
  OBVIOUS
<1> HIDE DEF q
<1> QED BY <1>1, <1>2, <1>3, <1>4

(* What RunStage programs fits a page.                                     *)
LEMMA StageFitsPage ==
  ASSUME TypeOK, ParamsFew', CallsIn(FewCalls), RunStage,
         HalfPage(PaddedElements), 16 <= PageElements
  PROVE  cube'.rows * cube'.cols <= PageElements
<1> DEFINE call == Head(calls)
<1>1. call \in Call /\ Op \in OpKind /\ calls # <<>> /\ call \in FewCalls
  <2>1. 1 \in 1..Len(calls) /\ Head(calls) = calls[1]
    BY DEF TypeOK, RunStage
  <2> QED BY <2>1, OpTyped DEF CallsIn, RunStage
<1>2. params' \in [Globals -> [rows : Nat, cols : Nat]]
  BY SetParamsTyped DEF RunStage
<1>3. cube' = Cube(Op, call, params')
  BY DEF RunStage
<1>4. CASE Op.cube \in {"table", "pool"}
  <2>1. cube' = [rows |-> 1, cols |-> 16] \/ cube' = [rows |-> 4, cols |-> 4]
    BY <1>3, <1>4 DEF Cube
  <2> QED BY <2>1
<1>5. CASE Op.cube = "whole"
  <2> DEFINE p == params'["minus"]
             r == IF p.rows > 0 THEN p.rows ELSE 4
             c == IF p.cols > 0 THEN p.cols ELSE 4
  <2>1. p \in [rows : Nat, cols : Nat] /\ ShapeOfFew(p)
    BY <1>2 DEF ParamsFew, Globals
  <2>2. r \in Nat \ {0} /\ c \in Nat \ {0} /\ r * c \in Nat
    BY <2>1
  <2>3. r * c <= PageElements
    <3>1. PageElements \in Nat
      BY GeometryAssumption
    <3>2. CASE p.rows = 0 /\ p.cols = 0
      BY <3>2
    <3>3. CASE p.rows > 0 /\ p.cols > 0 /\ HalfPage(p.rows * p.cols)
      BY <2>1, <2>2, <3>1, <3>3 DEF HalfPage
    <3> QED BY <2>1, <3>2, <3>3 DEF ShapeOfFew
  <2>4. cube' = [rows |-> InField(r), cols |-> InField(c)]
    BY <1>3, <1>5 DEF Cube
  <2> HIDE DEF r, c
  <2>5. InField(r) * InField(c) <= r * c /\ InField(r) * InField(c) \in Nat
    BY <2>2, InFieldsBelow, InFieldTyped
  <2>6. cube'.rows * cube'.cols = InField(r) * InField(c)
    BY <2>4
  <2> QED BY <2>2, <2>3, <2>5, <2>6, GeometryAssumption
<1>6. CASE Op.cube \in Globals
  <2> DEFINE n == PackedElems(Op, call)
             c == CubeOf(params'[Op.cube], n)
  <2>1. n \in Nat \ {0} /\ HalfPage(n)
    BY <1>1, PackedElemsTyped DEF FewCalls
  <2>2. /\ params'[Op.cube] \in [rows : Nat, cols : Nat]
        /\ ShapeOfFew(params'[Op.cube])
    BY <1>2, <1>6 DEF ParamsFew
  <2> HIDE DEF n
  <2>3. c.rows \in Nat \ {0} /\ c.cols \in Nat \ {0} /\ c.rows * c.cols <= PageElements
    BY <2>1, <2>2, CubeOfCovers, CubeOfFew
  <2>4. cube' = [rows |-> InField(c.rows), cols |-> InField(c.cols)]
    BY <1>3, <1>6 DEF Cube, Globals, n
  <2> HIDE DEF c
  <2>5. /\ InField(c.rows) * InField(c.cols) <= c.rows * c.cols
        /\ InField(c.rows) * InField(c.cols) \in Nat /\ c.rows * c.cols \in Nat
    <3> DEFINE x == c.rows
               y == c.cols
    <3>1. x \in Nat \ {0} /\ y \in Nat \ {0}
      BY <2>3
    <3> HIDE DEF x, y
    <3>2. /\ InField(x) * InField(y) <= x * y
          /\ InField(x) * InField(y) \in Nat /\ x * y \in Nat
      <4>1. InField(x) * InField(y) <= x * y
        BY <3>1, InFieldsBelow
      <4>2. InField(x) \in Nat /\ InField(y) \in Nat
        BY <3>1, InFieldTyped
      <4>3. \A i, j \in Nat : i * j \in Nat
        OBVIOUS
      <4> QED BY <3>1, <4>1, <4>2, <4>3
    <3> QED BY <3>2 DEF x, y
  <2>6. cube'.rows * cube'.cols = InField(c.rows) * InField(c.cols)
    BY <2>4
  <2> QED BY <2>3, <2>5, <2>6, GeometryAssumption
<1> QED BY <1>1, <1>4, <1>5, <1>6 DEF OpKind

(***************************************************************************)
(* With shapes of at most half a page no op leaves the pages of its        *)
(* buffers, whatever shape an earlier case left in the globals. Half,      *)
(* because a leftover number of columns rounds the input up by almost as   *)
(* many elements again.                                                    *)
(***************************************************************************)
THEOREM SmallShapesInside ==
  ASSUME HalfPage(PaddedElements), 16 <= PageElements, Cli \subseteq FewCalls,
         \A i \in 1..Len(Script) : Script[i] \in FewCalls
  PROVE  Spec => []InsidePages
<1> DEFINE Inv == ParamsFew /\ CallsIn(FewCalls) /\ InsidePages
<1>1. Init => Inv
  <2> SUFFICES ASSUME Init PROVE Inv
    OBVIOUS
  <2>1. ParamsFew /\ InsidePages
    BY DEF Init, ParamsFew, ShapeOfFew, InsidePages
  <2> QED BY <2>1, CallsStart
<1>2. TypeOK /\ Inv /\ [Next]_vars => Inv'
  <2> SUFFICES ASSUME TypeOK, Inv, [Next]_vars PROVE Inv'
    OBVIOUS
  <2>1. ParamsFew' /\ CallsIn(FewCalls)'
    BY ParamsFewStay, CallsStay
  <2>2. CASE RunStage
    <3> DEFINE call == Head(calls)
    <3>1. cube'.rows * cube'.cols <= PageElements
      BY <2>1, <2>2, StageFitsPage
    <3>2. call \in Call /\ Op \in OpKind
      BY <2>2, OpTyped DEF RunStage
    <3>3. /\ PageElements <= PageAlign(Size(call))
          /\ PageElements <= PageAlign(PackedElems(Op, call))
          /\ PageAlign(Size(call)) \in Nat
          /\ PageAlign(PackedElems(Op, call)) \in Nat
      BY <3>2, ShapeTyped, PackedElemsTyped, PageAlignAtLeast
    <3>4. cube' \in [rows : Nat, cols : Nat]
      BY <2>2, <3>2, SetParamsTyped, CubeTyped DEF RunStage
    <3>5. cube'.rows * cube'.cols \in Nat
      BY <3>4
    <3>6. /\ cube'.rows * cube'.cols <= PageAlign(Size(call))
          /\ cube'.rows * cube'.cols <= PageAlign(PackedElems(Op, call))
      BY <3>1, <3>3, <3>5, GeometryAssumption
    <3>7. calls' = calls /\ Op' = Op
      BY <2>2 DEF RunStage, Op
    <3>8. InsidePages'
      BY <3>6, <3>7 DEF InsidePages, PageAlign, PackedElems, Size, Rows, Cols
    <3> QED BY <2>1, <3>8
  <2>3. CASE Refuse \/ StageFails \/ Continue
    <3>1. pc' = "ready"
      BY <2>3 DEF Refuse, StageFails, Continue, NextCall
    <3> QED BY <2>1, <3>1 DEF InsidePages
  <2>4. CASE UNCHANGED vars
    BY <2>1, <2>4 DEF vars, InsidePages, Op
  <2> QED BY <2>2, <2>3, <2>4 DEF Next, Done
<1>3. Inv => InsidePages
  OBVIOUS
<1> QED BY <1>1, <1>2, <1>3, TypeCorrect, PTL DEF Spec

-----------------------------------------------------------------------------
(* MinmaxBin: the six cases of test_minmax_bin.                            *)

(* The powers of two that a half is rounded with.                          *)
Doubles(f, n) == f = [m \in 0 .. n |-> IF m = 0 THEN 1 ELSE 2 * f[m - 1]]

LEMMA PowersExist ==
  ASSUME NEW n \in Nat
  PROVE  \E f : Doubles(f, n) /\ Minmax!TwoTo(n) = f[n] /\ \A m \in 0 .. n : f[m] \in Nat \ {0}
<1> DEFINE Round == [c \in 1 .. n |-> [x \in Nat \ {0} |-> 2 * x]]
<1>1. \A c \in 1 .. n : \A x \in Nat \ {0} : Round[c][x] \in Nat \ {0}
  OBVIOUS
<1>2. PICK g \in [0 .. n -> Nat \ {0}] :
        \A c \in 0 .. n : g[c] = IF c = 0 THEN 1 ELSE Round[c][g[c - 1]]
  <2> HIDE DEF Round
  <2>1. HasValues(Nat \ {0}, 1, n, Round)
    <3>1. 1 \in Nat \ {0}
      OBVIOUS
    <3> QED BY <1>1, <3>1, LoopHasValues
  <2> QED BY <2>1 DEF HasValues
<1>3. Doubles(g, n)
  <2>1. ASSUME NEW c \in 0 .. n
        PROVE  g[c] = IF c = 0 THEN 1 ELSE 2 * g[c - 1]
    <3>1. c # 0 => c \in 1 .. n /\ c - 1 \in 0 .. n
      OBVIOUS
    <3> QED BY <1>2, <3>1
  <2> QED BY <2>1 DEF Doubles
<1> DEFINE power == CHOOSE f : Doubles(f, n)
<1>4. Doubles(power, n)
  BY <1>3
<1>5. Minmax!TwoTo(n) = power[n]
  BY DEF Minmax!TwoTo, Doubles
<1> HIDE DEF power
<1>6. ASSUME NEW m \in 0 .. n
      PROVE  power[m] \in Nat \ {0}
  <2>1. power[0] \in Nat \ {0}
    BY <1>4 DEF Doubles
  <2>2. \A c \in 1 .. m : power[c] = 2 * power[c - 1]
    BY <1>4 DEF Doubles
  <2>3. \A c \in 1 .. m : power[c - 1] \in Nat \ {0} => power[c] \in Nat \ {0}
    BY <2>2
  <2>4. m \in Nat
    OBVIOUS
  <2> DEFINE S == Nat \ {0}
  <2> HIDE DEF S
  <2>5. power[0] \in S /\ \A c \in 1 .. m : power[c - 1] \in S => power[c] \in S
    BY <2>1, <2>3 DEF S
  <2>6. power[m] \in S
    BY <2>4, <2>5, LoopKeeps
  <2> QED BY <2>6 DEF S
<1> QED BY <1>4, <1>5, <1>6

LEMMA TwoToDoubles ==
  /\ Minmax!TwoTo(0) = 1
  /\ \A n \in Nat : /\ Minmax!TwoTo(n) \in Nat \ {0}
                    /\ Minmax!TwoTo(n + 1) = 2 * Minmax!TwoTo(n)
<1>1. Minmax!TwoTo(0) = 1
  BY PowersExist DEF Doubles
<1>2. ASSUME NEW n \in Nat
      PROVE  /\ Minmax!TwoTo(n) \in Nat \ {0}
             /\ Minmax!TwoTo(n + 1) = 2 * Minmax!TwoTo(n)
  <2>1. PICK f : Doubles(f, n) /\ Minmax!TwoTo(n) = f[n]
                 /\ \A m \in 0 .. n : f[m] \in Nat \ {0}
    BY PowersExist
  <2>2. PICK g : Doubles(g, n + 1) /\ Minmax!TwoTo(n + 1) = g[n + 1]
    BY PowersExist
  <2> DEFINE h == [m \in 0 .. n |-> <<f[m], g[m]>>]
             S == {<<x, x>> : x \in Nat}
  <2>3. h[0] \in S
    BY <2>1, <2>2 DEF Doubles
  <2>4. ASSUME NEW c \in 1 .. n, h[c - 1] \in S
        PROVE  h[c] \in S
    <3>0. c \in 0 .. n /\ c \in 0 .. n + 1 /\ c - 1 \in 0 .. n /\ c # 0
      OBVIOUS
    <3>a. f[c] = 2 * f[c - 1] /\ f[c - 1] \in Nat
      BY <2>1, <3>0 DEF Doubles
    <3>b. g[c] = 2 * g[c - 1]
      BY <2>2, <3>0 DEF Doubles
    <3>1. f[c] = 2 * f[c - 1] /\ g[c] = 2 * g[c - 1] /\ f[c - 1] \in Nat
      BY <3>a, <3>b
    <3>2. f[c - 1] = g[c - 1]
      <4>1. h[c - 1] = <<f[c - 1], g[c - 1]>>
        OBVIOUS
      <4> HIDE DEF h
      <4> QED BY <2>4, <4>1
    <3>3. f[c] \in Nat /\ f[c] = g[c]
      BY <3>1, <3>2
    <3> QED BY <3>3
  <2>5. h[n] \in S
    <3> HIDE DEF h, S
    <3> QED BY <2>3, <2>4, LoopKeeps
  <2>6. f[n] = g[n]
    <3>1. h[n] = <<f[n], g[n]>>
      OBVIOUS
    <3> HIDE DEF h
    <3> QED BY <2>5, <3>1
  <2>7. g[n + 1] = 2 * g[n]
    BY <2>2 DEF Doubles
  <2> QED BY <2>1, <2>2, <2>6, <2>7
<1> QED BY <1>1, <1>2

LEMMA TwoToGrows ==
  ASSUME NEW m \in Nat, NEW n \in Nat
  PROVE  Minmax!TwoTo(m + n) >= Minmax!TwoTo(m)
<1> DEFINE T == {x \in Nat : Minmax!TwoTo(m + x) >= Minmax!TwoTo(m)}
<1>1. 0 \in T
  BY TwoToDoubles
<1>2. ASSUME NEW x \in T PROVE x + 1 \in T
  <2>1. m + x \in Nat /\ m + (x + 1) = (m + x) + 1
    OBVIOUS
  <2>2. Minmax!TwoTo(m + (x + 1)) = 2 * Minmax!TwoTo(m + x) /\ Minmax!TwoTo(m + x) \in Nat
    BY <2>1, TwoToDoubles
  <2>3. Minmax!TwoTo(m) \in Nat
    BY TwoToDoubles
  <2> QED BY <2>2, <2>3
<1>3. T = Nat
  <2>1. T \in SUBSET Nat
    OBVIOUS
  <2> HIDE DEF T
  <2> QED BY <1>1, <1>2, <2>1, CountingUp
<1> QED BY <1>3

-----------------------------------------------------------------------------
(* The first number that halves of Precision bits do not all hold.         *)
Limit == Minmax!TwoTo(Precision)

LEMMA LimitIs ==
  ASSUME Minmax!MinmaxAssumption
  PROVE  /\ Limit \in Nat /\ Limit >= 4 /\ Limit % 4 = 0
         /\ Minmax!TwoTo(1) = 2 /\ Minmax!TwoTo(2) = 4
         /\ Minmax!TwoTo(1 + Precision) = 2 * Limit /\ Minmax!TwoTo(2 + Precision) = 4 * Limit
<1>1. Precision \in Nat /\ Precision >= 2
  BY DEF Minmax!MinmaxAssumption
<1>2. Minmax!TwoTo(1) = 2 /\ Minmax!TwoTo(2) = 4
  <2>1. Minmax!TwoTo(0 + 1) = 2 * 1
    BY TwoToDoubles
  <2>2. Minmax!TwoTo(1 + 1) = 2 * 2
    BY <2>1, TwoToDoubles
  <2> QED BY <2>1, <2>2
<1>3. PICK x \in Nat : Precision = 2 + x
  <2>1. Precision - 2 \in Nat /\ Precision = 2 + (Precision - 2)
    BY <1>1
  <2> QED BY <2>1
<1>4. /\ Minmax!TwoTo(Precision + 1) = 2 * Limit
      /\ Minmax!TwoTo((Precision + 1) + 1) = 2 * Minmax!TwoTo(Precision + 1)
      /\ Limit \in Nat \ {0}
  BY <1>1, TwoToDoubles DEF Limit
<1>5. 1 + Precision = Precision + 1 /\ 2 + Precision = (Precision + 1) + 1
  BY <1>1
<1>6. Limit >= 4
  BY <1>2, <1>3, TwoToGrows DEF Limit
<1>7. Limit % 4 = 0
  <2> DEFINE T == {y \in Nat : Minmax!TwoTo(2 + y) % 4 = 0}
  <2>1. 0 \in T
    BY <1>2
  <2>2. ASSUME NEW y \in T PROVE y + 1 \in T
    <3>1. 2 + y \in Nat /\ 2 + (y + 1) = (2 + y) + 1
      OBVIOUS
    <3>2. Minmax!TwoTo(2 + (y + 1)) = 2 * Minmax!TwoTo(2 + y) /\ Minmax!TwoTo(2 + y) \in Nat
      BY <3>1, TwoToDoubles
    <3>3. \A z \in Nat : z % 4 = 0 => (2 * z) % 4 = 0
      OBVIOUS
    <3> QED BY <3>2, <3>3
  <2>3. T = Nat
    <3>1. T \in SUBSET Nat
      OBVIOUS
    <3> HIDE DEF T
    <3> QED BY <2>1, <2>2, <3>1, CountingUp
  <2> QED BY <1>3, <2>3 DEF Limit
<1> QED BY <1>2, <1>4, <1>5, <1>6, <1>7

(* Up to a little above Limit a number is its own half, or the multiple of *)
(* four beside it.                                                         *)
Held(m) == IF m < Limit \/ m % 2 = 0 THEN m ELSE IF m % 4 = 1 THEN m - 1 ELSE m + 1

LEMMA RoundedIs ==
  ASSUME Minmax!MinmaxAssumption, NEW m \in 0 .. Limit + 4
  PROVE  Minmax!Rounded(m) = Held(m)
<1> DEFINE Fits(e) == /\ m < Minmax!TwoTo(e + Precision)
                      /\ e = 0 \/ m >= Minmax!TwoTo(e - 1 + Precision)
           e == CHOOSE x \in 0 .. m : Fits(x)
           q == Minmax!TwoTo(e)
           down == m \div q
           up == \/ 2 * (m % q) > q
                 \/ 2 * (m % q) = q /\ down % 2 = 1
<1>1. Precision \in Nat /\ m \in Nat /\ 0 + Precision = Precision
      /\ 1 - 1 + Precision = Precision /\ 2 - 1 + Precision = 1 + Precision
  BY LimitIs DEF Minmax!MinmaxAssumption
<1>2. Fits(0) <=> m < Limit
  BY <1>1 DEF Limit
<1>3. Fits(1) <=> m < 2 * Limit /\ m >= Limit
  BY <1>1, LimitIs DEF Limit
<1>4. Fits(2) <=> m < 4 * Limit /\ m >= 2 * Limit
  BY <1>1, LimitIs
<1>5. ASSUME NEW x \in 0 .. m, x > 2
      PROVE  ~Fits(x)
  <2>1. x - 3 \in Nat /\ x - 1 + Precision = (2 + Precision) + (x - 3) /\ 2 + Precision \in Nat
    BY <1>1, <1>5
  <2>2. Minmax!TwoTo(x - 1 + Precision) >= 4 * Limit
    BY <2>1, TwoToGrows, LimitIs
  <2>3. Minmax!TwoTo(x - 1 + Precision) \in Nat
    BY <2>1, TwoToDoubles
  <2> QED BY <1>5, <2>2, <2>3, LimitIs
<1> HIDE DEF Fits
<1>6. \E x \in 0 .. m : Fits(x)
  <2>1. CASE m < Limit
    BY <1>2, <2>1
  <2>2. CASE m >= Limit /\ m < 2 * Limit
    <3>1. 1 \in 0 .. m
      BY <2>2, LimitIs
    <3> QED BY <1>3, <2>2, <3>1
  <2>3. CASE m >= 2 * Limit
    <3>1. 2 \in 0 .. m /\ m < 4 * Limit
      BY <2>3, LimitIs
    <3> QED BY <1>4, <2>3, <3>1
  <2> QED BY <2>1, <2>2, <2>3, LimitIs
<1>7. e \in 0 .. m /\ Fits(e)
  BY <1>6
<1>8. Minmax!Rounded(m) = q * (down + IF up THEN 1 ELSE 0)
  BY DEF Minmax!Rounded, Fits
<1> HIDE DEF e
<1>9. e \in {0, 1, 2}
  BY <1>5, <1>7
<1>10. CASE e = 0
  <2>1. m < Limit /\ q = 1
    BY <1>2, <1>7, <1>10, TwoToDoubles
  <2>2. down = m /\ m % q = 0
    BY <2>1
  <2> HIDE DEF q
  <2> QED BY <1>8, <2>1, <2>2 DEF Held
<1>11. CASE e = 1
  <2>1. m >= Limit /\ q = 2
    BY <1>3, <1>7, <1>11, LimitIs
  <2> HIDE DEF q
  <2>2. m = 4 * (m \div 4) + (m % 4) /\ m % 4 \in 0 .. 3 /\ m \div 4 \in Nat
    OBVIOUS
  <2>3. /\ m % 4 = 0 => m \div 2 = 2 * (m \div 4) /\ m % 2 = 0
        /\ m % 4 = 1 => m \div 2 = 2 * (m \div 4) /\ m % 2 = 1
        /\ m % 4 = 2 => m \div 2 = 2 * (m \div 4) + 1 /\ m % 2 = 0
        /\ m % 4 = 3 => m \div 2 = 2 * (m \div 4) + 1 /\ m % 2 = 1
    BY <2>2
  <2>4. /\ m % 4 = 1 => (m \div 2) % 2 = 0
        /\ m % 4 = 3 => (m \div 2) % 2 = 1
    BY <2>2, <2>3
  <2>5. m % 2 = 0 => ~up /\ 2 * down = m
    BY <2>1, <2>2, <2>3
  <2>6. m % 4 = 1 => ~up /\ 2 * down = m - 1
    BY <2>1, <2>2, <2>3, <2>4
  <2>7. m % 4 = 3 => up /\ 2 * (down + 1) = m + 1
    BY <2>1, <2>2, <2>3, <2>4
  <2>8. m % 2 = 0 \/ m % 4 = 1 \/ m % 4 = 3
    BY <2>2, <2>3
  <2>9. down \in Nat
    BY <2>1
  <2> DEFINE more == IF up THEN 1 ELSE 0
  <2>10. (up => more = 1) /\ (~up => more = 0) /\ Minmax!Rounded(m) = q * (down + more)
    BY <1>8
  <2> HIDE DEF up, down, more
  <2>11. CASE m % 2 = 0
    <3>1. Minmax!Rounded(m) = 2 * down
      BY <2>1, <2>5, <2>9, <2>10, <2>11
    <3> QED BY <2>5, <2>11, <3>1 DEF Held
  <2>12. CASE m % 4 = 1
    <3>1. Minmax!Rounded(m) = 2 * down
      BY <2>1, <2>6, <2>9, <2>10, <2>12
    <3>2. ~(m < Limit) /\ m % 2 # 0
      BY <2>1, <2>3, <2>12, LimitIs
    <3> QED BY <2>6, <2>12, <3>1, <3>2 DEF Held
  <2>13. CASE m % 4 = 3
    <3>1. Minmax!Rounded(m) = 2 * (down + 1)
      BY <2>1, <2>7, <2>9, <2>10, <2>13
    <3>2. ~(m < Limit) /\ m % 2 # 0 /\ m % 4 # 1
      BY <2>1, <2>3, <2>13, LimitIs
    <3> QED BY <2>7, <2>13, <3>1, <3>2 DEF Held
  <2> QED BY <2>8, <2>11, <2>12, <2>13
<1>12. CASE e = 2
  <2>1. m >= 2 * Limit /\ q = 4
    BY <1>4, <1>7, <1>12, LimitIs
  <2>2. m = 8
    BY <2>1, LimitIs
  <2>3. down = 2 /\ m % q = 0
    BY <2>1, <2>2
  <2> HIDE DEF q
  <2> QED BY <1>8, <2>1, <2>2, <2>3 DEF Held
<1> QED BY <1>9, <1>10, <1>11, <1>12

(* Two quarters apart, two numbers remain apart as halves.                 *)
LEMMA HeldGrows ==
  ASSUME Minmax!MinmaxAssumption, NEW m \in 0 .. Limit + 2
  PROVE  Held(m) \in Nat /\ Held(m) < Held(m + 2) /\ Held(m + 2) \in Nat
<1>1. Limit \in Nat /\ Limit >= 4 /\ Limit % 4 = 0
  BY LimitIs
<1>2. m \in Nat /\ m + 2 \in Nat
  BY <1>1
<1>3. CASE m % 2 = 0
  <2>1. (m + 2) % 2 = 0
    BY <1>2, <1>3
  <2> QED BY <1>2, <1>3, <2>1 DEF Held
<1>4. CASE m % 2 # 0
  <2>1. m % 2 = 1 /\ (m + 2) % 2 = 1 /\ m % 4 \in {1, 3}
    BY <1>2, <1>4
  <2>2. CASE m < Limit
    <3>1. Held(m) = m
      BY <2>2 DEF Held
    <3>2. Held(m + 2) \in {m + 1, m + 2, m + 3}
      BY <1>2 DEF Held
    <3> QED BY <1>2, <3>1, <3>2
  <2>3. CASE m >= Limit
    <3>1. m = Limit + 1
      BY <1>1, <1>4, <2>3
    <3>2. m % 4 = 1 /\ (m + 2) % 4 = 3
      BY <1>1, <3>1
    <3>3. Held(m) = m - 1 /\ Held(m + 2) = m + 3
      BY <1>1, <1>2, <2>1, <2>3, <3>2 DEF Held
    <3> QED BY <1>2, <1>1, <2>3, <3>3
  <2> QED BY <1>1, <1>2, <2>2, <2>3
<1> QED BY <1>3, <1>4

Cases == {Minmax!test_minmax_bin[n] : n \in 1 .. 6}

LEMMA SixAreSequence ==
  ASSUME NEW S, NEW a \in S, NEW b \in S, NEW c \in S, NEW d \in S, NEW x \in S, NEW y \in S
  PROVE  <<a, b, c, d, x, y>> \in Seq(S) /\ Len(<<a, b, c, d, x, y>>) = 6
OBVIOUS

LEMMA CasesAre ==
  /\ Len(Minmax!test_minmax_bin) = 6
  /\ Minmax!test_minmax_bin \in Seq(Cases)
  /\ \A c \in Cases : c.is_min \in BOOLEAN /\ c.mode \in {"pattern", "equal", "unequal"}
<1> DEFINE s == Minmax!test_minmax_bin
           C == [is_min : BOOLEAN, mode : {"pattern", "equal", "unequal"}]
<1>1. \A n \in 1 .. 6 : s[n] \in Cases
  BY DEF Cases
<1>2. /\ s[1] = Minmax!Case(FALSE, "pattern") /\ s[2] = Minmax!Case(TRUE, "pattern")
      /\ s[3] = Minmax!Case(FALSE, "equal") /\ s[4] = Minmax!Case(TRUE, "equal")
      /\ s[5] = Minmax!Case(FALSE, "unequal") /\ s[6] = Minmax!Case(TRUE, "unequal")
  BY DEF Minmax!test_minmax_bin
<1>3. s = <<s[1], s[2], s[3], s[4], s[5], s[6]>>
  BY DEF Minmax!test_minmax_bin
<1>4. \A is_min \in BOOLEAN : \A mode \in {"pattern", "equal", "unequal"} :
        Minmax!Case(is_min, mode) \in C
  BY DEF Minmax!Case
<1> HIDE DEF s
<1>5. Len(s) = 6 /\ s \in Seq(Cases)
  <2> DEFINE a == s[1]
             b == s[2]
             c == s[3]
             d == s[4]
             x == s[5]
             y == s[6]
  <2>1. a \in Cases /\ b \in Cases /\ c \in Cases /\ d \in Cases /\ x \in Cases /\ y \in Cases
    BY <1>1
  <2>2. s = <<a, b, c, d, x, y>>
    BY <1>3
  <2> HIDE DEF a, b, c, d, x, y
  <2> QED BY <2>1, <2>2, SixAreSequence
<1>6. \A n \in 1 .. 6 : s[n] \in C
  <2> HIDE DEF C
  <2>1. s[1] \in C /\ s[2] \in C /\ s[3] \in C /\ s[4] \in C /\ s[5] \in C /\ s[6] \in C
    BY <1>2, <1>4
  <2> QED BY <2>1
<1>7. \A c \in C : c.is_min \in BOOLEAN /\ c.mode \in {"pattern", "equal", "unequal"}
  OBVIOUS
<1> QED BY <1>5, <1>6, <1>7 DEF Cases, s

(* What is compared is two quarters apart, or the same.                    *)
LEMMA HalvesCompareAlike ==
  ASSUME Minmax!MinmaxAssumption, NEW c \in Cases, NEW i \in 0 .. Limit + 2
  PROVE  Minmax!Yes(c, Minmax!half(Minmax!A(c, i)), Minmax!half(Minmax!B(c, i)))
           <=> Minmax!Yes(c, Minmax!A(c, i), Minmax!B(c, i))
<1>1. Limit \in Nat /\ Limit >= 4 /\ Limit % 4 = 0
  BY LimitIs
<1>2. \A m \in 0 .. Limit + 4 : Minmax!half(m) = Held(m)
  BY <1>1, RoundedIs DEF Minmax!half
<1>3. Minmax!half(-1) = -1
  <2>1. Held(1) = 1 /\ 1 \in 0 .. Limit + 4
    BY <1>1 DEF Held
  <2>2. Minmax!half(-1) = -Minmax!Rounded(1)
    BY DEF Minmax!half
  <2> QED BY <2>1, <2>2, RoundedIs
<1>4. \A m \in 0 .. Limit + 2 :
        Minmax!half(m) \in Int /\ Minmax!half(m + 2) \in Int
          /\ Minmax!half(m) < Minmax!half(m + 2)
  BY <1>1, <1>2, HeldGrows
<1>5. Minmax!half(1) = 1
  BY <1>1, <1>2 DEF Held
<1>6. i \in Int /\ Minmax!half(i) \in Int
  BY <1>1, <1>4
<1>7. CASE Minmax!B(c, i) = i
  <2>1. Minmax!half(i) >= Minmax!half(i) /\ Minmax!half(i) <= Minmax!half(i)
    BY <1>6
  <2> QED BY <1>6, <1>7, <2>1 DEF Minmax!Yes, Minmax!A
<1>8. CASE Minmax!B(c, i) = i + 2
  BY <1>4, <1>6, <1>8 DEF Minmax!Yes, Minmax!A
<1>9. CASE Minmax!B(c, i) = i - 2 /\ i >= 2
  <2>1. i - 2 \in 0 .. Limit + 2 /\ (i - 2) + 2 = i
    BY <1>9, <1>1
  <2>2. Minmax!half(i - 2) \in Int /\ Minmax!half(i - 2) < Minmax!half(i)
    BY <1>4, <2>1
  <2> QED BY <1>6, <1>9, <2>2 DEF Minmax!Yes, Minmax!A
<1>10. CASE Minmax!B(c, i) = i - 2 /\ i < 2
  <2>1. i = 1
    BY <1>1, <1>10 DEF Minmax!B
  <2>2. Minmax!B(c, i) = -1
    BY <1>10, <2>1
  <2> QED BY <1>3, <1>5, <2>1, <2>2 DEF Minmax!Yes, Minmax!A
<1>11. Minmax!B(c, i) \in {i, i + 2, i - 2}
  BY DEF Minmax!B
<1> QED BY <1>6, <1>7, <1>8, <1>9, <1>10, <1>11

-----------------------------------------------------------------------------
(* The elements a format shows a yes for, whatever is expected of them.    *)
ShownIn(format, slots) == {i \in Minmax!Elements : Minmax!Shows(format, slots, i)}

(* A case is content with an output that one of the formats reads right.   *)
Content(c) == \E format \in Minmax!Formats : Minmax!mismatches(format, c) = 0

LEMMA ExpectedIn ==
  ASSUME NEW c
  PROVE  Minmax!expected(c) \subseteq Minmax!Elements
BY DEF Minmax!expected

LEMMA NoMismatch ==
  ASSUME Minmax!MinmaxAssumption, size \in Sizes, NEW c, NEW format
  PROVE  Minmax!mismatches(format, c) = 0
           <=> ShownIn(format, Minmax!Written(c)) = Minmax!expected(c)
<1> DEFINE wrong == {i \in Minmax!Elements :
              Minmax!Shows(format, Minmax!Written(c), i) # (i \in Minmax!expected(c))}
<1>1. size \in Int
  BY LimitIs DEF Minmax!MinmaxAssumption, Limit
<1>2. IsFiniteSet(Minmax!Elements)
  BY <1>1, FS_Interval DEF Minmax!Elements
<1>3. IsFiniteSet(wrong)
  BY <1>2, FS_Subset
<1>4. Minmax!mismatches(format, c) = Cardinality(wrong)
  BY DEF Minmax!mismatches, Minmax!Cardinality, Cardinality
<1>5. Cardinality(wrong) = 0 <=> wrong = {}
  <2> HIDE DEF wrong
  <2> QED BY <1>3, FS_EmptySet
<1>6. wrong = {} <=> ShownIn(format, Minmax!Written(c)) = Minmax!expected(c)
  <2> DEFINE Shown(i) == Minmax!Shows(format, Minmax!Written(c), i)
  <2>1. \A i : Shown(i) \in BOOLEAN
    BY DEF Minmax!Shows
  <2>2. ShownIn(format, Minmax!Written(c)) = {i \in Minmax!Elements : Shown(i)}
    BY DEF ShownIn
  <2>3. wrong = {i \in Minmax!Elements : Shown(i) # (i \in Minmax!expected(c))}
    OBVIOUS
  <2> HIDE DEF Shown, wrong
  <2> QED BY <2>1, <2>2, <2>3, ExpectedIn
<1> QED BY <1>4, <1>5, <1>6

(* A device that compares shows what is expected, by the slots alone.      *)
LEMMA RightIsContent ==
  ASSUME Minmax!MinmaxAssumption, size \in Sizes, kind \in Kinds, device # "deaf",
         NEW c \in Cases
  PROVE  Content(c)
<1>1. "slot_any" \in kind.shows
  BY DEF Minmax!MinmaxAssumption
<1>2. Minmax!Elements \subseteq 0 .. Limit + 2
  <2>1. size \in 4 .. Limit + 3
    BY DEF Minmax!MinmaxAssumption, Limit
  <2> QED BY <2>1, LimitIs DEF Minmax!Elements
<1>3. Minmax!Written(c) = Minmax!expected(c)
  <2>1. Minmax!Written(c) = {i \in Minmax!Elements :
          Minmax!Yes(c, Minmax!half(Minmax!A(c, i)), Minmax!half(Minmax!B(c, i)))}
    BY DEF Minmax!Written
  <2> QED BY <1>2, <2>1, HalvesCompareAlike DEF Minmax!expected
<1>4. ShownIn("slot_any", Minmax!expected(c)) = Minmax!expected(c)
  BY <1>1, ExpectedIn DEF ShownIn, Minmax!Shows
<1>5. "slot_any" \in Minmax!Formats
  BY DEF Minmax!Formats, Minmax!SlotFormats
<1>6. Minmax!mismatches("slot_any", c) = 0
  BY <1>3, <1>4, NoMismatch
<1> QED BY <1>5, <1>6 DEF Content

(* An output that does not depend on the operands has three readings that  *)
(* are not empty, and the cases expect four different ones.                *)
LEMMA DeafIsNotContent ==
  ASSUME Minmax!MinmaxAssumption, size \in Sizes, device = "deaf", fixed \subseteq Minmax!Elements
  PROVE  \E c \in Cases : ~Content(c)
<1> DEFINE c1 == Minmax!test_minmax_bin[1]
           c2 == Minmax!test_minmax_bin[2]
           c3 == Minmax!test_minmax_bin[3]
           c5 == Minmax!test_minmax_bin[5]
<1>1. c1 \in Cases /\ c2 \in Cases /\ c3 \in Cases /\ c5 \in Cases
  BY DEF Cases
<1>2. size \in Nat /\ size >= 4
  BY LimitIs DEF Minmax!MinmaxAssumption, Limit
<1>3. 0 \in Minmax!Elements /\ 1 \in Minmax!Elements /\ 2 \in Minmax!Elements
  BY <1>2 DEF Minmax!Elements
<1> DEFINE E(c) == Minmax!expected(c)
<1>4. 0 \in E(c1) /\ 1 \notin E(c1) /\ 2 \in E(c1)
  BY <1>3 DEF Minmax!expected, Minmax!Yes, Minmax!A, Minmax!B, Minmax!test_minmax_bin, Minmax!Case
<1>5. 0 \in E(c2) /\ 1 \in E(c2) /\ 2 \notin E(c2)
  BY <1>3 DEF Minmax!expected, Minmax!Yes, Minmax!A, Minmax!B, Minmax!test_minmax_bin, Minmax!Case
<1>6. 0 \in E(c3) /\ 1 \in E(c3) /\ 2 \in E(c3)
  BY <1>3 DEF Minmax!expected, Minmax!Yes, Minmax!A, Minmax!B, Minmax!test_minmax_bin, Minmax!Case
<1>7. 0 \notin E(c5) /\ 1 \in E(c5)
  BY <1>3 DEF Minmax!expected, Minmax!Yes, Minmax!A, Minmax!B, Minmax!test_minmax_bin, Minmax!Case
<1> DEFINE lsb == ShownIn("bitpack_lsb", fixed)
           msb == ShownIn("bitpack_msb", fixed)
<1>8. ASSUME NEW c \in Cases, Content(c)
      PROVE  E(c) \in {{}, fixed, lsb, msb}
  <2>1. PICK format \in Minmax!Formats : Minmax!mismatches(format, c) = 0
    BY <1>8 DEF Content
  <2>2. E(c) = ShownIn(format, fixed)
    BY <2>1, NoMismatch DEF Minmax!Written
  <2>3. CASE format \in {"bitpack_lsb", "bitpack_msb"}
    BY <2>2, <2>3
  <2>4. CASE format \notin {"bitpack_lsb", "bitpack_msb"}
    <3>1. \A i : Minmax!Shows(format, fixed, i) <=> i \in fixed /\ format \in kind.shows
      BY <2>4 DEF Minmax!Shows
    <3>2. ShownIn(format, fixed) \in {{}, fixed}
      BY <3>1 DEF ShownIn
    <3> QED BY <2>2, <3>2
  <2> QED BY <2>3, <2>4
<1> SUFFICES ASSUME \A c \in Cases : Content(c) PROVE FALSE
  OBVIOUS
<1>9. /\ E(c1) \in {{}, fixed, lsb, msb} /\ E(c2) \in {{}, fixed, lsb, msb}
      /\ E(c3) \in {{}, fixed, lsb, msb} /\ E(c5) \in {{}, fixed, lsb, msb}
  BY <1>1, <1>8
<1>10. /\ E(c1) # {} /\ E(c2) # {} /\ E(c3) # {} /\ E(c5) # {}
       /\ E(c1) # E(c2) /\ E(c1) # E(c3) /\ E(c1) # E(c5)
       /\ E(c2) # E(c3) /\ E(c2) # E(c5) /\ E(c3) # E(c5)
  <2> HIDE DEF E, c1, c2, c3, c5
  <2> QED BY <1>4, <1>5, <1>6, <1>7
<1> HIDE DEF E, c1, c2, c3, c5, lsb, msb
<1> QED BY <1>9, <1>10

-----------------------------------------------------------------------------
(* The cases are taken in order, and a verdict is that of its case.        *)
MinmaxInv ==
  /\ size \in Sizes /\ kind \in Kinds /\ fixed \subseteq Minmax!Elements
  /\ device \in {"right", "deaf", "failing"}
  /\ minmax_status \in {0, -1}
  /\ verdicts \in Seq(BOOLEAN) /\ Len(verdicts) <= 6
  /\ todo = SubSeq(Minmax!test_minmax_bin, Len(verdicts) + 1, 6)
  /\ \A n \in 1 .. Len(verdicts) :
       /\ device = "right" => verdicts[n]
       /\ verdicts[n] => Content(Minmax!test_minmax_bin[n])
       /\ ~verdicts[n] => minmax_status = -1

MinmaxIs == process = "minmax" => MinmaxInv

LEMMA MinmaxStarts ==
  ASSUME Minmax!Init
  PROVE  MinmaxInv
<1>1. fixed \subseteq Minmax!Elements /\ device \in {"right", "deaf", "failing"}
  BY DEF Minmax!Init
<1>2. verdicts = <<>> /\ Len(verdicts) = 0 /\ verdicts \in Seq(BOOLEAN)
  BY DEF Minmax!Init
<1>3. todo = SubSeq(Minmax!test_minmax_bin, 1, 6)
  BY DEF Minmax!Init, Minmax!test_minmax_bin
<1>4. size \in Sizes /\ kind \in Kinds /\ minmax_status \in {0, -1}
  BY DEF Minmax!Init
<1> QED BY <1>1, <1>2, <1>3, <1>4 DEF MinmaxInv

LEMMA ContentKept ==
  ASSUME UNCHANGED <<size, device, kind, fixed>>, NEW c
  PROVE  Content(c)' <=> Content(c)
<1>1. size' = size /\ device' = device /\ kind' = kind /\ fixed' = fixed
  OBVIOUS
<1>2. Minmax!Elements' = Minmax!Elements
  BY <1>1 DEF Minmax!Elements
<1>3. Minmax!expected(c)' = Minmax!expected(c)
  BY <1>2 DEF Minmax!expected, Minmax!Yes, Minmax!A, Minmax!B
<1>4. Minmax!Written(c)' = Minmax!Written(c)
  BY <1>1, <1>2 DEF Minmax!Written, Minmax!Yes, Minmax!A, Minmax!B,
       Minmax!half, Minmax!Rounded, Minmax!TwoTo
<1>5. \A format, i : Minmax!Shows(format, Minmax!Written(c), i)'
                       = Minmax!Shows(format, Minmax!Written(c), i)
  BY <1>1, <1>4 DEF Minmax!Shows
<1>6. \A format : Minmax!mismatches(format, c)' = Minmax!mismatches(format, c)
  BY <1>2, <1>3, <1>5 DEF Minmax!mismatches
<1>7. Minmax!Formats' = Minmax!Formats
  BY DEF Minmax!Formats, Minmax!SlotFormats
<1> QED BY <1>6, <1>7 DEF Content

LEMMA TodoIs ==
  ASSUME MinmaxInv, todo # <<>>
  PROVE  LET n == Len(verdicts) + 1
         IN  /\ n \in 1 .. 6
             /\ Head(todo) = Minmax!test_minmax_bin[n]
             /\ Tail(todo) = SubSeq(Minmax!test_minmax_bin, n + 1, 6)
<1> DEFINE n == Len(verdicts) + 1
           s == Minmax!test_minmax_bin
<1>1. Len(verdicts) \in Nat /\ Len(verdicts) <= 6 /\ todo = SubSeq(s, n, 6)
  BY DEF MinmaxInv
<1>2. s \in Seq(Cases) /\ Len(s) = 6
  BY CasesAre
<1> HIDE DEF s
<1>3. n \in 1 .. 6
  <2> SUFFICES ASSUME Len(verdicts) = 6 PROVE FALSE
    BY <1>1
  <2>1. SubSeq(s, 7, 6) = <<>>
    BY <1>2
  <2> QED BY <1>1, <2>1
<1>4. Head(SubSeq(s, n, 6)) = s[n]
  BY <1>2, <1>3
<1>5. Tail(SubSeq(s, n, 6)) = SubSeq(s, n + 1, 6)
  BY <1>2, <1>3
<1> QED BY <1>1, <1>3, <1>4, <1>5 DEF s

LEMMA ClosedKeeps ==
  ASSUME MinmaxInv, NEW ok \in BOOLEAN, todo # <<>>, Minmax!Closed(ok),
         device = "right" => ok, ok => Content(Head(todo))
  PROVE  MinmaxInv'
<1> DEFINE n == Len(verdicts) + 1
<1>1. /\ n \in 1 .. 6 /\ Head(todo) = Minmax!test_minmax_bin[n]
      /\ Tail(todo) = SubSeq(Minmax!test_minmax_bin, n + 1, 6)
  BY TodoIs
<1>2. /\ verdicts' = Append(verdicts, ok) /\ todo' = Tail(todo)
      /\ UNCHANGED <<size, device, kind, fixed>>
      /\ minmax_status' = IF ok THEN minmax_status ELSE -1
  BY DEF Minmax!Closed, Minmax!StatusAfter
<1>3. verdicts \in Seq(BOOLEAN) /\ Len(verdicts) \in Nat
  BY DEF MinmaxInv
<1>4. verdicts' \in Seq(BOOLEAN) /\ Len(verdicts') = n /\ verdicts'[n] = ok
      /\ \A m \in 1 .. Len(verdicts) : verdicts'[m] = verdicts[m]
  BY <1>2, <1>3
<1>5. \A c : Content(c)' <=> Content(c)
  BY <1>2, ContentKept
<1>6. ASSUME NEW m \in 1 .. n
      PROVE  /\ device = "right" => verdicts'[m]
             /\ verdicts'[m] => Content(Minmax!test_minmax_bin[m])
             /\ ~verdicts'[m] => minmax_status' = -1
  <2>1. CASE m = n
    BY <1>1, <1>2, <1>4, <2>1
  <2>2. CASE m # n
    <3>1. m \in 1 .. Len(verdicts)
      BY <1>3, <2>2
    <3> QED BY <1>2, <1>4, <3>1 DEF MinmaxInv
  <2> QED BY <2>1, <2>2
<1>7. /\ minmax_status' \in {0, -1}
      /\ size' \in Sizes /\ kind' \in Kinds /\ device' \in {"right", "deaf", "failing"}
  BY <1>2 DEF MinmaxInv
<1>8. fixed' \subseteq Minmax!Elements'
  BY <1>2 DEF MinmaxInv, Minmax!Elements
<1>9. todo' = SubSeq(Minmax!test_minmax_bin, Len(verdicts') + 1, 6) /\ Len(verdicts') <= 6
  BY <1>1, <1>2, <1>4
<1>10. (Minmax!test_minmax_bin)' = Minmax!test_minmax_bin
  BY DEF Minmax!test_minmax_bin, Minmax!Case
<1>11. \A m \in 1 .. Len(verdicts') :
         /\ device' = "right" => verdicts'[m]
         /\ verdicts'[m] => Content(Minmax!test_minmax_bin[m])'
         /\ ~verdicts'[m] => minmax_status' = -1
  BY <1>2, <1>4, <1>5, <1>6
<1> QED BY <1>4, <1>7, <1>8, <1>9, <1>10, <1>11 DEF MinmaxInv

LEMMA MinmaxSteps ==
  ASSUME Minmax!MinmaxAssumption, MinmaxInv, Minmax!Next
  PROVE  MinmaxInv'
<1>1. CASE Minmax!run_minmax_bin_case
  <2>1. todo # <<>> /\ device # "failing" /\ Minmax!Closed(Content(Head(todo)))
    BY <1>1 DEF Minmax!run_minmax_bin_case, Content
  <2>2. Content(Head(todo)) \in BOOLEAN
    BY DEF Content
  <2>3. device = "right" => Content(Head(todo))
    <3>1. Head(todo) \in Cases
      BY <2>1, TodoIs DEF Cases
    <3> QED BY <3>1, RightIsContent DEF MinmaxInv
  <2> QED BY <2>1, <2>2, <2>3, ClosedKeeps
<1>2. CASE Minmax!CaseFails
  BY <1>2, ClosedKeeps DEF Minmax!CaseFails
<1> QED BY <1>1, <1>2 DEF Minmax!Next

LEMMA MinmaxStays ==
  ASSUME MinmaxInv, UNCHANGED minmaxVars
  PROVE  MinmaxInv'
<1>1. /\ UNCHANGED <<size, device, kind, fixed>> /\ UNCHANGED <<todo, verdicts>>
      /\ UNCHANGED minmax_status
  BY DEF minmaxVars
<1>2. \A c : Content(c)' <=> Content(c)
  BY <1>1, ContentKept
<1>3. Minmax!Elements' = Minmax!Elements
  BY <1>1 DEF Minmax!Elements
<1> QED BY <1>1, <1>2, <1>3 DEF MinmaxInv, Minmax!test_minmax_bin, Minmax!Case

LEMMA MinmaxIsSound ==
  ASSUME Minmax!MinmaxAssumption, MinmaxInv
  PROVE  /\ Minmax!TypeOK /\ Minmax!RightIsAccepted
         /\ Minmax!DeafIsCaught /\ Minmax!FailureIsKept
<1>1. verdicts \in Seq(BOOLEAN)
  BY DEF MinmaxInv
<1>2. Len(verdicts) \in 0 .. 6 /\ DOMAIN verdicts = 1 .. Len(verdicts)
  <2>1. Len(verdicts) \in Nat /\ DOMAIN verdicts = 1 .. Len(verdicts)
    BY <1>1
  <2>2. Len(verdicts) <= 6
    BY DEF MinmaxInv
  <2> QED BY <2>1, <2>2
<1>3. Len(todo) + Len(verdicts) = 6
  <2>1. Len(SubSeq(Minmax!test_minmax_bin, Len(verdicts) + 1, 6)) = 6 - Len(verdicts)
    BY <1>2, CasesAre
  <2>2. todo = SubSeq(Minmax!test_minmax_bin, Len(verdicts) + 1, 6)
    BY DEF MinmaxInv
  <2> QED BY <1>2, <2>1, <2>2
<1>4. Minmax!Done => Len(verdicts) = 6
  <2> SUFFICES ASSUME todo = <<>> PROVE Len(verdicts) = 6
    BY DEF Minmax!Done
  <2>1. Len(todo) = 0
    OBVIOUS
  <2>2. 0 + Len(verdicts) = 6
    BY <1>3, <2>1
  <2>3. \A l \in 0 .. 6 : 0 + l = 6 => l = 6
    OBVIOUS
  <2>4. Len(verdicts) \in 0 .. 6
    BY <1>2
  <2> QED BY <2>2, <2>3, <2>4
<1>5. Minmax!TypeOK
  <2>1. \A n \in DOMAIN verdicts : verdicts[n] \in BOOLEAN
    BY <1>1
  <2>2. Len(todo) + Len(verdicts) = Len(Minmax!test_minmax_bin)
    BY <1>3, CasesAre
  <2> QED BY <2>1, <2>2 DEF MinmaxInv, Minmax!TypeOK
<1>6. Minmax!RightIsAccepted /\ Minmax!FailureIsKept
  BY <1>2 DEF MinmaxInv, Minmax!RightIsAccepted, Minmax!FailureIsKept
<1>7. Minmax!DeafIsCaught
  <2> SUFFICES ASSUME Minmax!Done, device = "deaf", \A n \in DOMAIN verdicts : verdicts[n]
               PROVE  FALSE
    BY DEF Minmax!DeafIsCaught
  <2>1. \A c \in Cases : Content(c)
    BY <1>2, <1>4 DEF MinmaxInv, Cases
  <2> QED BY <2>1, DeafIsNotContent DEF MinmaxInv
<1> QED BY <1>5, <1>6, <1>7

(***************************************************************************)
(* The six cases of test_minmax_bin together, for every number of elements *)
(* and every word a device may write: a right device is accepted, one deaf *)
(* to its operands fails some case, and no later case hides a failed one.  *)
(***************************************************************************)
THEOREM MinmaxTestIsSound == ElementwiseSpec => []MinmaxSound
<1>1. ElementwiseInit => MinmaxIs
  BY MinmaxStarts DEF ElementwiseInit, MinmaxIs
<1>2. MinmaxIs /\ [ElementwiseNext]_<<process, vars, caseVars, lutVars, minmaxVars>>
        => MinmaxIs'
  <2> SUFFICES ASSUME MinmaxIs, [ElementwiseNext]_<<process, vars, caseVars, lutVars, minmaxVars>>,
                      process' = "minmax"
               PROVE  MinmaxInv'
    BY DEF MinmaxIs
  <2>1. process = "minmax" /\ MinmaxInv
    BY DEF MinmaxIs, ElementwiseNext
  <2>2. UNCHANGED minmaxVars \/ Minmax!Next
    BY <2>1 DEF ElementwiseNext, MinmaxDone
  <2> QED BY <2>1, <2>2, MinmaxSteps, MinmaxStays, ElementwiseAssumption
<1>3. MinmaxIs => MinmaxSound
  BY MinmaxIsSound, ElementwiseAssumption DEF MinmaxIs, MinmaxSound
<1> QED BY <1>1, <1>2, <1>3, PTL DEF ElementwiseSpec

-----------------------------------------------------------------------------
(* AluCase: what the stages and host steps of a case add up to.            *)

LEMMA OneBeforeTwo ==
  ASSUME NEW a, NEW b, NEW c
  PROVE  <<a>> \o <<b, c>> = <<a, b, c>>
<1> DEFINE S == {a, b, c}
           s == <<a>>
           t == <<b, c>>
           u == <<a, b, c>>
<1>1. s \in Seq(S) /\ Len(s) = 1 /\ s[1] = a
  OBVIOUS
<1>2. t \in Seq(S) /\ Len(t) = 2 /\ t[1] = b /\ t[2] = c
  OBVIOUS
<1>3. u \in Seq(S) /\ Len(u) = 3 /\ u[1] = a /\ u[2] = b /\ u[3] = c
  OBVIOUS
<1> HIDE DEF S, s, t, u
<1>4. s \o t \in Seq(S) /\ Len(s \o t) = 3
      /\ \A i \in 1 .. 3 : (s \o t)[i] = IF i <= 1 THEN s[i] ELSE t[i - 1]
  BY <1>1, <1>2, ConcatProperties
<1>5. \A i \in 1 .. 3 : (s \o t)[i] = u[i]
  BY <1>1, <1>2, <1>3, <1>4
<1>6. s \o t = u
  BY <1>3, <1>4, <1>5, SeqEqual
<1> QED BY <1>6 DEF s, t, u

LEMMA StagesAre ==
  LET S(o) == Case!Stages(o)
      T(alg, w, f, out) == Case!Stage(alg, w, f, out)
  IN  /\ S("div") = <<T(3, "a", "b", "out")>>
      /\ S("idiv") = <<T(3, "a", "b", "div"), T(4, "offset", "div", "stage1"),
                       T(23, "zeros", "stage1", "out")>>
      /\ S("maxpool") = <<T(24, "zeros", "a", "out")>>
      /\ S("minpool") = <<T(24, "zeros", "a", "out")>>
      /\ S("globalmaxpool") = <<T(25, "zeros", "a", "out")>>
      /\ S("globalminpool") = <<T(24, "zeros", "a", "out")>>
      /\ S("avgpool") = <<T(26, "zeros", "a", "out")>>
      /\ S("globalavgpool") = <<T(27, "zeros", "a", "out")>>
      /\ S("cmplt") = <<T(4, "a", "b", "stage1"), T(16, "zeros", "stage1", "out")>>
      /\ S("cmpgt") = <<T(4, "b", "a", "stage1"), T(16, "zeros", "stage1", "out")>>
      /\ S("cmpge") = <<T(4, "b", "a", "stage1"), T(20, "zeros", "stage1", "out")>>
      /\ S("cmple") = <<T(4, "a", "b", "stage1"), T(20, "zeros", "stage1", "out")>>
      /\ S("cmpeq") = <<T(4, "a", "b", "stage1"), T(17, "zeros", "stage1", "stage2"),
                        T(18, "zeros", "stage2", "out")>>
      /\ S("cmpneq") = <<T(19, "zeros", "cmpeq_last", "out")>>
      /\ S("add") = <<T(2, "a", "b", "out")>>
      /\ S("mul") = <<T(9, "a", "b", "out")>>
      /\ S("where") = <<T(19, "zeros", "mask", "stage1"), T(9, "stage1", "b", "stage2"),
                        T(9, "mask", "a", "stage3"), T(2, "stage3", "stage2", "out")>>
      /\ S("rounddown") = <<T(4, "offset", "a", "stage1"), T(23, "zeros", "stage1", "out")>>
      /\ S("roundoff") = <<T(23, "zeros", "a", "out")>>
      /\ S("max") = <<T(0, "a", "b", "out")>>
      /\ S("minus") = <<T(4, "a", "b", "out")>>
      /\ S("neg") = <<T(19, "zeros", "b", "out")>>
      /\ S("abs") = <<T(22, "zeros", "a", "out")>>
      /\ S("relu") = <<T(10, "b", "a", "out")>>
<1>1. Case!run_idiv_case = <<Case!Stage(3, "a", "b", "div"),
                             Case!Stage(4, "offset", "div", "stage1"),
                       Case!Stage(23, "zeros", "stage1", "out")>>
  BY OneBeforeTwo DEF Case!run_idiv_case, Case!RoundDown
<1> QED
  BY <1>1 DEF Case!Stages, Case!RoundDown, Case!run_div_case, Case!run_pool_case,
    Case!run_globalmaxpool_case, Case!run_globalminpool_case, Case!run_avgpool_case,
    Case!run_globalavgpool_case, Case!run_cmplt_case, Case!run_cmpgt_case, Case!run_cmpge_case,
    Case!run_cmple_case, Case!run_cmpeq_case, Case!run_cmpneq_case, Case!run_add_case,
    Case!run_mul_case, Case!run_where_case, Case!run_rounddown_case, Case!run_roundoff_case,
    Case!run_max_case, Case!run_minus_case, Case!run_neg_case, Case!run_abs_case,
    Case!run_relu_case

LEMMA AluIs ==
  ASSUME NEW w, NEW f
  PROVE  LET A(alg) == Case!Alu(alg, w, f)
         IN  /\ A(0) = [i \in DOMAIN f |-> Case!Larger(w[i], f[i])]
             /\ A(2) = [i \in DOMAIN f |-> w[i] + f[i]]
             /\ A(3) = [i \in DOMAIN f |-> Case!Quotient(w[i], f[i])]
             /\ A(4) = [i \in DOMAIN f |-> f[i] - w[i]]
             /\ A(9) = [i \in DOMAIN f |-> (w[i] * f[i]) \div 24]
             /\ A(10) = [i \in DOMAIN f |-> Case!Larger(f[i], 0)]
             /\ A(16) = [i \in DOMAIN f |-> Case!Bool(f[i] >= 0)]
             /\ A(20) = [i \in DOMAIN f |-> Case!Bool(f[i] >= 0)]
             /\ A(17) = [i \in DOMAIN f |-> Case!Bool(f[i] # 0)]
             /\ A(18) = [i \in DOMAIN f |-> Case!Larger(Case!Smaller(24 - f[i], 24), 0)]
             /\ A(19) = [i \in DOMAIN f |-> Case!Larger(Case!Smaller(24 - f[i], 24), 0)]
             /\ A(22) = [i \in DOMAIN f |-> Case!Abs(f[i])]
             /\ A(23) = [i \in DOMAIN f |-> Case!roundoff_ref(f[i])]
             /\ A(24) = [i \in 1 .. 9 |-> Case!Max(Case!At(f, Case!Window(i)))]
             /\ A(25) = [i \in 1 .. 1 |-> Case!Max(Case!At(f, Case!Image))]
             /\ A(26) = [i \in 1 .. 9 |-> Case!Sum(f, Case!Window(i)) \div 4]
             /\ A(27) = [i \in 1 .. 1 |-> Case!Sum(f, Case!Image) \div 4]
BY DEF Case!Alu, Case!Element, Case!One

LEMMA ReferenceIs ==
  ASSUME NEW sh, NEW e
  PROVE  LET R(o) == Case!Reference(o, sh, e)
             C == Case!Cells(sh)
         IN  /\ R("maxpool") = [i \in 1..9 |-> Case!Max(Case!At(e["a"], Case!Window(i)))]
             /\ R("minpool") = [i \in 1..9 |-> Case!Min(Case!At(e["a"], Case!Window(i)))]
             /\ R("globalmaxpool") = [i \in 1..1 |-> Case!Max(Case!At(e["a"], Case!Image))]
             /\ R("globalminpool") = [i \in 1..1 |-> Case!Min(Case!At(e["a"], Case!Image))]
             /\ R("avgpool") = [i \in 1..9 |-> Case!Sum(e["a"], Case!Window(i)) \div 4]
             /\ R("globalavgpool") = [i \in 1..1 |-> Case!Sum(e["a"], Case!Image) \div 16]
             /\ R("div") = [i \in C |-> Case!Quotient(e["a"][i], e["b"][i])]
             /\ R("idiv") =
                  [i \in C |-> Case!roundoff_ref(Case!Quotient(e["a"][i], e["b"][i]) - 12)]
             /\ R("rounddown") = [i \in C |-> Case!roundoff_ref(e["a"][i] - 12)]
             /\ R("roundoff") = [i \in C |-> Case!roundoff_ref(e["a"][i])]
             /\ R("cmplt") = [i \in C |-> Case!Bool(e["a"][i] < e["b"][i])]
             /\ R("cmpgt") = [i \in C |-> Case!Bool(e["a"][i] > e["b"][i])]
             /\ R("cmpge") = [i \in C |-> Case!Bool(e["a"][i] >= e["b"][i])]
             /\ R("cmple") = [i \in C |-> Case!Bool(e["a"][i] <= e["b"][i])]
             /\ R("cmpeq") = [i \in C |-> Case!Bool(e["a"][i] = e["b"][i])]
             /\ R("cmpneq") = [i \in C |-> Case!Bool(e["a"][i] # e["b"][i])]
             /\ R("add") = [i \in C |-> e["a"][i] + e["b"][i]]
             /\ R("mul") = [i \in C |-> (e["a"][i] * e["b"][i]) \div 24]
             /\ R("max") = [i \in C |-> Case!Larger(e["a"][i], e["b"][i])]
             /\ R("minus") = [i \in C |-> e["a"][i] - e["b"][i]]
             /\ R("neg") = [i \in C |-> 24 - e["b"][i]]
             /\ R("abs") = [i \in C |-> Case!Abs(e["a"][i])]
             /\ R("relu") = [i \in C |-> Case!Larger(e["a"][i], 0)]
             /\ R("where") = [i \in C |-> IF e["mask"][i] = 24 THEN e["a"][i] ELSE e["b"][i]]
BY DEF Case!Reference, Case!Each, Case!Half, Case!One

-----------------------------------------------------------------------------
(* What an op gets as its input, and that a stage was computed right.      *)
InputOf(o, b, s) == IF s.f = "cmpeq_last" THEN cmpeq_last ELSE Case!Fed(o, b[s.f])

Computed(o, b, n) ==
  LET s == Case!Stages(o)[n]
  IN  b[s.out] = Case!Reworked(o, s.alg, Case!Alu(s.alg, b[s.w], InputOf(o, b, s)))

(* Of a case other than the pools and minimum, a stage is just its op.     *)
Plain(o) == o \notin Case!Pools /\ o \notin {"cmplt", "cmpgt"}

LEMMA PlainStage ==
  ASSUME NEW o, Plain(o), NEW b, NEW n, Computed(o, b, n), NEW alg, NEW w, NEW f, NEW out,
         Case!Stages(o)[n] = Case!Stage(alg, w, f, out)
  PROVE  b[out] = Case!Alu(alg, b[w], IF f = "cmpeq_last" THEN cmpeq_last ELSE b[f])
BY DEF Computed, InputOf, Plain, Case!Fed, Case!Reworked, Case!Stage, Case!Pools

LEMMA SameIsClose ==
  ASSUME NEW o, NEW S, NEW expected \in [S -> Int]
  PROVE  Case!Close(o, expected, expected)
<1>1. \A i \in S : expected[i] - expected[i] = 0
  OBVIOUS
<1>2. \A x, y \in Int : x + y = 0 /\ x = 0 => Case!Larger(x, y) = 0
  BY DEF Case!Larger
<1>3. Case!Abs(0) = 0
  <2>1. \A x \in Int : -x \in Int /\ x + (-x) = 0
    OBVIOUS
  <2>2. 0 \in Int /\ -0 \in Int /\ 0 + (-0) = 0
    BY ONLY <2>1
  <2> HIDE DEF Case!Larger
  <2> QED BY <1>2, <2>2 DEF Case!Abs
<1> QED BY <1>1, <1>3 DEF Case!Close, Case!One

LEMMA Numbers ==
  /\ \A x, y \in Int : Case!Larger(x, y) \in Int /\ Case!Smaller(x, y) \in Int
  /\ \A x \in Int : Case!Abs(x) \in Int /\ (x # 0 => Case!Abs(x) > 0)
  /\ \A x \in Int : Case!roundoff_ref(x) \in Int
  /\ \A p \in BOOLEAN : Case!Bool(p) \in Int
<1>1. \A x \in Int : Case!roundoff_ref(x) \in Int
  <2> TAKE x \in Int
  <2> DEFINE base == x \div 24
             up == x % 24 > Case!Half \/ (x % 24 = Case!Half /\ base % 2 = 1)
  <2>1. Case!roundoff_ref(x) = 24 * (IF up THEN base + 1 ELSE base)
    BY DEF Case!roundoff_ref, Case!One
  <2>2. base \in Int
    OBVIOUS
  <2> HIDE DEF base, up
  <2>3. 24 * (base + 1) \in Int /\ 24 * base \in Int
    BY <2>2
  <2> QED BY <2>1, <2>3
<1> QED BY <1>1 DEF Case!Larger, Case!Smaller, Case!Abs, Case!Bool, Case!One

LEMMA QuotientTyped ==
  ASSUME NEW x \in Int, NEW y \in Int \ {0}
  PROVE  Case!Quotient(x, y) \in Int
<1> DEFINE u == x * 24 * (IF y < 0 THEN -1 ELSE 1)
<1>1. u \in Int
  OBVIOUS
<1>2. Case!Abs(y) \in Nat \ {0}
  BY Numbers
<1>3. Case!Quotient(x, y) = u \div Case!Abs(y)
  BY DEF Case!Quotient, Case!One
<1>4. \A m \in Int : \A n \in Nat \ {0} : m \div n \in Int
  OBVIOUS
<1> HIDE DEF u
<1> QED BY <1>1, <1>2, <1>3, <1>4

-----------------------------------------------------------------------------
Array(sh) == [Case!Cells(sh) -> Int]

(* The cases of one op.                                                    *)
LEMMA OneOpRight ==
  ASSUME NEW sh, NEW b, b["a"] \in Array(sh), b["b"] \in Array(sh),
         NEW o \in {"add", "mul", "max", "minus", "abs", "relu", "roundoff"}, Computed(o, b, 1)
  PROVE  /\ b["out"] \in Array(sh)
         /\ o # "minus" => b["out"] = Case!Reference(o, sh, b)
         /\ o = "minus" => b["out"] = [i \in Case!Cells(sh) |-> b["b"][i] - b["a"][i]]
<1> DEFINE C == Case!Cells(sh)
<1>0. Plain(o)
  BY DEF Plain, Case!Pools
<1>1. CASE o = "add"
  <2>1. b["out"] = [i \in C |-> b["a"][i] + b["b"][i]]
    BY <1>0, <1>1, StagesAre, PlainStage, AluIs DEF Array
  <2> QED BY <1>1, <2>1, ReferenceIs DEF Array
<1>2. CASE o = "mul"
  <2>1. b["out"] = [i \in C |-> (b["a"][i] * b["b"][i]) \div 24]
    BY <1>0, <1>2, StagesAre, PlainStage, AluIs DEF Array
  <2>2. \A x, y \in Int : (x * y) \div 24 \in Int
    OBVIOUS
  <2> QED BY <1>2, <2>1, <2>2, ReferenceIs DEF Array
<1>3. CASE o = "max"
  <2>1. b["out"] = [i \in C |-> Case!Larger(b["a"][i], b["b"][i])]
    BY <1>0, <1>3, StagesAre, PlainStage, AluIs DEF Array
  <2>2. Case!Reference(o, sh, b) = [i \in C |-> Case!Larger(b["a"][i], b["b"][i])]
    BY <1>3, ReferenceIs
  <2>3. \A i \in C : b["a"][i] \in Int /\ b["b"][i] \in Int
    BY DEF Array
  <2>4. \A i \in C : Case!Larger(b["a"][i], b["b"][i]) \in Int
    BY <2>3, Numbers
  <2> QED BY <1>3, <2>1, <2>2, <2>4 DEF Array
<1>4. CASE o = "minus"
  <2>1. b["out"] = [i \in C |-> b["b"][i] - b["a"][i]]
    BY <1>0, <1>4, StagesAre, PlainStage, AluIs DEF Array
  <2> QED BY <1>4, <2>1, ReferenceIs DEF Array
<1>5. CASE o = "abs"
  <2>1. b["out"] = [i \in C |-> Case!Abs(b["a"][i])]
    BY <1>0, <1>5, StagesAre, PlainStage, AluIs DEF Array
  <2>2. Case!Reference(o, sh, b) = [i \in C |-> Case!Abs(b["a"][i])]
    BY <1>5, ReferenceIs
  <2>3. \A i \in C : b["a"][i] \in Int /\ b["b"][i] \in Int
    BY DEF Array
  <2>4. \A i \in C : Case!Abs(b["a"][i]) \in Int
    BY <2>3, Numbers
  <2> QED BY <1>5, <2>1, <2>2, <2>4 DEF Array
<1>6. CASE o = "relu"
  <2>1. b["out"] = [i \in C |-> Case!Larger(b["a"][i], 0)]
    BY <1>0, <1>6, StagesAre, PlainStage, AluIs DEF Array
  <2>2. Case!Reference(o, sh, b) = [i \in C |-> Case!Larger(b["a"][i], 0)]
    BY <1>6, ReferenceIs
  <2>3. \A i \in C : b["a"][i] \in Int /\ b["b"][i] \in Int
    BY DEF Array
  <2>4. \A i \in C : Case!Larger(b["a"][i], 0) \in Int
    <3>1. 0 \in Int
      OBVIOUS
    <3> QED BY <2>3, <3>1, Numbers
  <2> QED BY <1>6, <2>1, <2>2, <2>4 DEF Array
<1>7. CASE o = "roundoff"
  <2>1. b["out"] = [i \in C |-> Case!roundoff_ref(b["a"][i])]
    BY <1>0, <1>7, StagesAre, PlainStage, AluIs DEF Array
  <2>2. Case!Reference(o, sh, b) = [i \in C |-> Case!roundoff_ref(b["a"][i])]
    BY <1>7, ReferenceIs
  <2>3. \A i \in C : b["a"][i] \in Int /\ b["b"][i] \in Int
    BY DEF Array
  <2>4. \A i \in C : Case!roundoff_ref(b["a"][i]) \in Int
    BY <2>3, Numbers
  <2> QED BY <1>7, <2>1, <2>2, <2>4 DEF Array
<1> QED BY <1>1, <1>2, <1>3, <1>4, <1>5, <1>6, <1>7

(* The stages of the cases of several ops.                                 *)
LEMMA ChainIs ==
  ASSUME NEW b
  PROVE  /\ (Computed("idiv", b, 1) => b["div"] = Case!Alu(3, b["a"], b["b"]))
         /\ (Computed("idiv", b, 2) => b["stage1"] = Case!Alu(4, b["offset"], b["div"]))
         /\ (Computed("idiv", b, 3) => b["out"] = Case!Alu(23, b["zeros"], b["stage1"]))
         /\ (Computed("rounddown", b, 1) => b["stage1"] = Case!Alu(4, b["offset"], b["a"]))
         /\ (Computed("rounddown", b, 2) => b["out"] = Case!Alu(23, b["zeros"], b["stage1"]))
         /\ (Computed("cmpge", b, 1) => b["stage1"] = Case!Alu(4, b["b"], b["a"]))
         /\ (Computed("cmpge", b, 2) => b["out"] = Case!Alu(20, b["zeros"], b["stage1"]))
         /\ (Computed("cmple", b, 1) => b["stage1"] = Case!Alu(4, b["a"], b["b"]))
         /\ (Computed("cmple", b, 2) => b["out"] = Case!Alu(20, b["zeros"], b["stage1"]))
         /\ (Computed("cmpeq", b, 1) => b["stage1"] = Case!Alu(4, b["a"], b["b"]))
         /\ (Computed("cmpeq", b, 2) => b["stage2"] = Case!Alu(17, b["zeros"], b["stage1"]))
         /\ (Computed("cmpeq", b, 3) => b["out"] = Case!Alu(18, b["zeros"], b["stage2"]))
         /\ (Computed("where", b, 1) => b["stage1"] = Case!Alu(19, b["zeros"], b["mask"]))
         /\ (Computed("where", b, 2) => b["stage2"] = Case!Alu(9, b["stage1"], b["b"]))
         /\ (Computed("where", b, 3) => b["stage3"] = Case!Alu(9, b["mask"], b["a"]))
         /\ (Computed("where", b, 4) => b["out"] = Case!Alu(2, b["stage3"], b["stage2"]))
<1>1. /\ (Computed("idiv", b, 1) => b["div"] = Case!Alu(3, b["a"], b["b"]))
      /\ (Computed("idiv", b, 2) => b["stage1"] = Case!Alu(4, b["offset"], b["div"]))
      /\ (Computed("idiv", b, 3) => b["out"] = Case!Alu(23, b["zeros"], b["stage1"]))
  <2>0. Plain("idiv")
    BY DEF Plain, Case!Pools
  <2>1. Case!Stages("idiv")[1] = Case!Stage(3, "a", "b", "div")
    BY StagesAre
  <2>2. Case!Stages("idiv")[2] = Case!Stage(4, "offset", "div", "stage1")
    BY StagesAre
  <2>3. Case!Stages("idiv")[3] = Case!Stage(23, "zeros", "stage1", "out")
    BY StagesAre
  <2> QED BY <2>0, <2>1, <2>2, <2>3, PlainStage
<1>2. /\ (Computed("rounddown", b, 1) => b["stage1"] = Case!Alu(4, b["offset"], b["a"]))
      /\ (Computed("rounddown", b, 2) => b["out"] = Case!Alu(23, b["zeros"], b["stage1"]))
  <2>0. Plain("rounddown")
    BY DEF Plain, Case!Pools
  <2>1. Case!Stages("rounddown")[1] = Case!Stage(4, "offset", "a", "stage1")
    BY StagesAre
  <2>2. Case!Stages("rounddown")[2] = Case!Stage(23, "zeros", "stage1", "out")
    BY StagesAre
  <2> QED BY <2>0, <2>1, <2>2, PlainStage
<1>3. /\ (Computed("cmpge", b, 1) => b["stage1"] = Case!Alu(4, b["b"], b["a"]))
      /\ (Computed("cmpge", b, 2) => b["out"] = Case!Alu(20, b["zeros"], b["stage1"]))
  <2>0. Plain("cmpge")
    BY DEF Plain, Case!Pools
  <2>1. Case!Stages("cmpge")[1] = Case!Stage(4, "b", "a", "stage1")
    BY StagesAre
  <2>2. Case!Stages("cmpge")[2] = Case!Stage(20, "zeros", "stage1", "out")
    BY StagesAre
  <2> QED BY <2>0, <2>1, <2>2, PlainStage
<1>4. /\ (Computed("cmple", b, 1) => b["stage1"] = Case!Alu(4, b["a"], b["b"]))
      /\ (Computed("cmple", b, 2) => b["out"] = Case!Alu(20, b["zeros"], b["stage1"]))
  <2>0. Plain("cmple")
    BY DEF Plain, Case!Pools
  <2>1. Case!Stages("cmple")[1] = Case!Stage(4, "a", "b", "stage1")
    BY StagesAre
  <2>2. Case!Stages("cmple")[2] = Case!Stage(20, "zeros", "stage1", "out")
    BY StagesAre
  <2> QED BY <2>0, <2>1, <2>2, PlainStage
<1>5. /\ (Computed("cmpeq", b, 1) => b["stage1"] = Case!Alu(4, b["a"], b["b"]))
      /\ (Computed("cmpeq", b, 2) => b["stage2"] = Case!Alu(17, b["zeros"], b["stage1"]))
      /\ (Computed("cmpeq", b, 3) => b["out"] = Case!Alu(18, b["zeros"], b["stage2"]))
  <2>0. Plain("cmpeq")
    BY DEF Plain, Case!Pools
  <2>1. Case!Stages("cmpeq")[1] = Case!Stage(4, "a", "b", "stage1")
    BY StagesAre
  <2>2. Case!Stages("cmpeq")[2] = Case!Stage(17, "zeros", "stage1", "stage2")
    BY StagesAre
  <2>3. Case!Stages("cmpeq")[3] = Case!Stage(18, "zeros", "stage2", "out")
    BY StagesAre
  <2> QED BY <2>0, <2>1, <2>2, <2>3, PlainStage
<1>6. /\ (Computed("where", b, 1) => b["stage1"] = Case!Alu(19, b["zeros"], b["mask"]))
      /\ (Computed("where", b, 2) => b["stage2"] = Case!Alu(9, b["stage1"], b["b"]))
      /\ (Computed("where", b, 3) => b["stage3"] = Case!Alu(9, b["mask"], b["a"]))
      /\ (Computed("where", b, 4) => b["out"] = Case!Alu(2, b["stage3"], b["stage2"]))
  <2>0. Plain("where")
    BY DEF Plain, Case!Pools
  <2>1. Case!Stages("where")[1] = Case!Stage(19, "zeros", "mask", "stage1")
    BY StagesAre
  <2>2. Case!Stages("where")[2] = Case!Stage(9, "stage1", "b", "stage2")
    BY StagesAre
  <2>3. Case!Stages("where")[3] = Case!Stage(9, "mask", "a", "stage3")
    BY StagesAre
  <2>4. Case!Stages("where")[4] = Case!Stage(2, "stage3", "stage2", "out")
    BY StagesAre
  <2> QED BY <2>0, <2>1, <2>2, <2>3, <2>4, PlainStage
<1> QED BY <1>1, <1>2, <1>3, <1>4, <1>5, <1>6

LEMMA DivRight ==
  ASSUME NEW sh, NEW b, b["a"] \in Array(sh), b["b"] \in [Case!Cells(sh) -> Int \ {0}],
         Computed("div", b, 1)
  PROVE  b["out"] \in Array(sh) /\ b["out"] = Case!Reference("div", sh, b)
<1> DEFINE C == Case!Cells(sh)
<1>1. Plain("div")
  BY DEF Plain, Case!Pools
<1>2. b["out"] = [i \in C |-> Case!Quotient(b["a"][i], b["b"][i])]
  BY <1>1, StagesAre, PlainStage, AluIs DEF Array
<1>3. Case!Reference("div", sh, b) = [i \in C |-> Case!Quotient(b["a"][i], b["b"][i])]
  BY ReferenceIs
<1>4. \A i \in C : Case!Quotient(b["a"][i], b["b"][i]) \in Int
  BY QuotientTyped DEF Array
<1> QED BY <1>2, <1>3, <1>4 DEF Array

LEMMA IdivRight ==
  ASSUME NEW sh, NEW b, b["a"] \in Array(sh), b["b"] \in [Case!Cells(sh) -> Int \ {0}],
         b["offset"] = [i \in Case!Cells(sh) |-> 12],
         Computed("idiv", b, 1), Computed("idiv", b, 2), Computed("idiv", b, 3)
  PROVE  b["out"] \in Array(sh) /\ b["out"] = Case!Reference("idiv", sh, b)
<1> DEFINE C == Case!Cells(sh)
           Q(i) == Case!Quotient(b["a"][i], b["b"][i])
<1>1. Plain("idiv")
  BY DEF Plain, Case!Pools
<1>2. b["div"] = [i \in C |-> Q(i)]
  BY <1>1, ChainIs, AluIs DEF Array
<1>3. b["stage1"] = [i \in C |-> Q(i) - 12]
  <2>1. b["stage1"] = [i \in C |-> b["div"][i] - b["offset"][i]]
    <3> HIDE DEF Q
    <3> QED BY <1>1, <1>2, ChainIs, AluIs
  <2> HIDE DEF Q
  <2> QED BY <1>2, <2>1
<1>4. b["out"] = [i \in C |-> Case!roundoff_ref(Q(i) - 12)]
  <2>1. b["out"] = [i \in C |-> Case!roundoff_ref(b["stage1"][i])]
    <3> HIDE DEF Q
    <3> QED BY <1>1, <1>3, ChainIs, AluIs
  <2> HIDE DEF Q
  <2> QED BY <1>3, <2>1
<1>5. Case!Reference("idiv", sh, b) = [i \in C |-> Case!roundoff_ref(Q(i) - 12)]
  BY ReferenceIs
<1>6. \A i \in C : Q(i) \in Int
  BY QuotientTyped DEF Array
<1>7. \A i \in C : Case!roundoff_ref(Q(i) - 12) \in Int
  <2> HIDE DEF Q
  <2>1. \A i \in C : Q(i) - 12 \in Int
    BY <1>6
  <2> QED BY <2>1, Numbers
<1> HIDE DEF Q
<1> QED BY <1>4, <1>5, <1>7 DEF Array

LEMMA RounddownRight ==
  ASSUME NEW sh, NEW b, b["a"] \in Array(sh), b["offset"] = [i \in Case!Cells(sh) |-> 12],
         Computed("rounddown", b, 1), Computed("rounddown", b, 2)
  PROVE  b["out"] \in Array(sh) /\ b["out"] = Case!Reference("rounddown", sh, b)
<1> DEFINE C == Case!Cells(sh)
<1>1. Plain("rounddown")
  BY DEF Plain, Case!Pools
<1>2. b["stage1"] = [i \in C |-> b["a"][i] - b["offset"][i]]
  BY <1>1, ChainIs, AluIs DEF Array
<1>3. b["stage1"] = [i \in C |-> b["a"][i] - 12]
  BY <1>2
<1>4. b["out"] = [i \in C |-> Case!roundoff_ref(b["stage1"][i])]
  BY <1>1, <1>3, ChainIs, AluIs
<1>5. Case!Reference("rounddown", sh, b) = [i \in C |-> Case!roundoff_ref(b["a"][i] - 12)]
  BY ReferenceIs
<1>6. \A i \in C : b["a"][i] - 12 \in Int
  BY DEF Array
<1>7. \A i \in C : Case!roundoff_ref(b["a"][i] - 12) \in Int
  BY <1>6, Numbers
<1> QED BY <1>3, <1>4, <1>5, <1>7 DEF Array

(* The comparisons of the ramps: the sign of a difference. cmplt and cmpgt *)
(* take a little off it first.                                             *)
LEMMA ShiftedStage ==
  ASSUME NEW o \in {"cmplt", "cmpgt"}, NEW b, Computed(o, b, 1)
  PROVE  b["stage1"] = Case!Reworked(o, 4, IF o = "cmplt" THEN Case!Alu(4, b["a"], b["b"])
                                                          ELSE Case!Alu(4, b["b"], b["a"]))
<1>1. CASE o = "cmplt"
  <2>1. Case!Stages(o)[1] = Case!Stage(4, "a", "b", "stage1")
    BY <1>1, StagesAre
  <2>2. Case!Fed(o, b["b"]) = b["b"]
    BY DEF Case!Fed
  <2> QED BY <1>1, <2>1, <2>2 DEF Computed, InputOf, Case!Stage
<1>2. CASE o = "cmpgt"
  <2>1. Case!Stages(o)[1] = Case!Stage(4, "b", "a", "stage1")
    BY <1>2, StagesAre
  <2>2. Case!Fed(o, b["a"]) = b["a"]
    BY DEF Case!Fed
  <2> QED BY <1>2, <2>1, <2>2 DEF Computed, InputOf, Case!Stage
<1> QED BY <1>1, <1>2

LEMMA SignStage ==
  ASSUME NEW o \in {"cmplt", "cmpgt"}, NEW b, Computed(o, b, 2)
  PROVE  b["out"] = Case!Alu(16, b["zeros"], b["stage1"])
<1>1. Case!Stages(o)[2] = Case!Stage(16, "zeros", "stage1", "out")
  <2>1. CASE o = "cmplt"
    BY <2>1, StagesAre
  <2>2. CASE o = "cmpgt"
    BY <2>2, StagesAre
  <2> QED BY <2>1, <2>2
<1>2. b["out"] = Case!Reworked(o, 16, Case!Alu(16, b["zeros"], Case!Fed(o, b["stage1"])))
  BY <1>1 DEF Computed, InputOf, Case!Stage
<1>3. Case!Fed(o, b["stage1"]) = b["stage1"]
  BY DEF Case!Fed
<1> QED BY <1>2, <1>3 DEF Case!Reworked

LEMMA StrictRight ==
  ASSUME NEW sh, NEW b, b["a"] \in Array(sh), b["b"] \in Array(sh),
         NEW o \in {"cmplt", "cmpgt"}, Computed(o, b, 1), Computed(o, b, 2)
  PROVE  Case!Answer(o, b["out"]) \in Array(sh)
         /\ Case!Answer(o, b["out"]) = Case!Reference(o, sh, b)
<1> DEFINE C == Case!Cells(sh)
           x == IF o = "cmplt" THEN b["a"] ELSE b["b"]
           y == IF o = "cmplt" THEN b["b"] ELSE b["a"]
<1>1. x \in Array(sh) /\ y \in Array(sh)
  OBVIOUS
<1>2. b["stage1"] = [i \in C |-> (y[i] - x[i]) - 1]
  <2> DEFINE d == Case!Alu(4, x, y)
  <2>1. d = [i \in C |-> y[i] - x[i]]
    <3> HIDE DEF x, y
    <3> QED BY <1>1, AluIs DEF Array
  <2>2. b["stage1"] = [i \in DOMAIN d |-> d[i] - 1]
    <3>1. b["stage1"] = Case!Reworked(o, 4, d)
      BY ShiftedStage
    <3> HIDE DEF d
    <3> QED BY <3>1 DEF Case!Reworked, Case!Eps
  <2> HIDE DEF d
  <2> QED BY <2>1, <2>2
<1>3. b["out"] = [i \in C |-> Case!Bool(b["stage1"][i] >= 0)]
  <2>1. b["out"] = Case!Alu(16, b["zeros"], b["stage1"])
    BY SignStage
  <2> HIDE DEF x, y
  <2> QED BY <1>2, <2>1, AluIs
<1>4. \A i \in C : b["out"][i] = Case!Bool(x[i] < y[i])
  <2> HIDE DEF x, y
  <2>1. \A i \in C : b["stage1"][i] >= 0 <=> x[i] < y[i]
    BY <1>1, <1>2 DEF Array
  <2> QED BY <1>3, <2>1 DEF Case!Bool
<1>5. Case!Answer(o, b["out"]) = [i \in C |-> Case!Bool(x[i] < y[i])]
  <2> HIDE DEF x, y
  <2>1. DOMAIN b["out"] = C
    BY <1>3
  <2>2. Case!Answer(o, b["out"]) = [i \in C |-> Case!Bool(b["out"][i] > 0)]
    BY <2>1 DEF Case!Answer, Case!RampCases
  <2>3. \A i \in C : b["out"][i] > 0 <=> x[i] < y[i]
    BY <1>4 DEF Case!Bool, Case!One
  <2> QED BY <2>2, <2>3 DEF Case!Bool
<1>6. Case!Reference(o, sh, b) = [i \in C |-> Case!Bool(x[i] < y[i])]
  <2>1. CASE o = "cmplt"
    BY <2>1, ReferenceIs
  <2>2. CASE o = "cmpgt"
    <3>1. Case!Reference(o, sh, b) = [i \in C |-> Case!Bool(b["a"][i] > b["b"][i])]
      BY <2>2, ReferenceIs
    <3>2. \A i \in C : b["a"][i] > b["b"][i] <=> b["b"][i] < b["a"][i]
      BY DEF Array
    <3> QED BY <2>2, <3>1, <3>2 DEF Case!Bool
  <2> QED BY <2>1, <2>2
<1>7. \A i \in C : Case!Bool(x[i] < y[i]) \in Int
  BY DEF Case!Bool, Case!One
<1> HIDE DEF x, y
<1> QED BY <1>5, <1>6, <1>7 DEF Array

LEMMA WideRight ==
  ASSUME NEW sh, NEW b, b["a"] \in Array(sh), b["b"] \in Array(sh),
         NEW o \in {"cmpge", "cmple"}, Computed(o, b, 1), Computed(o, b, 2)
  PROVE  Case!Answer(o, b["out"]) \in Array(sh)
         /\ Case!Answer(o, b["out"]) = Case!Reference(o, sh, b)
<1> DEFINE C == Case!Cells(sh)
           x == IF o = "cmple" THEN b["a"] ELSE b["b"]
           y == IF o = "cmple" THEN b["b"] ELSE b["a"]
<1>0. Plain(o)
  BY DEF Plain, Case!Pools
<1>1. x \in Array(sh) /\ y \in Array(sh)
  OBVIOUS
<1>2. b["stage1"] = [i \in C |-> y[i] - x[i]]
  <2>1. b["stage1"] = Case!Alu(4, x, y)
    BY ChainIs
  <2> HIDE DEF x, y
  <2> QED BY <1>1, <2>1, AluIs DEF Array
<1>3. b["out"] = [i \in C |-> Case!Bool(b["stage1"][i] >= 0)]
  <2>1. b["out"] = Case!Alu(20, b["zeros"], b["stage1"])
    BY ChainIs
  <2> HIDE DEF x, y
  <2> QED BY <1>2, <2>1, AluIs
<1>4. \A i \in C : b["out"][i] = Case!Bool(x[i] <= y[i])
  <2> HIDE DEF x, y
  <2>1. \A i \in C : b["stage1"][i] >= 0 <=> x[i] <= y[i]
    BY <1>1, <1>2 DEF Array
  <2> QED BY <1>3, <2>1 DEF Case!Bool
<1>5. Case!Answer(o, b["out"]) = [i \in C |-> Case!Bool(x[i] <= y[i])]
  <2> HIDE DEF x, y
  <2>1. DOMAIN b["out"] = C
    BY <1>3
  <2>2. Case!Answer(o, b["out"]) = [i \in C |-> Case!Bool(b["out"][i] > 0)]
    BY <2>1 DEF Case!Answer, Case!RampCases
  <2>3. \A i \in C : b["out"][i] > 0 <=> x[i] <= y[i]
    BY <1>4 DEF Case!Bool, Case!One
  <2> QED BY <2>2, <2>3 DEF Case!Bool
<1>6. Case!Reference(o, sh, b) = [i \in C |-> Case!Bool(x[i] <= y[i])]
  <2>1. CASE o = "cmple"
    BY <2>1, ReferenceIs
  <2>2. CASE o = "cmpge"
    <3>1. Case!Reference(o, sh, b) = [i \in C |-> Case!Bool(b["a"][i] >= b["b"][i])]
      BY <2>2, ReferenceIs
    <3>2. \A i \in C : b["a"][i] >= b["b"][i] <=> b["b"][i] <= b["a"][i]
      BY DEF Array
    <3> QED BY <2>2, <3>1, <3>2 DEF Case!Bool
  <2> QED BY <2>1, <2>2
<1>7. \A i \in C : Case!Bool(x[i] <= y[i]) \in Int
  BY DEF Case!Bool, Case!One
<1> HIDE DEF x, y
<1> QED BY <1>5, <1>6, <1>7 DEF Array

(* 1 - x of a truth value is its negation.                                 *)
LEMMA Negated ==
  ASSUME NEW p \in BOOLEAN
  PROVE  Case!Larger(Case!Smaller(24 - Case!Bool(p), 24), 0) = Case!Bool(~p)
BY DEF Case!Larger, Case!Smaller, Case!Bool, Case!One

LEMMA CmpeqRight ==
  ASSUME NEW sh, NEW b, b["a"] \in Array(sh), b["b"] \in Array(sh),
         Computed("cmpeq", b, 1), Computed("cmpeq", b, 2), Computed("cmpeq", b, 3)
  PROVE  b["out"] \in Array(sh) /\ b["out"] = Case!Reference("cmpeq", sh, b)
<1> DEFINE C == Case!Cells(sh)
           P(i) == b["stage1"][i] # 0
<1>1. Plain("cmpeq")
  BY DEF Plain, Case!Pools
<1>2. b["stage1"] = [i \in C |-> b["b"][i] - b["a"][i]]
  BY <1>1, ChainIs, AluIs DEF Array
<1>3. b["stage2"] = [i \in C |-> Case!Bool(P(i))]
  <2>1. b["stage2"] = Case!Alu(17, b["zeros"], b["stage1"])
    BY ChainIs
  <2>2. b["stage2"] = [i \in DOMAIN b["stage1"] |-> Case!Bool(b["stage1"][i] # 0)]
    BY <2>1, AluIs
  <2>3. DOMAIN b["stage1"] = C
    BY <1>2
  <2> QED BY <2>2, <2>3
<1>4. b["out"] = [i \in C |-> Case!Larger(Case!Smaller(24 - b["stage2"][i], 24), 0)]
  BY <1>1, <1>3, ChainIs, AluIs
<1>5. \A i \in C : b["out"][i] = Case!Bool(~P(i))
  BY <1>3, <1>4, Negated
<1>6. \A i \in C : ~P(i) <=> b["a"][i] = b["b"][i]
  BY <1>2 DEF Array
<1>7. Case!Reference("cmpeq", sh, b) = [i \in C |-> Case!Bool(b["a"][i] = b["b"][i])]
  BY ReferenceIs
<1>8. \A i \in C : Case!Bool(b["a"][i] = b["b"][i]) \in Int
  BY DEF Case!Bool, Case!One
<1>9. \A i \in C : b["out"][i] = Case!Bool(b["a"][i] = b["b"][i])
  BY <1>5, <1>6 DEF Case!Bool
<1> HIDE DEF P
<1> QED BY <1>4, <1>7, <1>8, <1>9 DEF Array

LEMMA CmpneqRight ==
  ASSUME NEW sh, NEW b, b["a"] \in Array(sh), b["b"] \in Array(sh),
         cmpeq_last = Case!Reference("cmpeq", sh, b), Computed("cmpneq", b, 1)
  PROVE  b["out"] \in Array(sh) /\ b["out"] = Case!Reference("cmpneq", sh, b)
<1> DEFINE C == Case!Cells(sh)
           P(i) == b["a"][i] = b["b"][i]
<1>1. Plain("cmpneq")
  BY DEF Plain, Case!Pools
<1>2. cmpeq_last = [i \in C |-> Case!Bool(P(i))]
  BY ReferenceIs
<1>3. b["out"] = [i \in C |-> Case!Larger(Case!Smaller(24 - cmpeq_last[i], 24), 0)]
  BY <1>1, <1>2, StagesAre, PlainStage, AluIs
<1>4. \A i \in C : b["out"][i] = Case!Bool(~P(i))
  BY <1>2, <1>3, Negated
<1>5. Case!Reference("cmpneq", sh, b) = [i \in C |-> Case!Bool(~P(i))]
  BY ReferenceIs
<1>6. \A i \in C : Case!Bool(~P(i)) \in Int
  BY DEF Case!Bool, Case!One
<1> HIDE DEF P
<1> QED BY <1>3, <1>4, <1>5, <1>6 DEF Array

LEMMA NegRight ==
  ASSUME NEW sh, NEW b, b["b"] \in [Case!Cells(sh) -> {0, 24}], Computed("neg", b, 1)
  PROVE  b["out"] \in Array(sh) /\ b["out"] = Case!Reference("neg", sh, b)
<1> DEFINE C == Case!Cells(sh)
<1>1. Plain("neg")
  BY DEF Plain, Case!Pools
<1>2. b["out"] = [i \in C |-> Case!Larger(Case!Smaller(24 - b["b"][i], 24), 0)]
  BY <1>1, StagesAre, PlainStage, AluIs
<1>3. \A x \in {0, 24} : Case!Larger(Case!Smaller(24 - x, 24), 0) = 24 - x /\ 24 - x \in Int
  BY DEF Case!Larger, Case!Smaller
<1>4. Case!Reference("neg", sh, b) = [i \in C |-> 24 - b["b"][i]]
  BY ReferenceIs
<1> QED BY <1>2, <1>3, <1>4 DEF Array

LEMMA WhereRight ==
  ASSUME NEW sh, NEW b, b["a"] \in Array(sh), b["b"] \in Array(sh),
         b["mask"] \in [Case!Cells(sh) -> {0, 24}],
         Computed("where", b, 1), Computed("where", b, 2),
         Computed("where", b, 3), Computed("where", b, 4)
  PROVE  b["out"] \in Array(sh) /\ b["out"] = Case!Reference("where", sh, b)
<1> DEFINE C == Case!Cells(sh)
<1>1. Plain("where")
  BY DEF Plain, Case!Pools
<1>2. b["stage1"] = [i \in C |-> Case!Larger(Case!Smaller(24 - b["mask"][i], 24), 0)]
  BY <1>1, ChainIs, AluIs
<1>3. b["stage2"] = [i \in C |-> (b["stage1"][i] * b["b"][i]) \div 24]
  <2>1. b["stage2"] = Case!Alu(9, b["stage1"], b["b"])
    BY ChainIs
  <2> QED BY <2>1, AluIs DEF Array
<1>4. b["stage3"] = [i \in C |-> (b["mask"][i] * b["a"][i]) \div 24]
  BY <1>1, ChainIs, AluIs DEF Array
<1>5. b["out"] = [i \in C |-> b["stage3"][i] + b["stage2"][i]]
  <2>1. b["out"] = Case!Alu(2, b["stage3"], b["stage2"])
    BY ChainIs
  <2>2. b["out"] = [i \in DOMAIN b["stage2"] |-> b["stage3"][i] + b["stage2"][i]]
    BY <2>1, AluIs
  <2>3. DOMAIN b["stage2"] = C
    BY <1>3
  <2> QED BY <2>2, <2>3
<1>6. \A x \in {0, 24} : Case!Larger(Case!Smaller(24 - x, 24), 0) = 24 - x
  BY DEF Case!Larger, Case!Smaller
<1>7. \A x, y \in Int : /\ ((24 - 24) * x) \div 24 = 0 /\ (24 * y) \div 24 = y
                        /\ ((24 - 0) * x) \div 24 = x /\ (0 * y) \div 24 = 0
                        /\ y + 0 = y /\ 0 + x = x
  OBVIOUS
<1>8. \A i \in C : b["out"][i] = IF b["mask"][i] = 24 THEN b["a"][i] ELSE b["b"][i]
  <2> TAKE i \in C
  <2>1. /\ b["stage2"][i] = ((24 - b["mask"][i]) * b["b"][i]) \div 24
        /\ b["stage3"][i] = (b["mask"][i] * b["a"][i]) \div 24
        /\ b["out"][i] = b["stage3"][i] + b["stage2"][i]
    BY <1>2, <1>3, <1>4, <1>5, <1>6
  <2>2. b["a"][i] \in Int /\ b["b"][i] \in Int /\ b["mask"][i] \in {0, 24}
    BY DEF Array
  <2>3. CASE b["mask"][i] = 24
    BY <1>7, <2>1, <2>2, <2>3
  <2>4. CASE b["mask"][i] = 0
    BY <1>7, <2>1, <2>2, <2>4
  <2> QED BY <2>2, <2>3, <2>4
<1>9. Case!Reference("where", sh, b)
        = [i \in C |-> IF b["mask"][i] = 24 THEN b["a"][i] ELSE b["b"][i]]
  BY ReferenceIs
<1> QED BY <1>5, <1>8, <1>9 DEF Array

-----------------------------------------------------------------------------
(* The pools. Of finitely many numbers one is the largest.                 *)
LEMMA LargestOf ==
  ASSUME NEW n \in Nat \ {0}, NEW g \in [1 .. n -> Int]
  PROVE  \E m \in 1 .. n : \A d \in 1 .. n : g[m] >= g[d]
<1> DEFINE Top(l) == \E m \in 1 .. l : \A d \in 1 .. l : g[m] >= g[d]
           T == {l \in Nat : l + 1 <= n => Top(l + 1)}
<1>1. 0 \in T
  <2>1. 0 + 1 <= n => Top(0 + 1)
    <3>1. 1 \in 1 .. n /\ g[1] \in Int
      OBVIOUS
    <3> QED BY <3>1
  <2> QED BY <2>1
<1>2. ASSUME NEW l \in T PROVE l + 1 \in T
  <2> SUFFICES ASSUME (l + 1) + 1 <= n PROVE Top((l + 1) + 1)
    OBVIOUS
  <2>1. Top(l + 1)
    <3>1. l \in Nat /\ (l + 1 <= n => Top(l + 1))
      OBVIOUS
    <3> HIDE DEF Top
    <3> QED BY <3>1
  <2>2. PICK m \in 1 .. l + 1 : \A d \in 1 .. l + 1 : g[m] >= g[d]
    BY <2>1
  <2>3. m \in 1 .. n /\ l + 2 \in 1 .. n /\ g[m] \in Int /\ g[l + 2] \in Int
        /\ \A d \in 1 .. l + 1 : d \in 1 .. n /\ g[d] \in Int
    OBVIOUS
  <2>4. \A d \in 1 .. (l + 1) + 1 : d \in 1 .. l + 1 \/ d = l + 2
    OBVIOUS
  <2>0. (l + 1) + 1 = l + 2 /\ 1 .. l + 1 \subseteq 1 .. l + 2
    OBVIOUS
  <2>5. CASE g[m] >= g[l + 2]
    BY <2>0, <2>2, <2>4, <2>5
  <2>6. CASE g[l + 2] >= g[m]
    <3>1. \A d \in 1 .. l + 1 : g[l + 2] >= g[d]
      BY <2>2, <2>3, <2>6
    <3>2. l + 2 \in 1 .. l + 2 /\ g[l + 2] >= g[l + 2]
      BY <2>3
    <3> QED BY <2>0, <2>4, <3>1, <3>2
  <2> QED BY <2>3, <2>5, <2>6
<1>3. T = Nat
  <2>1. T \in SUBSET Nat
    OBVIOUS
  <2> HIDE DEF T
  <2> QED BY <1>1, <1>2, <2>1, CountingUp
<1>4. n - 1 \in Nat /\ (n - 1) + 1 = n /\ n <= n
  OBVIOUS
<1>5. (n - 1) + 1 <= n => Top((n - 1) + 1)
  <2> HIDE DEF Top
  <2> QED BY <1>3, <1>4
<1>6. Top(n)
  <2> HIDE DEF Top
  <2> QED BY <1>4, <1>5
<1> QED BY <1>6

LEMMA MaxIs ==
  ASSUME NEW S \in SUBSET Int, NEW v \in S, \A x \in S : v >= x
  PROVE  Case!Max(S) = v
<1>1. \A w \in S : (\A x \in S : w >= x) => w = v
  OBVIOUS
<1> QED BY <1>1 DEF Case!Max

LEMMA MinIs ==
  ASSUME NEW S \in SUBSET Int, NEW v \in S, \A x \in S : v <= x
  PROVE  Case!Min(S) = v
<1>1. \A w \in S : (\A x \in S : w <= x) => w = v
  OBVIOUS
<1> QED BY <1>1 DEF Case!Min

LEMMA LargestAt ==
  ASSUME NEW n \in Nat \ {0}, NEW places, DOMAIN places = 1 .. n, NEW a,
         \A d \in 1 .. n : a[places[d]] \in Int
  PROVE  /\ Case!Max(Case!At(a, places)) \in Case!At(a, places)
         /\ Case!Max(Case!At(a, places)) \in Int
         /\ \A d \in 1 .. n : Case!Max(Case!At(a, places)) >= a[places[d]]
<1> DEFINE g == [d \in 1 .. n |-> a[places[d]]]
<1>1. g \in [1 .. n -> Int]
  OBVIOUS
<1>2. PICK m \in 1 .. n : \A d \in 1 .. n : g[m] >= g[d]
  <2> HIDE DEF g
  <2> QED BY <1>1, LargestOf
<1> DEFINE v == a[places[m]]
<1>3. Case!At(a, places) = {a[places[d]] : d \in 1 .. n}
  BY DEF Case!At
<1>4. Case!At(a, places) \in SUBSET Int /\ v \in Case!At(a, places) /\ v \in Int
  BY <1>3
<1>5. \A d \in 1 .. n : v >= a[places[d]]
  BY <1>2
<1>6. \A x \in Case!At(a, places) : v >= x
  BY <1>3, <1>5
<1> HIDE DEF v
<1>7. Case!Max(Case!At(a, places)) = v
  BY <1>4, <1>6, MaxIs
<1> QED BY <1>4, <1>5, <1>7

LEMMA WindowInside ==
  ASSUME NEW i \in 1 .. 9
  PROVE  DOMAIN Case!Window(i) = 1 .. 4 /\ \A n \in 1 .. 4 : Case!Window(i)[n] \in 1 .. 16
<1>1. (i - 1) \div 3 \in 0 .. 2 /\ (i - 1) % 3 \in 0 .. 2
  OBVIOUS
<1>2. \A n \in 1 .. 4 : (n - 1) \div 2 \in 0 .. 1 /\ (n - 1) % 2 \in 0 .. 1
  OBVIOUS
<1> QED BY <1>1, <1>2 DEF Case!Window

LEMMA WindowsCover ==
  ASSUME NEW j \in 1 .. 16
  PROVE  \E i \in 1 .. 9 : \E n \in 1 .. 4 : Case!Window(i)[n] = j
<1> DEFINE r == (j - 1) \div 4
           c == (j - 1) % 4
<1>1. r \in 0 .. 3 /\ c \in 0 .. 3 /\ j = 4 * r + c + 1
  OBVIOUS
<1> HIDE DEF r, c
<1>2. \A x, y \in 0 .. 2 : /\ 3 * x + y + 1 \in 1 .. 9
                           /\ ((3 * x + y + 1) - 1) \div 3 = x /\ ((3 * x + y + 1) - 1) % 3 = y
  OBVIOUS
<1>3. /\ \A x \in 0 .. 1 : \A y \in 0 .. 1 : 2 * x + y + 1 \in 1 .. 4
      /\ \A x \in 0 .. 1 : \A y \in 0 .. 1 :
           ((2 * x + y + 1) - 1) \div 2 = x /\ ((2 * x + y + 1) - 1) % 2 = y
  OBVIOUS
<1> DEFINE dr == IF r = 3 THEN 1 ELSE 0
           dc == IF c = 3 THEN 1 ELSE 0
           i == 3 * (r - dr) + (c - dc) + 1
           n == 2 * dr + dc + 1
<1>4. dr \in 0 .. 1 /\ dc \in 0 .. 1 /\ r - dr \in 0 .. 2 /\ c - dc \in 0 .. 2
  BY <1>1
<1> HIDE DEF dr, dc
<1>5. i \in 1 .. 9 /\ (i - 1) \div 3 = r - dr /\ (i - 1) % 3 = c - dc
  BY <1>2, <1>4
<1>6. n \in 1 .. 4 /\ (n - 1) \div 2 = dr /\ (n - 1) % 2 = dc
  BY <1>3, <1>4
<1> HIDE DEF i, n
<1>7. Case!Window(i)[n] = 4 * ((r - dr) + dr) + (c - dc) + dc + 1
  BY <1>5, <1>6 DEF Case!Window
<1>8. Case!Window(i)[n] = j
  BY <1>1, <1>4, <1>7
<1> QED BY <1>5, <1>6, <1>8

LEMMA SumTyped ==
  ASSUME NEW n \in Nat, NEW places, Len(places) = n, NEW a,
         \A d \in 1 .. n : a[places[d]] \in Int
  PROVE  Case!Sum(a, places) \in Int
<1> DEFINE Sums(f) == f = [d \in 0 .. n |-> IF d = 0 THEN 0 ELSE f[d - 1] + a[places[d]]]
           Round == [d \in 1 .. n |-> [x \in Int |-> x + a[places[d]]]]
<1>1. \A d \in 1 .. n : \A x \in Int : Round[d][x] \in Int
  OBVIOUS
<1>2. PICK g \in [0 .. n -> Int] :
        \A d \in 0 .. n : g[d] = IF d = 0 THEN 0 ELSE Round[d][g[d - 1]]
  <2> HIDE DEF Round
  <2>1. HasValues(Int, 0, n, Round)
    <3>1. 0 \in Int
      OBVIOUS
    <3> QED BY <1>1, <3>1, LoopHasValues
  <2> QED BY <2>1 DEF HasValues
<1>3. Sums(g)
  <2>1. ASSUME NEW d \in 0 .. n
        PROVE  g[d] = IF d = 0 THEN 0 ELSE g[d - 1] + a[places[d]]
    <3>1. d # 0 => d \in 1 .. n /\ d - 1 \in 0 .. n /\ g[d - 1] \in Int
      OBVIOUS
    <3> QED BY <1>2, <3>1
  <2> QED BY <2>1
<1> DEFINE sum == CHOOSE f : Sums(f)
<1>4. Sums(sum)
  BY <1>3
<1>5. Case!Sum(a, places) = sum[n]
  BY DEF Case!Sum
<1> HIDE DEF sum
<1>6. sum[0] \in Int /\ \A d \in 1 .. n : sum[d - 1] \in Int => sum[d] \in Int
  BY <1>4
<1>7. sum[n] \in Int
  <2> HIDE DEF Sums
  <2> QED BY <1>6, LoopKeeps
<1> QED BY <1>5, <1>7

LEMMA LengthsAre ==
  /\ Len(Case!Image) = 16 /\ DOMAIN Case!Image = 1 .. 16
  /\ \A n \in 1 .. 16 : Case!Image[n] = n
  /\ \A i \in 1 .. 9 : Len(Case!Window(i)) = 4
BY DEF Case!Image, Case!Window

(* The smallest is the negation of the largest of the negations.           *)
LEMMA MinByMax ==
  ASSUME NEW n \in Nat \ {0}, NEW places, DOMAIN places = 1 .. n, NEW a, NEW f,
         \A d \in 1 .. n : a[places[d]] \in Int,
         \A d \in 1 .. n : f[places[d]] = -a[places[d]]
  PROVE  /\ Case!Min(Case!At(a, places)) = -Case!Max(Case!At(f, places))
         /\ Case!Max(Case!At(f, places)) \in Int
<1> DEFINE v == Case!Max(Case!At(f, places))
<1>1. \A d \in 1 .. n : f[places[d]] \in Int
  OBVIOUS
<1>2. v \in Case!At(f, places) /\ v \in Int /\ \A d \in 1 .. n : v >= f[places[d]]
  BY <1>1, LargestAt
<1>3. Case!At(a, places) = {a[places[d]] : d \in 1 .. n}
      /\ Case!At(f, places) = {f[places[d]] : d \in 1 .. n}
  BY DEF Case!At
<1> HIDE DEF v
<1>4. PICK d \in 1 .. n : v = f[places[d]]
  BY <1>2, <1>3
<1>5. -v = a[places[d]]
  BY <1>4
<1>6. -v \in Case!At(a, places) /\ Case!At(a, places) \in SUBSET Int
  BY <1>3, <1>5
<1>7. \A x \in Case!At(a, places) : -v <= x
  <2>1. \A m \in 1 .. n : -v <= a[places[m]]
    BY <1>2
  <2> QED BY <1>3, <2>1
<1>8. Case!Min(Case!At(a, places)) = -v
  BY <1>6, <1>7, MinIs
<1> QED BY <1>2, <1>8 DEF v

(* What the pools read.                                                    *)
LEMMA InPicture ==
  ASSUME NEW a, \A j \in 1 .. 16 : a[j] \in Int, NEW i \in 1 .. 9
  PROVE  /\ Case!Max(Case!At(a, Case!Window(i))) \in Case!At(a, Case!Window(i))
         /\ Case!Max(Case!At(a, Case!Window(i))) \in Int
         /\ \A n \in 1 .. 4 : Case!Max(Case!At(a, Case!Window(i))) >= a[Case!Window(i)[n]]
         /\ Case!Sum(a, Case!Window(i)) \in Int
         /\ Case!Max(Case!At(a, Case!Image)) \in Case!At(a, Case!Image)
         /\ Case!Max(Case!At(a, Case!Image)) \in Int
         /\ \A n \in 1 .. 16 : Case!Max(Case!At(a, Case!Image)) >= a[n]
         /\ Case!Sum(a, Case!Image) \in Int
<1> DEFINE w == Case!Window(i)
           x == Case!Image
<1>1. DOMAIN w = 1 .. 4 /\ Len(w) = 4 /\ \A n \in 1 .. 4 : a[w[n]] \in Int
  BY WindowInside, LengthsAre
<1>2. /\ DOMAIN x = 1 .. 16 /\ Len(x) = 16 /\ \A n \in 1 .. 16 : x[n] = n
      /\ \A n \in 1 .. 16 : a[x[n]] \in Int
  BY LengthsAre
<1>3. 4 \in Nat \ {0} /\ 16 \in Nat \ {0}
  OBVIOUS
<1> HIDE DEF w, x
<1>4. /\ Case!Max(Case!At(a, w)) \in Case!At(a, w) /\ Case!Max(Case!At(a, w)) \in Int
      /\ \A n \in 1 .. 4 : Case!Max(Case!At(a, w)) >= a[w[n]]
  BY <1>1, <1>3, LargestAt
<1>5. /\ Case!Max(Case!At(a, x)) \in Case!At(a, x) /\ Case!Max(Case!At(a, x)) \in Int
      /\ \A n \in 1 .. 16 : Case!Max(Case!At(a, x)) >= a[x[n]]
  BY <1>2, <1>3, LargestAt
<1>6. Case!Sum(a, w) \in Int
  BY <1>1, <1>3, SumTyped
<1>7. Case!Sum(a, x) \in Int
  BY <1>2, <1>3, SumTyped
<1>8. \A n \in 1 .. 16 : Case!Max(Case!At(a, x)) >= a[n]
  BY <1>2, <1>5
<1> QED BY <1>4, <1>5, <1>6, <1>7, <1>8 DEF w, x

LEMMA NegatedPicture ==
  ASSUME NEW a, NEW f, \A j \in 1 .. 16 : a[j] \in Int /\ f[j] = -a[j], NEW i \in 1 .. 9
  PROVE  /\ Case!Min(Case!At(a, Case!Window(i))) = -Case!Max(Case!At(f, Case!Window(i)))
         /\ Case!Min(Case!At(a, Case!Image)) = -Case!Max(Case!At(f, Case!Image))
<1> DEFINE w == Case!Window(i)
           x == Case!Image
<1>1. DOMAIN w = 1 .. 4 /\ \A n \in 1 .. 4 : a[w[n]] \in Int /\ f[w[n]] = -a[w[n]]
  BY WindowInside
<1>2. DOMAIN x = 1 .. 16 /\ \A n \in 1 .. 16 : a[x[n]] \in Int /\ f[x[n]] = -a[x[n]]
  BY LengthsAre
<1>3. 4 \in Nat \ {0} /\ 16 \in Nat \ {0}
  OBVIOUS
<1> HIDE DEF w, x
<1>4. Case!Min(Case!At(a, w)) = -Case!Max(Case!At(f, w)) /\ Case!Max(Case!At(f, w)) \in Int
  BY <1>1, <1>3, MinByMax
<1>5. Case!Min(Case!At(a, x)) = -Case!Max(Case!At(f, x)) /\ Case!Max(Case!At(f, x)) \in Int
  BY <1>2, <1>3, MinByMax
<1> QED BY <1>4, <1>5 DEF w, x

Picture == [1 .. 16 -> Int]

LEMMA PoolStage ==
  ASSUME NEW b, NEW o \in {"maxpool", "globalmaxpool", "avgpool"}, Computed(o, b, 1)
  PROVE  b["out"] = Case!Alu(IF o = "maxpool" THEN 24 ELSE IF o = "avgpool" THEN 26 ELSE 25,
                             b["zeros"], b["a"])
<1>1. Case!Fed(o, b["a"]) = b["a"]
  BY DEF Case!Fed
<1>2. \A alg, y : Case!Reworked(o, alg, y) = y
  BY DEF Case!Reworked
<1>3. CASE o = "maxpool"
  <2>1. Case!Stages(o)[1] = Case!Stage(24, "zeros", "a", "out")
    BY <1>3, StagesAre
  <2> QED BY <1>1, <1>2, <1>3, <2>1 DEF Computed, InputOf, Case!Stage
<1>4. CASE o = "avgpool"
  <2>1. Case!Stages(o)[1] = Case!Stage(26, "zeros", "a", "out")
    BY <1>4, StagesAre
  <2> QED BY <1>1, <1>2, <1>4, <2>1 DEF Computed, InputOf, Case!Stage
<1>5. CASE o = "globalmaxpool"
  <2>1. Case!Stages(o)[1] = Case!Stage(25, "zeros", "a", "out")
    BY <1>5, StagesAre
  <2> QED BY <1>1, <1>2, <1>5, <2>1 DEF Computed, InputOf, Case!Stage
<1> QED BY <1>3, <1>4, <1>5

LEMMA MaxpoolRight ==
  ASSUME NEW sh, NEW b, b["a"] \in Picture, NEW o \in {"maxpool", "globalmaxpool"},
         Computed(o, b, 1)
  PROVE  b["out"] = Case!Reference(o, sh, b) /\ \E S : b["out"] \in [S -> Int]
<1>1. CASE o = "maxpool"
  <2>1. b["out"] = Case!Alu(24, b["zeros"], b["a"])
    BY <1>1, PoolStage
  <2>2. b["out"] = [i \in 1 .. 9 |-> Case!Max(Case!At(b["a"], Case!Window(i)))]
    BY <2>1, AluIs
  <2>3. \A i \in 1 .. 9 : Case!Max(Case!At(b["a"], Case!Window(i))) \in Int
    BY InPicture DEF Picture
  <2>4. b["out"] \in [1 .. 9 -> Int]
    BY <2>2, <2>3
  <2>5. Case!Reference(o, sh, b) = [i \in 1 .. 9 |-> Case!Max(Case!At(b["a"], Case!Window(i)))]
    BY <1>1, ReferenceIs
  <2> QED BY <2>2, <2>4, <2>5
<1>2. CASE o = "globalmaxpool"
  <2>1. b["out"] = Case!Alu(25, b["zeros"], b["a"])
    BY <1>2, PoolStage
  <2>2. b["out"] = [i \in 1 .. 1 |-> Case!Max(Case!At(b["a"], Case!Image))]
    BY <2>1, AluIs
  <2>3. Case!Max(Case!At(b["a"], Case!Image)) \in Int
    <3>1. 1 \in 1 .. 9 /\ \A j \in 1 .. 16 : b["a"][j] \in Int
      BY DEF Picture
    <3> QED BY <3>1, InPicture
  <2>4. b["out"] \in [1 .. 1 -> Int]
    BY <2>2, <2>3
  <2>5. Case!Reference(o, sh, b) = [i \in 1 .. 1 |-> Case!Max(Case!At(b["a"], Case!Image))]
    BY <1>2, ReferenceIs
  <2> QED BY <2>2, <2>4, <2>5
<1> QED BY <1>1, <1>2

LEMMA AvgpoolRight ==
  ASSUME NEW sh, NEW b, b["a"] \in Picture, Computed("avgpool", b, 1)
  PROVE  b["out"] = Case!Reference("avgpool", sh, b) /\ \E S : b["out"] \in [S -> Int]
<1>1. b["out"] = Case!Alu(26, b["zeros"], b["a"])
  BY PoolStage
<1>2. b["out"] = [i \in 1 .. 9 |-> Case!Sum(b["a"], Case!Window(i)) \div 4]
  BY <1>1, AluIs
<1>3. \A i \in 1 .. 9 : Case!Sum(b["a"], Case!Window(i)) \in Int
  BY InPicture DEF Picture
<1>4. b["out"] \in [1 .. 9 -> Int]
  BY <1>2, <1>3
<1>5. Case!Reference("avgpool", sh, b) = [i \in 1 .. 9 |-> Case!Sum(b["a"], Case!Window(i)) \div 4]
  BY ReferenceIs
<1> QED BY <1>2, <1>4, <1>5

(* A quarter of a quarter is a sixteenth, rounded down.                    *)
LEMMA GlobalavgpoolRight ==
  ASSUME NEW sh, NEW b, b["a"] \in Picture, Computed("globalavgpool", b, 1)
  PROVE  b["out"] = Case!Reference("globalavgpool", sh, b) /\ \E S : b["out"] \in [S -> Int]
<1> DEFINE x == Case!Sum(b["a"], Case!Image)
           y == Case!Alu(27, b["zeros"], b["a"])
<1>1. Case!Stages("globalavgpool")[1] = Case!Stage(27, "zeros", "a", "out")
  BY StagesAre
<1>2. b["out"] = Case!Reworked("globalavgpool", 27, y)
  BY <1>1 DEF Computed, InputOf, Case!Stage, Case!Fed
<1>3. b["out"] = [i \in 1 .. 1 |-> y[1] \div 4]
  <2> HIDE DEF y
  <2> QED BY <1>2 DEF Case!Reworked
<1>4. y = [i \in 1 .. 1 |-> x \div 4]
  BY AluIs
<1>5. x \in Int
  <2>1. 1 \in 1 .. 9 /\ \A j \in 1 .. 16 : b["a"][j] \in Int
    BY DEF Picture
  <2> QED BY <2>1, InPicture
<1> HIDE DEF x, y
<1>6. (x \div 4) \div 4 = x \div 16 /\ x \div 16 \in Int
  BY <1>5
<1>7. b["out"] = [i \in 1 .. 1 |-> x \div 16]
  BY <1>3, <1>4, <1>6
<1>8. b["out"] \in [1 .. 1 -> Int]
  BY <1>6, <1>7
<1>9. Case!Reference("globalavgpool", sh, b) = [i \in 1 .. 1 |-> x \div 16]
  BY ReferenceIs DEF x
<1> QED BY <1>7, <1>8, <1>9

LEMMA MinpoolRight ==
  ASSUME NEW sh, NEW b, b["a"] \in Picture, Computed("minpool", b, 1)
  PROVE  b["out"] = Case!Reference("minpool", sh, b) /\ \E S : b["out"] \in [S -> Int]
<1> DEFINE a == b["a"]
           f == [i \in DOMAIN a |-> -a[i]]
           y == Case!Alu(24, b["zeros"], f)
<1>1. Case!Stages("minpool")[1] = Case!Stage(24, "zeros", "a", "out")
  BY StagesAre
<1>2. b["out"] = Case!Reworked("minpool", 24, y)
  BY <1>1 DEF Computed, InputOf, Case!Stage, Case!Fed
<1>3. b["out"] = [i \in DOMAIN y |-> -y[i]]
  <2> HIDE DEF y
  <2> QED BY <1>2 DEF Case!Reworked
<1>4. y = [i \in 1 .. 9 |-> Case!Max(Case!At(f, Case!Window(i)))]
  <2> HIDE DEF f
  <2> QED BY AluIs
<1>5. \A j \in 1 .. 16 : a[j] \in Int /\ f[j] = -a[j] /\ f[j] \in Int
  BY DEF Picture
<1> HIDE DEF a, f, y
<1>6. \A i \in 1 .. 9 :
        /\ Case!Min(Case!At(a, Case!Window(i))) = -Case!Max(Case!At(f, Case!Window(i)))
        /\ Case!Max(Case!At(f, Case!Window(i))) \in Int
  BY <1>5, NegatedPicture, InPicture
<1>7. b["out"] = [i \in 1 .. 9 |-> -Case!Max(Case!At(f, Case!Window(i)))]
  BY <1>3, <1>4
<1>8. b["out"] \in [1 .. 9 -> Int]
  BY <1>6, <1>7
<1>9. Case!Reference("minpool", sh, b) = [i \in 1 .. 9 |-> Case!Min(Case!At(a, Case!Window(i)))]
  BY ReferenceIs DEF a
<1> QED BY <1>6, <1>7, <1>8, <1>9

LEMMA GlobalminpoolRight ==
  ASSUME NEW sh, NEW b, b["a"] \in Picture, Computed("globalminpool", b, 1)
  PROVE  b["out"] = Case!Reference("globalminpool", sh, b) /\ \E S : b["out"] \in [S -> Int]
<1> DEFINE a == b["a"]
           f == [i \in DOMAIN a |-> -a[i]]
           y == Case!Alu(24, b["zeros"], f)
<1>1. Case!Stages("globalminpool")[1] = Case!Stage(24, "zeros", "a", "out")
  BY StagesAre
<1>2. b["out"] = Case!Reworked("globalminpool", 24, y)
  BY <1>1 DEF Computed, InputOf, Case!Stage, Case!Fed
<1>3. b["out"] = [i \in 1 .. 1 |-> -Case!Max(Case!Range(y))]
  <2> HIDE DEF y
  <2> QED BY <1>2 DEF Case!Reworked
<1>4. y = [i \in 1 .. 9 |-> Case!Max(Case!At(f, Case!Window(i)))]
  <2> HIDE DEF f
  <2> QED BY AluIs
<1>5. \A j \in 1 .. 16 : a[j] \in Int /\ f[j] = -a[j] /\ f[j] \in Int
  BY DEF Picture
<1> HIDE DEF a, f, y
<1>6. \A i \in 1 .. 9 : /\ y[i] \in Int /\ y[i] \in Case!At(f, Case!Window(i))
                        /\ \A n \in 1 .. 4 : y[i] >= f[Case!Window(i)[n]]
  BY <1>4, <1>5, InPicture
<1> DEFINE v == Case!Max(Case!At(f, Case!Image))
<1>7. Case!Min(Case!At(a, Case!Image)) = -v /\ v \in Int
  <2>1. 1 \in 1 .. 9
    OBVIOUS
  <2> QED BY <1>5, <2>1, NegatedPicture, InPicture
<1>8. v \in Case!At(f, Case!Image) /\ \A j \in 1 .. 16 : v >= f[j]
  <2>1. 1 \in 1 .. 9
    OBVIOUS
  <2> QED BY <1>5, <2>1, InPicture
<1> HIDE DEF v
<1>9. PICK j \in 1 .. 16 : v = f[j]
  BY <1>8, LengthsAre DEF Case!At
<1>10. \A i \in 1 .. 9 : v >= y[i]
  <2> TAKE i \in 1 .. 9
  <2>1. PICK n \in 1 .. 4 : y[i] = f[Case!Window(i)[n]]
    BY <1>6, WindowInside DEF Case!At
  <2> QED BY <1>8, <2>1, WindowInside
<1>11. PICK i \in 1 .. 9 : y[i] >= v
  <2>1. PICK i \in 1 .. 9 : \E n \in 1 .. 4 : Case!Window(i)[n] = j
    BY WindowsCover
  <2> QED BY <1>6, <1>9, <2>1
<1>12. y[i] = v
  BY <1>6, <1>7, <1>10, <1>11
<1>13. Case!Range(y) = {y[d] : d \in 1 .. 9}
  BY <1>4 DEF Case!Range
<1>14. Case!Range(y) \in SUBSET Int /\ v \in Case!Range(y) /\ \A x \in Case!Range(y) : v >= x
  BY <1>6, <1>10, <1>12, <1>13
<1>15. Case!Max(Case!Range(y)) = v
  BY <1>14, MaxIs
<1>16. b["out"] = [d \in 1 .. 1 |-> -v]
  BY <1>3, <1>15
<1>17. b["out"] \in [1 .. 1 -> Int]
  BY <1>7, <1>16
<1>18. Case!Reference("globalminpool", sh, b) = [d \in 1 .. 1 |-> Case!Min(Case!At(a, Case!Image))]
  BY ReferenceIs DEF a
<1> QED BY <1>7, <1>16, <1>17, <1>18

-----------------------------------------------------------------------------
(* The operands of the cases.                                              *)
Names(o) ==
  {"a", "b", "zeros"} \cup (IF o \in {"idiv", "rounddown"} THEN {"offset"}
                            ELSE IF o = "where" THEN {"mask"} ELSE {})

LEMMA ShapesTyped ==
  ASSUME Case!CaseAssumption, NEW o \in Case!Cases, o \notin Case!Pools, NEW sh \in Case!ShapesOf(o)
  PROVE  sh.rows \in Nat \ {0} /\ sh.cols \in Nat \ {0} /\ Case!Size(sh) \in Nat \ {0}
         /\ Case!Cells(sh) = 1 .. Case!Size(sh)
<1>1. sh \in Pairs \cup Ramps
  BY DEF Case!ShapesOf
<1>2. sh.rows \in Nat \ {0} /\ sh.cols \in Nat \ {0}
  BY <1>1 DEF Case!CaseAssumption
<1>3. \A x, y \in Nat \ {0} : x * y \in Nat \ {0}
  OBVIOUS
<1> QED BY <1>2, <1>3 DEF Case!Size, Case!Cells

LEMMA OperandsAre ==
  ASSUME NEW x, NEW y, NEW e, e = Case!Operands(x, y)
  PROVE  DOMAIN e = {"a", "b", "zeros"} /\ e["a"] = x /\ e["b"] = y
         /\ e["zeros"] = [i \in DOMAIN y |-> 0] /\ e.a = x /\ e.b = y
BY DEF Case!Operands, Case!Zeros

LEMMA RampTyped ==
  ASSUME NEW sh, sh.cols \in Nat \ {0}, Case!Size(sh) \in Nat \ {0}, NEW ac \in BOOLEAN
  PROVE  Case!Ramp(sh, ac) \in Array(sh) /\ Case!Falling(sh, ac) \in Array(sh)
<1> DEFINE n == IF ac THEN sh.cols ELSE Case!Size(sh)
           F(i) == IF n = 1 THEN -2 * 24 ELSE ((4 * 24 * ((i - 1) % n)) \div (n - 1)) - (2 * 24)
<1>1. n \in Nat \ {0}
  OBVIOUS
<1>2. Case!Ramp(sh, ac) = [i \in Case!Cells(sh) |-> F(i)]
  BY DEF Case!Ramp, Case!One
<1> HIDE DEF n
<1>3. \A i \in Int : F(i) \in Int
  <2> TAKE i \in Int
  <2>1. CASE n = 1
    BY <2>1
  <2>2. CASE n # 1
    <3>1. n - 1 \in Nat \ {0} /\ (i - 1) % n \in Int
      BY <1>1, <2>2
    <3>2. \A x \in Int : \A m \in Nat \ {0} : (4 * 24 * x) \div m \in Int
      OBVIOUS
    <3>3. (4 * 24 * ((i - 1) % n)) \div (n - 1) \in Int
      BY <3>1, <3>2
    <3> QED BY <2>2, <3>3
  <2> QED BY <2>1, <2>2
<1> HIDE DEF F
<1>4. \A i \in Case!Cells(sh) : i \in Int
  BY DEF Case!Cells
<1>5. Case!Ramp(sh, ac) \in Array(sh)
  BY <1>2, <1>3, <1>4 DEF Array
<1>6. Case!Falling(sh, ac) \in Array(sh)
  BY <1>5 DEF Case!Falling, Array
<1> QED BY <1>5, <1>6

LEMMA RandomTyped ==
  ASSUME Case!CaseAssumption, NEW sh, NEW e \in Case!Random(sh)
  PROVE  DOMAIN e = {"a", "b", "zeros"} /\ e["a"] \in Array(sh) /\ e["b"] \in Array(sh)
         /\ e.b = e["b"]
<1>1. PICK x, y \in [Case!Cells(sh) -> Values] : e = Case!Operands(x, y)
  BY DEF Case!Random
<1>2. x \in Array(sh) /\ y \in Array(sh)
  BY DEF Array, Case!CaseAssumption
<1> QED BY <1>1, <1>2, OperandsAre

LEMMA RampedTyped ==
  ASSUME NEW sh, sh.cols \in Nat \ {0}, Case!Size(sh) \in Nat \ {0}, NEW e \in Case!Ramped(sh)
  PROVE  DOMAIN e = {"a", "b", "zeros"} /\ e["a"] \in Array(sh) /\ e["b"] \in Array(sh)
         /\ e.a = e["a"] /\ e.b = e["b"]
<1>1. PICK ac, bc \in BOOLEAN : e = Case!Operands(Case!Ramp(sh, ac), Case!Falling(sh, bc))
  BY DEF Case!Ramped
<1> DEFINE x == Case!Ramp(sh, ac)
           y == Case!Falling(sh, bc)
<1>2. x \in Array(sh) /\ y \in Array(sh)
  BY RampTyped
<1> HIDE DEF x, y
<1>3. e = Case!Operands(x, y)
  BY <1>1 DEF x, y
<1> QED BY <1>2, <1>3, OperandsAre

LEMMA InputsAre ==
  ASSUME NEW sh
  PROVE  LET I(o) == Case!InputsOf(o, sh)
         IN  /\ I("add") = Case!Random(sh) /\ I("mul") = Case!Random(sh)
             /\ I("max") = Case!Random(sh) /\ I("minus") = Case!Random(sh)
             /\ I("relu") = Case!Random(sh)
             /\ I("cmplt") = Case!Ramped(sh) /\ I("cmpgt") = Case!Ramped(sh)
             /\ I("cmpge") = Case!Touching(sh) /\ I("cmple") = Case!Touching(sh)
             /\ I("cmpeq") = {Case!PartlyEqual(sh)} /\ I("cmpneq") = {Case!PartlyEqual(sh)}
BY DEF Case!InputsOf, Case!Pools

LEMMA InputsOfPools ==
  ASSUME NEW sh, NEW o \in Case!Pools
  PROVE  Case!InputsOf(o, sh) = {Case!Operands(x, x) : x \in Images}
<1>1. Case!InputsOf("maxpool", sh) = {Case!Operands(x, x) : x \in Images}
  BY DEF Case!InputsOf, Case!Pools
<1>2. Case!InputsOf("minpool", sh) = {Case!Operands(x, x) : x \in Images}
  BY DEF Case!InputsOf, Case!Pools
<1>3. Case!InputsOf("globalmaxpool", sh) = {Case!Operands(x, x) : x \in Images}
  BY DEF Case!InputsOf, Case!Pools
<1>4. Case!InputsOf("globalminpool", sh) = {Case!Operands(x, x) : x \in Images}
  BY DEF Case!InputsOf, Case!Pools
<1>5. Case!InputsOf("avgpool", sh) = {Case!Operands(x, x) : x \in Images}
  BY DEF Case!InputsOf, Case!Pools
<1>6. Case!InputsOf("globalavgpool", sh) = {Case!Operands(x, x) : x \in Images}
  BY DEF Case!InputsOf, Case!Pools
<1> QED BY <1>1, <1>2, <1>3, <1>4, <1>5, <1>6 DEF Case!Pools

Bits(sh) == [i \in Case!Cells(sh) |-> Case!Bool(i % 2 = 0)]

LEMMA InputsOfDiv ==
  ASSUME NEW sh
  PROVE  Case!InputsOf("div", sh) =
           {[e EXCEPT !.b = [i \in Case!Cells(sh) |-> IF e.b[i] = 0 THEN 24 ELSE e.b[i]]] :
              e \in Case!Random(sh)}
BY DEF Case!InputsOf, Case!Pools, Case!One

LEMMA InputsOfIdiv ==
  ASSUME NEW sh
  PROVE  Case!InputsOf("idiv", sh) =
           {Case!With(Case!Operands(x, y), "offset", [i \in Case!Cells(sh) |-> 12]) :
             x \in [Case!Cells(sh) -> {0, 36, 84, 240}], y \in [Case!Cells(sh) -> {24, 2 * 24}]}
BY DEF Case!InputsOf, Case!Pools, Case!One, Case!Half

LEMMA InputsOfRounddown ==
  ASSUME NEW sh
  PROVE  Case!InputsOf("rounddown", sh) =
           {Case!With(Case!Operands(x, x), "offset", [i \in Case!Cells(sh) |-> 12]) :
              x \in Case!Samples(sh)}
BY DEF Case!InputsOf, Case!Pools, Case!One, Case!Half

LEMMA InputsOfRoundoff ==
  ASSUME NEW sh
  PROVE  Case!InputsOf("roundoff", sh) =
           {Case!Operands(x, x) : x \in Case!Samples(sh)}
BY DEF Case!InputsOf, Case!Pools

LEMMA InputsOfAbs ==
  ASSUME NEW sh
  PROVE  Case!InputsOf("abs", sh) =
           {Case!Operands(Case!Ramp(sh, FALSE), Case!Ramp(sh, FALSE))}
BY DEF Case!InputsOf, Case!Pools

LEMMA InputsOfNeg ==
  ASSUME NEW sh
  PROVE  Case!InputsOf("neg", sh) =
           {Case!Operands(Bits(sh), Bits(sh))}
BY DEF Case!InputsOf, Case!Pools, Bits

LEMMA InputsOfWhere ==
  ASSUME NEW sh
  PROVE  Case!InputsOf("where", sh) =
           {Case!With(e, "mask", Bits(sh)) : e \in Case!Random(sh)}
BY DEF Case!InputsOf, Case!Pools, Bits

LEMMA WithAlso ==
  ASSUME NEW r, DOMAIN r = {"a", "b", "zeros"}, NEW name \in {"offset", "mask"}, NEW x,
         NEW e, e = Case!With(r, name, x)
  PROVE  DOMAIN e = {"a", "b", "zeros", name} /\ e["a"] = r["a"] /\ e["b"] = r["b"] /\ e[name] = x
<1>1. DOMAIN e = DOMAIN r \cup {name} /\ e[name] = x /\ \A y \in DOMAIN r : y # name => e[y] = r[y]
  BY DEF Case!With
<1>2. name # "a" /\ name # "b"
  OBVIOUS
<1> QED BY <1>1, <1>2

LEMMA PartlyEqualTyped ==
  ASSUME NEW sh, sh.cols \in Nat \ {0}, Case!Size(sh) \in Nat \ {0}
  PROVE  LET e == Case!PartlyEqual(sh)
         IN  /\ DOMAIN e = {"a", "b", "zeros"}
             /\ e["a"] \in Array(sh) /\ e["b"] \in Array(sh) /\ e["zeros"] \in Array(sh)
<1> DEFINE x == Case!Ramp(sh, FALSE)
           y == [i \in Case!Cells(sh) |-> x[i] + (IF (i - 1) % 4 = 0 \/ i = 2 THEN 0 ELSE 24)]
           e == Case!PartlyEqual(sh)
<1>1. e = Case!Operands(x, y)
  BY DEF Case!PartlyEqual, Case!One
<1>2. x \in Array(sh)
  BY RampTyped
<1> HIDE DEF x
<1>3. y \in Array(sh)
  BY <1>2 DEF Array
<1> HIDE DEF y, e
<1>4. DOMAIN e = {"a", "b", "zeros"} /\ e["a"] = x /\ e["b"] = y
      /\ e["zeros"] = [i \in DOMAIN y |-> 0]
  BY <1>1, OperandsAre
<1>5. e["zeros"] \in Array(sh)
  BY <1>3, <1>4 DEF Array
<1> QED BY <1>2, <1>3, <1>4, <1>5 DEF e

LEMMA InputsTyped ==
  ASSUME Case!CaseAssumption, NEW o \in Case!Cases, NEW sh \in Case!ShapesOf(o),
         NEW e \in Case!InputsOf(o, sh)
  PROVE  /\ DOMAIN e = Names(o)
         /\ o \in Case!Pools => e["a"] \in Picture
         /\ o \notin Case!Pools => e["a"] \in Array(sh) /\ e["b"] \in Array(sh)
         /\ o \in {"div", "idiv"} => e["b"] \in [Case!Cells(sh) -> Int \ {0}]
         /\ o \in {"idiv", "rounddown"} => e["offset"] = [i \in Case!Cells(sh) |-> 12]
         /\ o = "neg" => e["b"] \in [Case!Cells(sh) -> {0, 24}]
         /\ o = "where" => e["mask"] \in [Case!Cells(sh) -> {0, 24}]
         /\ o \in {"cmpeq", "cmpneq"} => e = Case!PartlyEqual(sh)
<1> DEFINE C == Case!Cells(sh)
<1>1. CASE o \in Case!Pools
  <2>1. Case!InputsOf(o, sh) = {Case!Operands(x, x) : x \in Images}
    BY <1>1, InputsOfPools
  <2>2. PICK x \in Images : e = Case!Operands(x, x)
    BY <2>1
  <2>3. x \in Picture
    BY DEF Picture, Case!CaseAssumption
  <2>4. DOMAIN e = {"a", "b", "zeros"} /\ e["a"] = x
    BY <2>2, OperandsAre
  <2>5. o \notin {"div", "idiv", "rounddown", "neg", "where", "cmpeq", "cmpneq"}
    BY <1>1 DEF Case!Pools
  <2> QED BY <1>1, <2>3, <2>4, <2>5 DEF Names
<1> SUFFICES ASSUME o \notin Case!Pools
             PROVE  /\ DOMAIN e = Names(o) /\ e["a"] \in Array(sh) /\ e["b"] \in Array(sh)
                    /\ o \in {"div", "idiv"} => e["b"] \in [C -> Int \ {0}]
                    /\ o \in {"idiv", "rounddown"} => e["offset"] = [i \in C |-> 12]
                    /\ o = "neg" => e["b"] \in [C -> {0, 24}]
                    /\ o = "where" => e["mask"] \in [C -> {0, 24}]
                    /\ o \in {"cmpeq", "cmpneq"} => e = Case!PartlyEqual(sh)
  BY <1>1
<1>2. /\ sh.cols \in Nat \ {0} /\ Case!Size(sh) \in Nat \ {0} /\ C = 1 .. Case!Size(sh)
      /\ 1 \in C /\ \A i \in C : i \in Int
  BY ShapesTyped
<1>3. CASE o \in {"add", "mul", "max", "minus", "relu"}
  <2>1. e \in Case!Random(sh)
    BY <1>3, InputsAre
  <2> QED BY <1>3, <2>1, RandomTyped DEF Names
<1>4. CASE o \in {"cmplt", "cmpgt"}
  <2>1. e \in Case!Ramped(sh)
    BY <1>4, InputsAre
  <2> QED BY <1>2, <1>4, <2>1, RampedTyped DEF Names
<1>5. CASE o \in {"cmpge", "cmple"}
  <2>1. e \in Case!Touching(sh)
    BY <1>5, InputsAre
  <2>2. PICK r \in Case!Ramped(sh) : e = [r EXCEPT !.b[1] = r.a[1]]
    BY <2>1 DEF Case!Touching
  <2>3. DOMAIN r = {"a", "b", "zeros"} /\ r["a"] \in Array(sh) /\ r["b"] \in Array(sh)
        /\ r.a = r["a"] /\ r.b = r["b"]
    BY <1>2, RampedTyped
  <2>4. DOMAIN e = {"a", "b", "zeros"} /\ e["a"] = r["a"]
        /\ e["b"] = [r["b"] EXCEPT ![1] = r["a"][1]]
    BY <2>2, <2>3
  <2>5. [r["b"] EXCEPT ![1] = r["a"][1]] \in Array(sh)
    BY <1>2, <2>3 DEF Array
  <2> QED BY <1>5, <2>3, <2>4, <2>5 DEF Names
<1>6. CASE o \in {"cmpeq", "cmpneq"}
  <2>1. e = Case!PartlyEqual(sh)
    BY <1>6, InputsAre
  <2> QED BY <1>2, <1>6, <2>1, PartlyEqualTyped DEF Names
<1>7. CASE o = "div"
  <2>1. PICK r \in Case!Random(sh) :
          e = [r EXCEPT !.b = [i \in C |-> IF r.b[i] = 0 THEN 24 ELSE r.b[i]]]
    BY <1>7, InputsOfDiv
  <2>2. DOMAIN r = {"a", "b", "zeros"} /\ r["a"] \in Array(sh) /\ r["b"] \in Array(sh)
        /\ r.b = r["b"]
    BY RandomTyped
  <2>3. DOMAIN e = {"a", "b", "zeros"} /\ e["a"] = r["a"]
        /\ e["b"] = [i \in C |-> IF r["b"][i] = 0 THEN 24 ELSE r["b"][i]]
    BY <2>1, <2>2
  <2>4. e["b"] \in [C -> Int \ {0}] /\ e["b"] \in Array(sh)
    BY <2>2, <2>3 DEF Array
  <2> QED BY <1>7, <2>2, <2>3, <2>4 DEF Names
<1>8. CASE o = "idiv"
  <2>1. PICK x \in [C -> {0, 36, 84, 240}], y \in [C -> {24, 2 * 24}] :
          e = Case!With(Case!Operands(x, y), "offset", [i \in C |-> 12])
    BY <1>8, InputsOfIdiv
  <2>2. x \in Array(sh) /\ y \in Array(sh) /\ y \in [C -> Int \ {0}]
    BY DEF Array
  <2> DEFINE r == Case!Operands(x, y)
  <2>3. DOMAIN r = {"a", "b", "zeros"} /\ r["a"] = x /\ r["b"] = y
    BY OperandsAre
  <2> HIDE DEF r
  <2>4. DOMAIN e = {"a", "b", "zeros", "offset"} /\ e["a"] = x /\ e["b"] = y
        /\ e["offset"] = [i \in C |-> 12]
    BY <2>1, <2>3, WithAlso DEF r
  <2> QED BY <1>8, <2>2, <2>4 DEF Names
<1>9. CASE o \in {"rounddown", "roundoff"}
  <2>1. \A x \in Case!Samples(sh) : x \in Array(sh)
    BY <1>2 DEF Case!Samples, Array
  <2>2. CASE o = "rounddown"
    <3>1. PICK x \in Case!Samples(sh) :
            e = Case!With(Case!Operands(x, x), "offset", [i \in C |-> 12])
      BY <2>2, InputsOfRounddown
    <3> DEFINE r == Case!Operands(x, x)
    <3>2. DOMAIN r = {"a", "b", "zeros"} /\ r["a"] = x /\ r["b"] = x
      BY OperandsAre
    <3> HIDE DEF r
    <3>3. DOMAIN e = {"a", "b", "zeros", "offset"} /\ e["a"] = x /\ e["b"] = x
          /\ e["offset"] = [i \in C |-> 12]
      BY <3>1, <3>2, WithAlso DEF r
    <3> QED BY <2>1, <2>2, <3>3 DEF Names
  <2>3. CASE o = "roundoff"
    <3>1. PICK x \in Case!Samples(sh) : e = Case!Operands(x, x)
      BY <2>3, InputsOfRoundoff
    <3>2. e["a"] = x /\ e["b"] = x /\ DOMAIN e = {"a", "b", "zeros"}
      BY <3>1, OperandsAre
    <3> QED BY <2>1, <2>3, <3>2 DEF Names
  <2> QED BY <1>9, <2>2, <2>3
<1>10. CASE o = "abs"
  <2>1. e = Case!Operands(Case!Ramp(sh, FALSE), Case!Ramp(sh, FALSE))
    BY <1>10, InputsOfAbs
  <2> DEFINE x == Case!Ramp(sh, FALSE)
  <2>2. x \in Array(sh)
    BY <1>2, RampTyped
  <2>3. e["a"] = x /\ e["b"] = x /\ DOMAIN e = {"a", "b", "zeros"}
    BY <2>1, OperandsAre
  <2> HIDE DEF x
  <2> QED BY <1>10, <2>2, <2>3 DEF Names
<1>11. CASE o = "neg"
  <2>1. e = Case!Operands(Bits(sh), Bits(sh))
    BY <1>11, InputsOfNeg
  <2>2. Bits(sh) \in [C -> {0, 24}] /\ Bits(sh) \in Array(sh)
    BY <1>2 DEF Array, Bits, Case!Bool, Case!One
  <2> QED BY <1>11, <2>1, <2>2, OperandsAre DEF Names
<1>12. CASE o = "where"
  <2>1. PICK r \in Case!Random(sh) : e = Case!With(r, "mask", Bits(sh))
    BY <1>12, InputsOfWhere
  <2>2. Bits(sh) \in [C -> {0, 24}]
    BY DEF Bits, Case!Bool, Case!One
  <2>3. DOMAIN r = {"a", "b", "zeros"} /\ r["a"] \in Array(sh) /\ r["b"] \in Array(sh)
    BY RandomTyped
  <2>4. DOMAIN e = {"a", "b", "zeros", "mask"} /\ e["a"] = r["a"] /\ e["b"] = r["b"]
        /\ e["mask"] = Bits(sh)
    BY <2>1, <2>3, WithAlso
  <2> QED BY <1>12, <2>2, <2>3, <2>4 DEF Names
<1>13. o \in {"add", "mul", "max", "minus", "relu", "cmplt", "cmpgt", "cmpge", "cmple", "cmpeq",
              "cmpneq", "div", "idiv", "rounddown", "roundoff", "abs", "neg", "where"}
  BY DEF Case!Cases, Case!Pools
<1> QED BY <1>3, <1>4, <1>5, <1>6, <1>7, <1>8, <1>9, <1>10, <1>11, <1>12, <1>13
-----------------------------------------------------------------------------
(* A case whose operands are those it was given and whose ops were right.  *)
Filled(o, sh, b) == \E e \in Case!InputsOf(o, sh) : \A x \in Names(o) : b[x] = e[x]

LEMMA FilledTyped ==
  ASSUME Case!CaseAssumption, NEW o \in Case!Cases, NEW sh \in Case!ShapesOf(o),
         NEW b, Filled(o, sh, b)
  PROVE  /\ o \in Case!Pools => b["a"] \in Picture
         /\ o \notin Case!Pools => b["a"] \in Array(sh) /\ b["b"] \in Array(sh)
         /\ o \in {"div", "idiv"} => b["b"] \in [Case!Cells(sh) -> Int \ {0}]
         /\ o \in {"idiv", "rounddown"} => b["offset"] = [i \in Case!Cells(sh) |-> 12]
         /\ o = "neg" => b["b"] \in [Case!Cells(sh) -> {0, 24}]
         /\ o = "where" => b["mask"] \in [Case!Cells(sh) -> {0, 24}]
         /\ o \in {"cmpeq", "cmpneq"} => b["a"] = Case!PartlyEqual(sh)["a"]
                                       /\ b["b"] = Case!PartlyEqual(sh)["b"]
<1>1. PICK e \in Case!InputsOf(o, sh) : \A x \in Names(o) : b[x] = e[x]
  BY DEF Filled
<1>2. /\ o \in Case!Pools => e["a"] \in Picture
      /\ o \notin Case!Pools => e["a"] \in Array(sh) /\ e["b"] \in Array(sh)
      /\ o \in {"div", "idiv"} => e["b"] \in [Case!Cells(sh) -> Int \ {0}]
      /\ o \in {"idiv", "rounddown"} => e["offset"] = [i \in Case!Cells(sh) |-> 12]
      /\ o = "neg" => e["b"] \in [Case!Cells(sh) -> {0, 24}]
      /\ o = "where" => e["mask"] \in [Case!Cells(sh) -> {0, 24}]
      /\ o \in {"cmpeq", "cmpneq"} => e = Case!PartlyEqual(sh)
  BY InputsTyped
<1>3. b["a"] = e["a"] /\ b["b"] = e["b"] /\ b["zeros"] = e["zeros"]
  BY <1>1 DEF Names
<1>4. o \in {"idiv", "rounddown"} => b["offset"] = e["offset"]
  BY <1>1 DEF Names
<1>5. o = "where" => b["mask"] = e["mask"]
  BY <1>1 DEF Names
<1> QED BY <1>2, <1>3, <1>4, <1>5

LEMMA FilledEqual ==
  ASSUME Case!CaseAssumption, NEW o \in {"cmpeq", "cmpneq"}, NEW sh \in Case!ShapesOf(o),
         NEW b, Filled(o, sh, b)
  PROVE  b["a"] = Case!PartlyEqual(sh)["a"] /\ b["b"] = Case!PartlyEqual(sh)["b"]
<1>1. o \in Case!Cases
  BY DEF Case!Cases
<1> QED BY <1>1, FilledTyped

LEMMA MatchesIf ==
  ASSUME NEW o, NEW sh, NEW b, NEW S, Case!Reference(o, sh, b) \in [S -> Int],
         Case!Answer(o, b["out"]) = Case!Reference(o, sh, b)
  PROVE  Case!Matches(o, sh, b) /\ Case!Close(o, Case!Answer(o, b.out), Case!Reference(o, sh, b))
<1>1. Case!Close(o, Case!Answer(o, b["out"]), Case!Reference(o, sh, b))
  BY SameIsClose
<1>2. b.out = b["out"]
  OBVIOUS
<1> QED BY <1>1, <1>2 DEF Case!Matches

LEMMA AnswerIsOutput ==
  ASSUME NEW o, o \notin Case!RampCases, NEW x
  PROVE  Case!Answer(o, x) = x
BY DEF Case!Answer

(* minus subtracts a from b, and passes for its operands exchanged.        *)
LEMMA MinusMatches ==
  ASSUME NEW sh, NEW b, {"a", "b"} \subseteq DOMAIN b, b["a"] \in Array(sh), b["b"] \in Array(sh),
         b["out"] = [i \in Case!Cells(sh) |-> b["b"][i] - b["a"][i]]
  PROVE  Case!Matches("minus", sh, b)
<1> DEFINE x == Case!Exchanged(b)
<1>1. x["a"] = b["b"] /\ x["b"] = b["a"]
  BY DEF Case!Exchanged
<1> HIDE DEF x
<1>2. Case!Reference("minus", sh, x) = [i \in Case!Cells(sh) |-> x["a"][i] - x["b"][i]]
  BY ReferenceIs
<1>3. b["out"] = Case!Reference("minus", sh, x) /\ b["out"] \in Array(sh)
  BY <1>1, <1>2 DEF Array
<1>4. Case!Close("minus", b["out"], b["out"])
  BY <1>3, SameIsClose DEF Array
<1>5. Case!Answer("minus", b["out"]) = b["out"]
  BY AnswerIsOutput DEF Case!RampCases
<1>6. b.out = b["out"]
  OBVIOUS
<1>7. Case!Close("minus", Case!Answer("minus", b.out), Case!Reference("minus", sh, x))
  BY <1>3, <1>4, <1>5, <1>6
<1> QED BY <1>7 DEF Case!Matches, x

LEMMA LengthOf ==
  LET N(o) == Len(Case!Stages(o))
  IN  /\ \A o \in {"div", "maxpool", "minpool", "globalmaxpool", "globalminpool", "avgpool",
                   "globalavgpool", "cmpneq", "add", "mul", "roundoff", "max", "minus", "neg",
                   "abs", "relu"} : N(o) = 1
      /\ \A o \in {"cmplt", "cmpgt", "cmpge", "cmple", "rounddown"} : N(o) = 2
      /\ \A o \in {"idiv", "cmpeq"} : N(o) = 3
      /\ N("where") = 4
BY StagesAre

LEMMA OpRight ==
  ASSUME Case!CaseAssumption, NEW o \in Case!Cases, NEW sh \in Case!ShapesOf(o),
         NEW b, Filled(o, sh, b), {"a", "b"} \subseteq DOMAIN b,
         \A n \in 1 .. Len(Case!Stages(o)) : Computed(o, b, n),
         o = "cmpneq" => cmpeq_last = Case!Reference("cmpeq", sh, b)
  PROVE  /\ Case!Matches(o, sh, b)
         /\ o # "minus" => Case!Close(o, Case!Answer(o, b.out), Case!Reference(o, sh, b))
<1>1. \A n \in 1 .. Len(Case!Stages(o)) : Computed(o, b, n)
  OBVIOUS
<1>2. CASE o \in {"add", "mul", "max", "abs", "relu", "roundoff"}
  <2>1. b["a"] \in Array(sh) /\ b["b"] \in Array(sh)
    BY <1>2, FilledTyped DEF Case!Pools
  <2>2. Computed(o, b, 1)
    <3>1. Len(Case!Stages(o)) = 1
      BY <1>2, LengthOf
    <3>2. 1 \in 1 .. 1
      OBVIOUS
    <3> QED BY <1>1, <3>1, <3>2
  <2>3. b["out"] \in Array(sh) /\ b["out"] = Case!Reference(o, sh, b)
    <3>1. o \in {"add", "mul", "max", "minus", "abs", "relu", "roundoff"} /\ o # "minus"
      BY <1>2
    <3> QED BY <2>1, <2>2, <3>1, OneOpRight
  <2> QED BY <1>2, <2>3, MatchesIf, AnswerIsOutput DEF Array, Case!RampCases
<1>3. CASE o = "minus"
  <2>1. b["a"] \in Array(sh) /\ b["b"] \in Array(sh)
    BY <1>3, FilledTyped DEF Case!Pools
  <2>2. Computed(o, b, 1)
    <3>1. Len(Case!Stages(o)) = 1
      BY <1>3, LengthOf
    <3>2. 1 \in 1 .. 1
      OBVIOUS
    <3> QED BY <1>1, <3>1, <3>2
  <2>3. b["out"] = [i \in Case!Cells(sh) |-> b["b"][i] - b["a"][i]]
    BY <1>3, <2>1, <2>2, OneOpRight
  <2> QED BY <1>3, <2>1, <2>3, MinusMatches
<1>4. CASE o = "div"
  <2>1. b["a"] \in Array(sh) /\ b["b"] \in [Case!Cells(sh) -> Int \ {0}]
    BY <1>4, FilledTyped DEF Case!Pools
  <2>2. Computed(o, b, 1)
    <3>1. Len(Case!Stages(o)) = 1
      BY <1>4, LengthOf
    <3>2. 1 \in 1 .. 1
      OBVIOUS
    <3> QED BY <1>1, <3>1, <3>2
  <2>3. b["out"] \in Array(sh) /\ b["out"] = Case!Reference(o, sh, b)
    BY <1>4, <2>1, <2>2, DivRight
  <2> QED BY <1>4, <2>3, MatchesIf, AnswerIsOutput DEF Array, Case!RampCases
<1>5. CASE o = "idiv"
  <2>1. b["a"] \in Array(sh) /\ b["b"] \in [Case!Cells(sh) -> Int \ {0}]
        /\ b["offset"] = [i \in Case!Cells(sh) |-> 12]
    BY <1>5, FilledTyped DEF Case!Pools
  <2>2. Computed(o, b, 1) /\ Computed(o, b, 2) /\ Computed(o, b, 3)
    <3>1. Len(Case!Stages(o)) = 3
      BY <1>5, LengthOf
    <3>2. 1 \in 1 .. 3 /\ 2 \in 1 .. 3 /\ 3 \in 1 .. 3
      OBVIOUS
    <3> QED BY <1>1, <3>1, <3>2
  <2>3. b["out"] \in Array(sh) /\ b["out"] = Case!Reference(o, sh, b)
    BY <1>5, <2>1, <2>2, IdivRight
  <2> QED BY <1>5, <2>3, MatchesIf, AnswerIsOutput DEF Array, Case!RampCases
<1>6. CASE o = "rounddown"
  <2>1. b["a"] \in Array(sh) /\ b["offset"] = [i \in Case!Cells(sh) |-> 12]
    BY <1>6, FilledTyped DEF Case!Pools
  <2>2. Computed(o, b, 1) /\ Computed(o, b, 2)
    <3>1. Len(Case!Stages(o)) = 2
      BY <1>6, LengthOf
    <3>2. 1 \in 1 .. 2 /\ 2 \in 1 .. 2
      OBVIOUS
    <3> QED BY <1>1, <3>1, <3>2
  <2>3. b["out"] \in Array(sh) /\ b["out"] = Case!Reference(o, sh, b)
    BY <1>6, <2>1, <2>2, RounddownRight
  <2> QED BY <1>6, <2>3, MatchesIf, AnswerIsOutput DEF Array, Case!RampCases
<1>7. CASE o \in {"cmplt", "cmpgt"}
  <2>1. b["a"] \in Array(sh) /\ b["b"] \in Array(sh)
    BY <1>7, FilledTyped DEF Case!Pools
  <2>2. Computed(o, b, 1) /\ Computed(o, b, 2)
    <3>1. Len(Case!Stages(o)) = 2
      BY <1>7, LengthOf
    <3>2. 1 \in 1 .. 2 /\ 2 \in 1 .. 2
      OBVIOUS
    <3> QED BY <1>1, <3>1, <3>2
  <2>3. Case!Answer(o, b["out"]) \in Array(sh)
        /\ Case!Answer(o, b["out"]) = Case!Reference(o, sh, b)
    BY <1>7, <2>1, <2>2, StrictRight
  <2> QED BY <2>3, MatchesIf DEF Array
<1>8. CASE o \in {"cmpge", "cmple"}
  <2>1. b["a"] \in Array(sh) /\ b["b"] \in Array(sh)
    BY <1>8, FilledTyped DEF Case!Pools
  <2>2. Computed(o, b, 1) /\ Computed(o, b, 2)
    <3>1. Len(Case!Stages(o)) = 2
      BY <1>8, LengthOf
    <3>2. 1 \in 1 .. 2 /\ 2 \in 1 .. 2
      OBVIOUS
    <3> QED BY <1>1, <3>1, <3>2
  <2>3. Case!Answer(o, b["out"]) \in Array(sh)
        /\ Case!Answer(o, b["out"]) = Case!Reference(o, sh, b)
    BY <1>8, <2>1, <2>2, WideRight
  <2> QED BY <2>3, MatchesIf DEF Array
<1>9. CASE o = "cmpeq"
  <2>1. b["a"] \in Array(sh) /\ b["b"] \in Array(sh)
    BY <1>9, FilledTyped DEF Case!Pools
  <2>2. Computed(o, b, 1) /\ Computed(o, b, 2) /\ Computed(o, b, 3)
    <3>1. Len(Case!Stages(o)) = 3
      BY <1>9, LengthOf
    <3>2. 1 \in 1 .. 3 /\ 2 \in 1 .. 3 /\ 3 \in 1 .. 3
      OBVIOUS
    <3> QED BY <1>1, <3>1, <3>2
  <2>3. b["out"] \in Array(sh) /\ b["out"] = Case!Reference(o, sh, b)
    BY <1>9, <2>1, <2>2, CmpeqRight
  <2> QED BY <1>9, <2>3, MatchesIf, AnswerIsOutput DEF Array, Case!RampCases
<1>10. CASE o = "cmpneq"
  <2>1. b["a"] \in Array(sh) /\ b["b"] \in Array(sh)
    BY <1>10, FilledTyped DEF Case!Pools
  <2>2. Computed(o, b, 1)
    <3>1. Len(Case!Stages(o)) = 1
      BY <1>10, LengthOf
    <3>2. 1 \in 1 .. 1
      OBVIOUS
    <3> QED BY <1>1, <3>1, <3>2
  <2>3. b["out"] \in Array(sh) /\ b["out"] = Case!Reference(o, sh, b)
    BY <1>10, <2>1, <2>2, CmpneqRight
  <2> QED BY <1>10, <2>3, MatchesIf, AnswerIsOutput DEF Array, Case!RampCases
<1>11. CASE o = "neg"
  <2>1. b["b"] \in [Case!Cells(sh) -> {0, 24}]
    BY <1>11, FilledTyped
  <2>2. Computed(o, b, 1)
    <3>1. Len(Case!Stages(o)) = 1
      BY <1>11, LengthOf
    <3>2. 1 \in 1 .. 1
      OBVIOUS
    <3> QED BY <1>1, <3>1, <3>2
  <2>3. b["out"] \in Array(sh) /\ b["out"] = Case!Reference(o, sh, b)
    BY <1>11, <2>1, <2>2, NegRight
  <2> QED BY <1>11, <2>3, MatchesIf, AnswerIsOutput DEF Array, Case!RampCases
<1>12. CASE o = "where"
  <2>1. b["a"] \in Array(sh) /\ b["b"] \in Array(sh) /\ b["mask"] \in [Case!Cells(sh) -> {0, 24}]
    BY <1>12, FilledTyped DEF Case!Pools
  <2>2. Computed(o, b, 1) /\ Computed(o, b, 2) /\ Computed(o, b, 3) /\ Computed(o, b, 4)
    <3>1. Len(Case!Stages(o)) = 4
      BY <1>12, LengthOf
    <3>2. 1 \in 1 .. 4 /\ 2 \in 1 .. 4 /\ 3 \in 1 .. 4 /\ 4 \in 1 .. 4
      OBVIOUS
    <3> QED BY <1>1, <3>1, <3>2
  <2>3. b["out"] \in Array(sh) /\ b["out"] = Case!Reference(o, sh, b)
    BY <1>12, <2>1, <2>2, WhereRight
  <2> QED BY <1>12, <2>3, MatchesIf, AnswerIsOutput DEF Array, Case!RampCases
<1>13. CASE o \in Case!Pools
  <2>1. b["a"] \in Picture
    BY <1>13, FilledTyped
  <2>2. Computed(o, b, 1)
    <3>1. Len(Case!Stages(o)) = 1
      BY <1>13, LengthOf DEF Case!Pools
    <3>2. 1 \in 1 .. 1
      OBVIOUS
    <3> QED BY <1>1, <3>1, <3>2
  <2>3. b["out"] = Case!Reference(o, sh, b) /\ \E S : b["out"] \in [S -> Int]
    <3>1. CASE o \in {"maxpool", "globalmaxpool"}
      BY <2>1, <2>2, <3>1, MaxpoolRight
    <3>2. CASE o = "minpool"
      BY <2>1, <2>2, <3>2, MinpoolRight
    <3>3. CASE o = "globalminpool"
      BY <2>1, <2>2, <3>3, GlobalminpoolRight
    <3>4. CASE o = "avgpool"
      BY <2>1, <2>2, <3>4, AvgpoolRight
    <3>5. CASE o = "globalavgpool"
      BY <2>1, <2>2, <3>5, GlobalavgpoolRight
    <3> QED BY <1>13, <3>1, <3>2, <3>3, <3>4, <3>5 DEF Case!Pools
  <2>4. PICK S : b["out"] \in [S -> Int]
    BY <2>3
  <2>5. Case!Answer(o, b["out"]) = b["out"]
    BY <1>13, AnswerIsOutput DEF Case!Pools, Case!RampCases
  <2>6. o # "minus" /\ Case!Reference(o, sh, b) \in [S -> Int]
        /\ Case!Answer(o, b["out"]) = Case!Reference(o, sh, b)
    BY <1>13, <2>3, <2>4, <2>5 DEF Case!Pools
  <2> QED BY <2>6, MatchesIf
<1> QED BY <1>2, <1>3, <1>4, <1>5, <1>6, <1>7, <1>8, <1>9, <1>10, <1>11, <1>12, <1>13
        DEF Case!Cases, Case!Pools
-----------------------------------------------------------------------------
(* The arrays there are before a stage.                                    *)
Before(o, n) == Names(o) \cup {Case!Stages(o)[m].out : m \in 1 .. (n - 1)}

(* A stage takes arrays there are and makes one there was not.             *)
Chained(o, n) ==
  LET s == Case!Stages(o)[n]
  IN  /\ s.out \notin Before(o, n) /\ s.w \in Before(o, n)
      /\ s.f # "cmpeq_last" => s.f \in Before(o, n)

LEMMA StageIs ==
  ASSUME NEW alg, NEW w, NEW f, NEW out, NEW s, s = Case!Stage(alg, w, f, out)
  PROVE  s.alg = alg /\ s.w = w /\ s.f = f /\ s.out = out
BY DEF Case!Stage

LEMMA FirstChained ==
  ASSUME NEW o \in Case!Cases
  PROVE  Chained(o, 1)
<1>1. Before(o, 1) = Names(o)
  BY DEF Before
<1>2. ASSUME NEW alg, NEW w \in {"a", "b", "zeros", "offset"}, w = "offset" => o = "rounddown",
             NEW f \in {"a", "b", "mask", "cmpeq_last"}, f = "mask" => o = "where",
             NEW out \in {"out", "div", "stage1"},
             Case!Stages(o)[1] = Case!Stage(alg, w, f, out)
      PROVE  Chained(o, 1)
  <2>1. out \notin Names(o) /\ w \in Names(o) /\ (f # "cmpeq_last" => f \in Names(o))
    BY <1>2 DEF Names
  <2> QED BY <1>1, <1>2, <2>1, StageIs DEF Chained
<1>3. CASE o = "div"
  <2>1. Case!Stages(o)[1] = Case!Stage(3, "a", "b", "out")
    BY <1>3, StagesAre
  <2> QED BY <1>2, <1>3, <2>1
<1>4. CASE o = "idiv"
  <2>1. Case!Stages(o)[1] = Case!Stage(3, "a", "b", "div")
    BY <1>4, StagesAre
  <2> QED BY <1>2, <1>4, <2>1
<1>5. CASE o = "maxpool"
  <2>1. Case!Stages(o)[1] = Case!Stage(24, "zeros", "a", "out")
    BY <1>5, StagesAre
  <2> QED BY <1>2, <1>5, <2>1
<1>6. CASE o = "minpool"
  <2>1. Case!Stages(o)[1] = Case!Stage(24, "zeros", "a", "out")
    BY <1>6, StagesAre
  <2> QED BY <1>2, <1>6, <2>1
<1>7. CASE o = "globalmaxpool"
  <2>1. Case!Stages(o)[1] = Case!Stage(25, "zeros", "a", "out")
    BY <1>7, StagesAre
  <2> QED BY <1>2, <1>7, <2>1
<1>8. CASE o = "globalminpool"
  <2>1. Case!Stages(o)[1] = Case!Stage(24, "zeros", "a", "out")
    BY <1>8, StagesAre
  <2> QED BY <1>2, <1>8, <2>1
<1>9. CASE o = "avgpool"
  <2>1. Case!Stages(o)[1] = Case!Stage(26, "zeros", "a", "out")
    BY <1>9, StagesAre
  <2> QED BY <1>2, <1>9, <2>1
<1>10. CASE o = "globalavgpool"
  <2>1. Case!Stages(o)[1] = Case!Stage(27, "zeros", "a", "out")
    BY <1>10, StagesAre
  <2> QED BY <1>2, <1>10, <2>1
<1>11. CASE o = "cmplt"
  <2>1. Case!Stages(o)[1] = Case!Stage(4, "a", "b", "stage1")
    BY <1>11, StagesAre
  <2> QED BY <1>2, <1>11, <2>1
<1>12. CASE o = "cmpgt"
  <2>1. Case!Stages(o)[1] = Case!Stage(4, "b", "a", "stage1")
    BY <1>12, StagesAre
  <2> QED BY <1>2, <1>12, <2>1
<1>13. CASE o = "cmpge"
  <2>1. Case!Stages(o)[1] = Case!Stage(4, "b", "a", "stage1")
    BY <1>13, StagesAre
  <2> QED BY <1>2, <1>13, <2>1
<1>14. CASE o = "cmple"
  <2>1. Case!Stages(o)[1] = Case!Stage(4, "a", "b", "stage1")
    BY <1>14, StagesAre
  <2> QED BY <1>2, <1>14, <2>1
<1>15. CASE o = "cmpeq"
  <2>1. Case!Stages(o)[1] = Case!Stage(4, "a", "b", "stage1")
    BY <1>15, StagesAre
  <2> QED BY <1>2, <1>15, <2>1
<1>16. CASE o = "cmpneq"
  <2>1. Case!Stages(o)[1] = Case!Stage(19, "zeros", "cmpeq_last", "out")
    BY <1>16, StagesAre
  <2> QED BY <1>2, <1>16, <2>1
<1>17. CASE o = "add"
  <2>1. Case!Stages(o)[1] = Case!Stage(2, "a", "b", "out")
    BY <1>17, StagesAre
  <2> QED BY <1>2, <1>17, <2>1
<1>18. CASE o = "mul"
  <2>1. Case!Stages(o)[1] = Case!Stage(9, "a", "b", "out")
    BY <1>18, StagesAre
  <2> QED BY <1>2, <1>18, <2>1
<1>19. CASE o = "where"
  <2>1. Case!Stages(o)[1] = Case!Stage(19, "zeros", "mask", "stage1")
    BY <1>19, StagesAre
  <2> QED BY <1>2, <1>19, <2>1
<1>20. CASE o = "rounddown"
  <2>1. Case!Stages(o)[1] = Case!Stage(4, "offset", "a", "stage1")
    BY <1>20, StagesAre
  <2> QED BY <1>2, <1>20, <2>1
<1>21. CASE o = "roundoff"
  <2>1. Case!Stages(o)[1] = Case!Stage(23, "zeros", "a", "out")
    BY <1>21, StagesAre
  <2> QED BY <1>2, <1>21, <2>1
<1>22. CASE o = "max"
  <2>1. Case!Stages(o)[1] = Case!Stage(0, "a", "b", "out")
    BY <1>22, StagesAre
  <2> QED BY <1>2, <1>22, <2>1
<1>23. CASE o = "minus"
  <2>1. Case!Stages(o)[1] = Case!Stage(4, "a", "b", "out")
    BY <1>23, StagesAre
  <2> QED BY <1>2, <1>23, <2>1
<1>24. CASE o = "neg"
  <2>1. Case!Stages(o)[1] = Case!Stage(19, "zeros", "b", "out")
    BY <1>24, StagesAre
  <2> QED BY <1>2, <1>24, <2>1
<1>25. CASE o = "abs"
  <2>1. Case!Stages(o)[1] = Case!Stage(22, "zeros", "a", "out")
    BY <1>25, StagesAre
  <2> QED BY <1>2, <1>25, <2>1
<1>26. CASE o = "relu"
  <2>1. Case!Stages(o)[1] = Case!Stage(10, "b", "a", "out")
    BY <1>26, StagesAre
  <2> QED BY <1>2, <1>26, <2>1
<1> QED BY <1>3, <1>4, <1>5, <1>6, <1>7, <1>8, <1>9, <1>10, <1>11, <1>12,
       <1>13, <1>14, <1>15, <1>16, <1>17, <1>18, <1>19, <1>20, <1>21, <1>22,
       <1>23, <1>24, <1>25, <1>26 DEF Case!Cases

LEMMA LaterChained ==
  /\ \A o \in {"cmplt", "cmpgt", "cmpge", "cmple", "rounddown"} : Chained(o, 2)
  /\ \A o \in {"idiv", "cmpeq"} : Chained(o, 2) /\ Chained(o, 3)
  /\ Chained("where", 2) /\ Chained("where", 3) /\ Chained("where", 4)
<1>1. \A o : /\ Before(o, 2) = Names(o) \cup {Case!Stages(o)[1].out}
             /\ Before(o, 3) = Names(o) \cup {Case!Stages(o)[1].out, Case!Stages(o)[2].out}
             /\ Before(o, 4) = Names(o) \cup {Case!Stages(o)[1].out, Case!Stages(o)[2].out,
                                              Case!Stages(o)[3].out}
  <2>1. 1 .. (2 - 1) = {1} /\ 1 .. (3 - 1) = {1, 2} /\ 1 .. (4 - 1) = {1, 2, 3}
    OBVIOUS
  <2> QED BY <2>1 DEF Before
<1>2. Chained("cmplt", 2)
  <2>1. /\ Case!Stages("cmplt")[1] = Case!Stage(4, "a", "b", "stage1")
        /\ Case!Stages("cmplt")[2] = Case!Stage(16, "zeros", "stage1", "out")
    BY StagesAre
  <2>2. /\ LET s == Case!Stages("cmplt")[1] IN s.w = "a" /\ s.f = "b" /\ s.out = "stage1"
        /\ LET s == Case!Stages("cmplt")[2] IN s.w = "zeros" /\ s.f = "stage1" /\ s.out = "out"
    BY <2>1 DEF Case!Stage
  <2>3. Names("cmplt") = {"a", "b", "zeros"}
    BY DEF Names
  <2> QED BY <1>1, <2>2, <2>3 DEF Chained
<1>3. Chained("cmpgt", 2)
  <2>1. /\ Case!Stages("cmpgt")[1] = Case!Stage(4, "b", "a", "stage1")
        /\ Case!Stages("cmpgt")[2] = Case!Stage(16, "zeros", "stage1", "out")
    BY StagesAre
  <2>2. /\ LET s == Case!Stages("cmpgt")[1] IN s.w = "b" /\ s.f = "a" /\ s.out = "stage1"
        /\ LET s == Case!Stages("cmpgt")[2] IN s.w = "zeros" /\ s.f = "stage1" /\ s.out = "out"
    BY <2>1 DEF Case!Stage
  <2>3. Names("cmpgt") = {"a", "b", "zeros"}
    BY DEF Names
  <2> QED BY <1>1, <2>2, <2>3 DEF Chained
<1>4. Chained("cmpge", 2)
  <2>1. /\ Case!Stages("cmpge")[1] = Case!Stage(4, "b", "a", "stage1")
        /\ Case!Stages("cmpge")[2] = Case!Stage(20, "zeros", "stage1", "out")
    BY StagesAre
  <2>2. /\ LET s == Case!Stages("cmpge")[1] IN s.w = "b" /\ s.f = "a" /\ s.out = "stage1"
        /\ LET s == Case!Stages("cmpge")[2] IN s.w = "zeros" /\ s.f = "stage1" /\ s.out = "out"
    BY <2>1 DEF Case!Stage
  <2>3. Names("cmpge") = {"a", "b", "zeros"}
    BY DEF Names
  <2> QED BY <1>1, <2>2, <2>3 DEF Chained
<1>5. Chained("cmple", 2)
  <2>1. /\ Case!Stages("cmple")[1] = Case!Stage(4, "a", "b", "stage1")
        /\ Case!Stages("cmple")[2] = Case!Stage(20, "zeros", "stage1", "out")
    BY StagesAre
  <2>2. /\ LET s == Case!Stages("cmple")[1] IN s.w = "a" /\ s.f = "b" /\ s.out = "stage1"
        /\ LET s == Case!Stages("cmple")[2] IN s.w = "zeros" /\ s.f = "stage1" /\ s.out = "out"
    BY <2>1 DEF Case!Stage
  <2>3. Names("cmple") = {"a", "b", "zeros"}
    BY DEF Names
  <2> QED BY <1>1, <2>2, <2>3 DEF Chained
<1>6. Chained("rounddown", 2)
  <2>1. /\ Case!Stages("rounddown")[1] = Case!Stage(4, "offset", "a", "stage1")
        /\ Case!Stages("rounddown")[2] = Case!Stage(23, "zeros", "stage1", "out")
    BY StagesAre
  <2>2. /\ LET s == Case!Stages("rounddown")[1] IN s.w = "offset" /\ s.f = "a" /\ s.out = "stage1"
        /\ LET s == Case!Stages("rounddown")[2] IN s.w = "zeros" /\ s.f = "stage1" /\ s.out = "out"
    BY <2>1 DEF Case!Stage
  <2>3. Names("rounddown") = {"a", "b", "zeros", "offset"}
    BY DEF Names
  <2> QED BY <1>1, <2>2, <2>3 DEF Chained
<1>7. Chained("idiv", 2) /\ Chained("idiv", 3)
  <2>1. /\ Case!Stages("idiv")[1] = Case!Stage(3, "a", "b", "div")
        /\ Case!Stages("idiv")[2] = Case!Stage(4, "offset", "div", "stage1")
        /\ Case!Stages("idiv")[3] = Case!Stage(23, "zeros", "stage1", "out")
    BY StagesAre
  <2>2. /\ LET s == Case!Stages("idiv")[1] IN s.w = "a" /\ s.f = "b" /\ s.out = "div"
        /\ LET s == Case!Stages("idiv")[2] IN s.w = "offset" /\ s.f = "div" /\ s.out = "stage1"
        /\ LET s == Case!Stages("idiv")[3] IN s.w = "zeros" /\ s.f = "stage1" /\ s.out = "out"
    BY <2>1 DEF Case!Stage
  <2>3. Names("idiv") = {"a", "b", "zeros", "offset"}
    BY DEF Names
  <2> QED BY <1>1, <2>2, <2>3 DEF Chained
<1>8. Chained("cmpeq", 2) /\ Chained("cmpeq", 3)
  <2>1. /\ Case!Stages("cmpeq")[1] = Case!Stage(4, "a", "b", "stage1")
        /\ Case!Stages("cmpeq")[2] = Case!Stage(17, "zeros", "stage1", "stage2")
        /\ Case!Stages("cmpeq")[3] = Case!Stage(18, "zeros", "stage2", "out")
    BY StagesAre
  <2>2. /\ LET s == Case!Stages("cmpeq")[1] IN s.w = "a" /\ s.f = "b" /\ s.out = "stage1"
        /\ LET s == Case!Stages("cmpeq")[2] IN s.w = "zeros" /\ s.f = "stage1" /\ s.out = "stage2"
        /\ LET s == Case!Stages("cmpeq")[3] IN s.w = "zeros" /\ s.f = "stage2" /\ s.out = "out"
    BY <2>1 DEF Case!Stage
  <2>3. Names("cmpeq") = {"a", "b", "zeros"}
    BY DEF Names
  <2> QED BY <1>1, <2>2, <2>3 DEF Chained
<1>9. Chained("where", 2) /\ Chained("where", 3) /\ Chained("where", 4)
  <2>1. /\ Case!Stages("where")[1] = Case!Stage(19, "zeros", "mask", "stage1")
        /\ Case!Stages("where")[2] = Case!Stage(9, "stage1", "b", "stage2")
        /\ Case!Stages("where")[3] = Case!Stage(9, "mask", "a", "stage3")
        /\ Case!Stages("where")[4] = Case!Stage(2, "stage3", "stage2", "out")
    BY StagesAre
  <2>2. /\ LET s == Case!Stages("where")[1] IN s.w = "zeros" /\ s.f = "mask" /\ s.out = "stage1"
        /\ LET s == Case!Stages("where")[2] IN s.w = "stage1" /\ s.f = "b" /\ s.out = "stage2"
        /\ LET s == Case!Stages("where")[3] IN s.w = "mask" /\ s.f = "a" /\ s.out = "stage3"
        /\ LET s == Case!Stages("where")[4] IN s.w = "stage3" /\ s.f = "stage2" /\ s.out = "out"
    BY <2>1 DEF Case!Stage
  <2>3. Names("where") = {"a", "b", "zeros", "mask"}
    BY DEF Names
  <2> QED BY <1>1, <2>2, <2>3 DEF Chained
<1> QED BY <1>2, <1>3, <1>4, <1>5, <1>6, <1>7, <1>8, <1>9

LEMMA StagesChained ==
  ASSUME NEW o \in Case!Cases
  PROVE  /\ Len(Case!Stages(o)) \in 1 .. 4
         /\ \A n \in 1 .. Len(Case!Stages(o)) : Chained(o, n)
<1>1. CASE Len(Case!Stages(o)) = 1
  BY <1>1, FirstChained
<1>2. CASE o \in {"cmplt", "cmpgt", "cmpge", "cmple", "rounddown"}
  <2>1. Len(Case!Stages(o)) = 2
    BY <1>2, LengthOf
  <2>2. 1 .. 2 = {1, 2}
    OBVIOUS
  <2> QED BY <1>2, <2>1, <2>2, FirstChained, LaterChained
<1>3. CASE o \in {"idiv", "cmpeq"}
  <2>1. Len(Case!Stages(o)) = 3
    BY <1>3, LengthOf
  <2>2. 1 .. 3 = {1, 2, 3}
    OBVIOUS
  <2> QED BY <1>3, <2>1, <2>2, FirstChained, LaterChained
<1>4. CASE o = "where"
  <2>1. Len(Case!Stages(o)) = 4
    BY <1>4, LengthOf
  <2>2. 1 .. 4 = {1, 2, 3, 4}
    OBVIOUS
  <2> QED BY <1>4, <2>1, <2>2, FirstChained, LaterChained
<1>5. o \notin {"cmplt", "cmpgt", "cmpge", "cmple", "rounddown", "idiv", "cmpeq", "where"}
        => Len(Case!Stages(o)) = 1
  BY LengthOf DEF Case!Cases
<1> QED BY <1>1, <1>2, <1>3, <1>4, <1>5
-----------------------------------------------------------------------------
(* cmpeq: every array has the shape of the case, and a verdict of zero     *)
(* says its answer is that of the CPU.                                     *)
LEMMA CloseIsSame ==
  ASSUME NEW S, NEW x \in [S -> Int], NEW y \in [S -> Int], Case!Close("cmpeq", x, y)
  PROVE  x = y
<1>1. \A i \in S : Case!Abs(x[i] - y[i]) <= 0
  BY DEF Case!Close
<1>2. \A i \in S : x[i] - y[i] \in Int
  OBVIOUS
<1>3. \A d \in Int : Case!Abs(d) <= 0 => d = 0
  BY Numbers
<1>4. \A i \in S : x[i] - y[i] = 0
  BY <1>1, <1>2, <1>3
<1> QED BY <1>4

LEMMA EqualOutputs ==
  ASSUME NEW sh, NEW w \in Array(sh), NEW f \in Array(sh), NEW alg \in {4, 17, 18},
         NEW y \in Case!Outputs(alg, w, f)
  PROVE  y \in Array(sh)
<1>1. \A u \in Array(sh), v \in Array(sh) : Case!Alu(alg, u, v) \in Array(sh)
  <2> TAKE u \in Array(sh), v \in Array(sh)
  <2>1. CASE alg = 4
    <3>1. Case!Alu(4, u, v) = [i \in DOMAIN v |-> v[i] - u[i]]
      BY AluIs
    <3> QED BY <2>1, <3>1 DEF Array
  <2>2. CASE alg = 17
    <3>1. Case!Alu(17, u, v) = [i \in DOMAIN v |-> Case!Bool(v[i] # 0)]
      BY AluIs
    <3>2. \A i \in DOMAIN v : Case!Bool(v[i] # 0) \in Int
      BY DEF Case!Bool, Case!One
    <3> QED BY <2>2, <3>1, <3>2 DEF Array
  <2>3. CASE alg = 18
    <3>1. Case!Alu(18, u, v) = [i \in DOMAIN v |-> Case!Larger(Case!Smaller(24 - v[i], 24), 0)]
      BY AluIs
    <3>2. \A i \in DOMAIN v : 24 - v[i] \in Int /\ 24 \in Int /\ 0 \in Int
      BY DEF Array
    <3>3. \A i \in DOMAIN v : Case!Larger(Case!Smaller(24 - v[i], 24), 0) \in Int
      BY <3>2, Numbers
    <3> QED BY <2>3, <3>1, <3>3 DEF Array
  <2> QED BY <2>1, <2>2, <2>3
<1>2. y \in {Case!Alu(alg, w, f), Case!Zeros(DOMAIN Case!Alu(alg, w, f)), Case!Alu(alg, f, w)}
  BY DEF Case!Outputs
<1>3. \A u \in Array(sh) : Case!Zeros(DOMAIN u) \in Array(sh)
  BY DEF Array, Case!Zeros
<1> QED BY <1>1, <1>2, <1>3

LEMMA LengthOfArray ==
  ASSUME NEW sh, Case!Size(sh) \in Nat, NEW x \in Array(sh)
  PROVE  Len(x) = Case!Size(sh)
<1>1. x \in [1 .. Case!Size(sh) -> Int]
  BY DEF Array, Case!Cells
<1> QED BY <1>1

LEMMA EqualStages ==
  ASSUME NEW n \in 1 .. 3
  PROVE  /\ Case!Stages("cmpeq")[n].alg \in {4, 17, 18}
         /\ Case!Stages("cmpeq")[n].f # "cmpeq_last"
<1>1. /\ Case!Stages("cmpeq")[1] = Case!Stage(4, "a", "b", "stage1")
      /\ Case!Stages("cmpeq")[2] = Case!Stage(17, "zeros", "stage1", "stage2")
      /\ Case!Stages("cmpeq")[3] = Case!Stage(18, "zeros", "stage2", "out")
  BY StagesAre
<1>2. n \in {1, 2, 3}
  OBVIOUS
<1> QED BY <1>1, <1>2 DEF Case!Stage

LEMMA SameReference ==
  ASSUME NEW sh, NEW b, NEW e, b["a"] = e["a"], b["b"] = e["b"]
  PROVE  Case!Reference("cmpeq", sh, b) = Case!Reference("cmpeq", sh, e)
BY ReferenceIs

-----------------------------------------------------------------------------
(* What is kept of a case. Equal is what cmpeq has to find.                *)
Equal(sh) == Case!Reference("cmpeq", sh, Case!PartlyEqual(sh))

Going ==
  /\ shape \in Case!ShapesOf(op)
  /\ k <= Len(Case!Stages(op)) + 1
  /\ DOMAIN buf = Before(op, k)
  /\ Filled(op, shape, buf)
  /\ right => \A n \in 1 .. (k - 1) : Computed(op, buf, n)
  /\ op = "cmpeq" => \A x \in DOMAIN buf : buf[x] \in Array(shape)
  /\ op = "cmpneq" => cmpeq_last = Equal(shape)
  /\ caller = "cmpneq" => op = "cmpeq"

Compared ==
  caller = "cmpneq" =>
    /\ op = "cmpeq" /\ shape \in Case!ShapesOf("cmpeq")
    /\ Case!CmpeqServes => cmpeq_last = Equal(shape)

CaseInv ==
  /\ Case!TypeOK
  /\ case_pc = "stage" => Going
  /\ case_pc = "done" => Compared

(* The static cmpeq_last apart, Computed is about its arguments.           *)
LEMMA ComputedStays ==
  ASSUME UNCHANGED cmpeq_last
  PROVE  \A o, b, n : Computed(o, b, n)' <=> Computed(o, b, n)
BY DEF Computed, InputOf

LEMMA ComputedOf ==
  ASSUME NEW o, NEW n \in Nat, NEW b, NEW c, NEW D,
         Chained(o, n), Before(o, n) \subseteq D, Case!Stages(o)[n].out \in D,
         \A x \in D : c[x] = b[x], Computed(o, b, n)
  PROVE  Computed(o, c, n)
<1> DEFINE s == Case!Stages(o)[n]
<1>1. c[s.out] = b[s.out] /\ c[s.w] = b[s.w]
  BY DEF Chained
<1>2. s.f # "cmpeq_last" => c[s.f] = b[s.f]
  BY DEF Chained
<1>3. InputOf(o, c, s) = InputOf(o, b, s)
  BY <1>2 DEF InputOf
<1> QED BY <1>1, <1>3 DEF Computed

LEMMA BeforeGrows ==
  ASSUME NEW o, NEW n \in Nat \ {0}
  PROVE  /\ Before(o, n + 1) = Before(o, n) \cup {Case!Stages(o)[n].out}
         /\ \A m \in 1 .. (n - 1) : Before(o, m) \subseteq Before(o, n)
                                   /\ Case!Stages(o)[m].out \in Before(o, n)
<1>1. 1 .. ((n + 1) - 1) = (1 .. (n - 1)) \cup {n}
  OBVIOUS
<1>2. \A m \in 1 .. (n - 1) : 1 .. (m - 1) \subseteq 1 .. (n - 1)
  OBVIOUS
<1> QED BY <1>1, <1>2 DEF Before

LEMMA StartGoes ==
  ASSUME Case!CaseAssumption, NEW o \in Case!Cases, NEW sh \in Case!ShapesOf(o),
         NEW e \in Case!InputsOf(o, sh)
  PROVE  /\ DOMAIN e = Before(o, 1) /\ Filled(o, sh, e) /\ 1 <= Len(Case!Stages(o)) + 1
         /\ o = "cmpeq" => \A x \in DOMAIN e : e[x] \in Array(sh)
<1>1. DOMAIN e = Names(o) /\ (o \in {"cmpeq", "cmpneq"} => e = Case!PartlyEqual(sh))
  BY InputsTyped
<1>2. 1 .. (1 - 1) = {}
  OBVIOUS
<1>3. DOMAIN e = Before(o, 1)
  BY <1>1, <1>2 DEF Before
<1>4. Filled(o, sh, e)
  BY DEF Filled
<1>5. ASSUME o = "cmpeq" PROVE \A x \in DOMAIN e : e[x] \in Array(sh)
  <2>1. sh.cols \in Nat \ {0} /\ Case!Size(sh) \in Nat \ {0}
    BY <1>5, ShapesTyped DEF Case!Pools
  <2>2. e["a"] \in Array(sh) /\ e["b"] \in Array(sh) /\ e["zeros"] \in Array(sh)
    BY <1>1, <1>5, <2>1, PartlyEqualTyped
  <2> QED BY <1>1, <1>5, <2>2 DEF Names
<1>6. 1 <= Len(Case!Stages(o)) + 1
  BY StagesChained
<1> QED BY <1>3, <1>4, <1>5, <1>6

(* The inputs and shapes of cmpneq are those of cmpeq.                     *)
LEMMA CmpneqAsCmpeq ==
  /\ Case!ShapesOf("cmpneq") = Case!ShapesOf("cmpeq")
  /\ \A sh : Case!InputsOf("cmpneq", sh) = Case!InputsOf("cmpeq", sh)
<1>1. Case!ShapesOf("cmpneq") = Case!ShapesOf("cmpeq")
  BY DEF Case!ShapesOf, Case!Pools
<1>2. \A sh : Case!InputsOf("cmpneq", sh) = Case!InputsOf("cmpeq", sh)
  BY InputsAre
<1> QED BY <1>1, <1>2

(* A stage leaves the operands as they were.                               *)
LEMMA FilledStays ==
  ASSUME NEW o, NEW sh, NEW n, NEW b, Filled(o, sh, b), NEW c,
         \A y \in Before(o, n) : c[y] = b[y]
  PROVE  Filled(o, sh, c)
<1>1. Names(o) \subseteq Before(o, n)
  BY DEF Before
<1> QED BY <1>1 DEF Filled

LEMMA StageComputes ==
  ASSUME NEW o \in Case!Cases, NEW n \in 1 .. Len(Case!Stages(o)), NEW b, NEW c,
         \A y \in Before(o, n) : c[y] = b[y],
         \A m \in 1 .. (n - 1) : Computed(o, b, m),
         LET s == Case!Stages(o)[n]
         IN  c[s.out] = Case!Reworked(o, s.alg, Case!Alu(s.alg, b[s.w], InputOf(o, b, s)))
  PROVE  \A m \in 1 .. n : Computed(o, c, m)
<1>1. \A y \in Before(o, n) : c[y] = b[y]
  OBVIOUS
<1>2. ASSUME NEW m \in 1 .. (n - 1) PROVE Computed(o, c, m)
  <2>1. m \in Nat /\ Chained(o, m) /\ Computed(o, b, m)
    BY StagesChained
  <2>2. Before(o, m) \subseteq Before(o, n) /\ Case!Stages(o)[m].out \in Before(o, n)
    BY BeforeGrows
  <2> QED BY <1>1, <2>1, <2>2, ComputedOf
<1>3. Computed(o, c, n)
  <2> DEFINE s == Case!Stages(o)[n]
  <2>1. Chained(o, n)
    BY StagesChained
  <2>2. c[s.w] = b[s.w] /\ (s.f # "cmpeq_last" => c[s.f] = b[s.f])
    BY <1>1, <2>1 DEF Chained
  <2>3. InputOf(o, c, s) = InputOf(o, b, s)
    BY <2>2 DEF InputOf
  <2>4. c[s.out] = Case!Reworked(o, s.alg, Case!Alu(s.alg, b[s.w], InputOf(o, b, s)))
    OBVIOUS
  <2> QED BY <2>2, <2>3, <2>4 DEF Computed
<1> QED BY <1>2, <1>3

LEMMA EqualStageGoes ==
  ASSUME NEW sh, NEW n \in 1 .. 3, NEW b, DOMAIN b = Before("cmpeq", n),
         \A x \in DOMAIN b : b[x] \in Array(sh),
         NEW y, LET s == Case!Stages("cmpeq")[n]
                IN  y \in Case!Outputs(s.alg, b[s.w], InputOf("cmpeq", b, s)),
         NEW alg
  PROVE  Case!Reworked("cmpeq", alg, y) \in Array(sh)
<1> DEFINE s == Case!Stages("cmpeq")[n]
<1>1. Len(Case!Stages("cmpeq")) = 3
  BY LengthOf
<1>2. Chained("cmpeq", n)
  BY <1>1, StagesChained DEF Case!Cases
<1>3. s.alg \in {4, 17, 18} /\ s.f # "cmpeq_last"
  BY EqualStages
<1>4. b[s.w] \in Array(sh) /\ b[s.f] \in Array(sh)
  BY <1>2, <1>3 DEF Chained
<1>5. InputOf("cmpeq", b, s) = b[s.f]
  BY <1>3 DEF InputOf, Case!Fed
<1>6. y \in Array(sh)
  BY <1>3, <1>4, <1>5, EqualOutputs
<1>7. Case!Reworked("cmpeq", alg, y) = y
  BY DEF Case!Reworked
<1> QED BY <1>6, <1>7

LEMMA StartCaseKeeps ==
  ASSUME Case!CaseAssumption, CaseInv, Case!StartCase
  PROVE  CaseInv'
<1>1. PICK o \in Case!Cases : \E sh \in Case!ShapesOf(o) :
        /\ op' = IF o = "cmpneq" THEN "cmpeq" ELSE o
        /\ caller' = IF o = "cmpneq" THEN "cmpneq" ELSE "main"
        /\ shape' = sh
        /\ buf' \in Case!InputsOf(o, sh)
  BY DEF Case!StartCase
<1>2. PICK sh \in Case!ShapesOf(o) :
        /\ op' = IF o = "cmpneq" THEN "cmpeq" ELSE o
        /\ caller' = IF o = "cmpneq" THEN "cmpneq" ELSE "main"
        /\ shape' = sh
        /\ buf' \in Case!InputsOf(o, sh)
  BY <1>1
<1> DEFINE p == IF o = "cmpneq" THEN "cmpeq" ELSE o
<1>3. p \in Case!Cases /\ sh \in Case!ShapesOf(p) /\ p # "cmpneq" /\ (o = "cmpneq" => p = "cmpeq")
  BY CmpneqAsCmpeq DEF Case!Cases
<1>4. PICK e \in Case!InputsOf(p, sh) : buf' = e
  BY <1>2, CmpneqAsCmpeq
<1>5. op' = p /\ shape' = sh
  BY <1>2
<1> HIDE DEF p
<1>6. /\ DOMAIN e = Before(p, 1) /\ Filled(p, sh, e) /\ 1 <= Len(Case!Stages(p)) + 1
      /\ p = "cmpeq" => \A x \in DOMAIN e : e[x] \in Array(sh)
  BY <1>3, StartGoes
<1>7. case_pc' = "stage" /\ k' = 1 /\ verdict' = 0 /\ right' = TRUE
      /\ UNCHANGED <<case_status, cmpeq_last, cmpeq_last_size>>
  BY DEF Case!StartCase
<1>8. caller' \in {"main", "cmpneq"} /\ (caller' = "cmpneq" => p = "cmpeq")
  BY <1>2, <1>3
<1>9. Case!TypeOK'
  BY <1>3, <1>5, <1>7, <1>8 DEF CaseInv, Case!TypeOK
<1>10. Going'
  <2>1. 1 .. (1 - 1) = {}
    OBVIOUS
  <2> QED BY <1>3, <1>4, <1>5, <1>6, <1>7, <1>8, <2>1 DEF Going
<1> QED BY <1>7, <1>9, <1>10 DEF CaseInv

LEMMA GiveUpKeeps ==
  ASSUME CaseInv, Case!GiveUp
  PROVE  CaseInv'
<1>1. Case!TypeOK'
  BY DEF CaseInv, Case!TypeOK, Case!GiveUp
<1>2. case_pc' = "done" /\ verdict' = -1 /\ Going /\ UNCHANGED <<op, caller, shape>>
  BY DEF CaseInv, Case!GiveUp
<1>3. -1 # 0
  OBVIOUS
<1>4. Compared'
  BY <1>2, <1>3 DEF Compared, Going, Case!CmpeqServes
<1> QED BY <1>1, <1>2, <1>4 DEF CaseInv

LEMMA RunStageKeeps ==
  ASSUME Case!CaseAssumption, CaseInv, Case!RunStage
  PROVE  CaseInv'
<1> DEFINE s == Case!Stages(op)[k]
           input == InputOf(op, buf, s)
<1>1. PICK y \in Case!Outputs(s.alg, buf[s.w], input) :
        /\ buf' = Case!With(buf, s.out, Case!Reworked(op, s.alg, y))
        /\ right' = (right /\ y = Case!Alu(s.alg, buf[s.w], input))
  BY DEF Case!RunStage, InputOf
<1>2. /\ case_pc = "stage" /\ k <= Len(Case!Stages(op)) /\ k' = k + 1
      /\ UNCHANGED <<case_pc, op, caller, shape, verdict, case_status, cmpeq_last, cmpeq_last_size>>
  BY DEF Case!RunStage
<1>3. Case!TypeOK /\ Going
  BY <1>2 DEF CaseInv
<1>4. op \in Case!Cases /\ k \in 1 .. 5 /\ Len(Case!Stages(op)) \in 1 .. 4
  BY <1>3, StagesChained DEF Case!TypeOK
<1>5. k \in 1 .. Len(Case!Stages(op)) /\ k' \in 1 .. 5 /\ k' <= Len(Case!Stages(op)) + 1
      /\ k' - 1 = k /\ k \in Nat \ {0}
  BY <1>2, <1>4
<1>6. PICK c : c = buf'
  OBVIOUS
<1>7. /\ shape \in Case!ShapesOf(op) /\ DOMAIN buf = Before(op, k) /\ Filled(op, shape, buf)
      /\ right => \A n \in 1 .. (k - 1) : Computed(op, buf, n)
      /\ op = "cmpeq" => \A x \in DOMAIN buf : buf[x] \in Array(shape)
      /\ op = "cmpneq" => cmpeq_last = Equal(shape)
      /\ caller = "cmpneq" => op = "cmpeq"
  BY <1>3 DEF Going
<1>8. /\ DOMAIN c = Before(op, k + 1) /\ Filled(op, shape, c)
      /\ c[s.out] = Case!Reworked(op, s.alg, y)
      /\ \A x \in Before(op, k) : c[x] = buf[x]
  <2>1. PICK x : x = Case!Reworked(op, s.alg, y)
    OBVIOUS
  <2>2. PICK out : out = s.out
    OBVIOUS
  <2>3. c = Case!With(buf, out, x)
    BY <1>1, <1>6, <2>1, <2>2
  <2>4. /\ DOMAIN c = Before(op, k + 1) /\ c[out] = x
        /\ \A z \in Before(op, k) : c[z] = buf[z]
    <3>1. DOMAIN buf = Before(op, k) /\ Chained(op, k)
      BY <1>4, <1>5, <1>7, StagesChained
    <3>2. out \notin DOMAIN buf /\ Before(op, k + 1) = Before(op, k) \cup {out}
      BY <1>5, <2>2, <3>1, BeforeGrows DEF Chained
    <3>3. DOMAIN c = DOMAIN buf \cup {out} /\ c[out] = x /\ \A z \in DOMAIN buf : c[z] = buf[z]
      BY <2>3, <3>2 DEF Case!With
    <3> QED BY <3>1, <3>2, <3>3
  <2>5. Filled(op, shape, c)
    BY <1>7, <2>4, FilledStays
  <2> QED BY <2>1, <2>2, <2>4, <2>5
<1>9. right' => \A n \in 1 .. k : Computed(op, c, n)
  <2> SUFFICES ASSUME right' PROVE \A n \in 1 .. k : Computed(op, c, n)
    OBVIOUS
  <2>1. right /\ y = Case!Alu(s.alg, buf[s.w], input)
    BY <1>1
  <2>2. \A n \in 1 .. (k - 1) : Computed(op, buf, n)
    BY <1>7, <2>1
  <2>3. c[s.out] = Case!Reworked(op, s.alg, Case!Alu(s.alg, buf[s.w], InputOf(op, buf, s)))
    BY <1>8, <2>1
  <2> QED BY <1>4, <1>5, <1>8, <2>2, <2>3, StageComputes
<1>10. op = "cmpeq" => \A x \in DOMAIN c : c[x] \in Array(shape)
  <2> SUFFICES ASSUME op = "cmpeq" PROVE \A x \in DOMAIN c : c[x] \in Array(shape)
    OBVIOUS
  <2>1. k \in 1 .. 3
    BY <1>5, LengthOf
  <2>2. Case!Reworked("cmpeq", s.alg, y) \in Array(shape)
    BY <1>1, <1>7, <2>1, EqualStageGoes
  <2>3. DOMAIN c = Before(op, k) \cup {s.out}
    BY <1>5, <1>8, BeforeGrows
  <2> QED BY <1>7, <1>8, <2>2, <2>3
<1>11. right' \in BOOLEAN
  BY <1>1
<1>12. Case!TypeOK'
  BY <1>2, <1>3, <1>5, <1>11 DEF Case!TypeOK
<1>13. \A n \in 1 .. k : Computed(op, c, n) => Computed(op, buf, n)'
  BY <1>2, <1>6 DEF Computed, InputOf
<1>14. Going'
  <2> HIDE DEF s, input
  <2>1. right' => \A n \in 1 .. (k' - 1) : Computed(op, buf, n)'
    BY <1>5, <1>9, <1>13
  <2> QED BY <1>2, <1>5, <1>6, <1>7, <1>8, <1>10, <2>1 DEF Going
<1> QED BY <1>2, <1>12, <1>14 DEF CaseInv

LEMMA CompareKeeps ==
  ASSUME Case!CaseAssumption, CaseInv, Case!Compare
  PROVE  CaseInv'
<1>1. /\ case_pc = "stage" /\ case_pc' = "done" /\ k = Len(Case!Stages(op)) + 1
      /\ verdict' = IF Case!Matches(op, shape, buf) THEN 0 ELSE -1
      /\ IF op = "cmpeq" THEN Case!KeepLast ELSE UNCHANGED <<cmpeq_last, cmpeq_last_size>>
      /\ UNCHANGED <<op, caller, shape, k, right, case_status>>
  BY DEF Case!Compare
<1>2. Case!TypeOK /\ Going
  BY <1>1 DEF CaseInv
<1>3. ASSUME op = "cmpeq"
      PROVE  /\ buf["out"] \in Array(shape) /\ Len(buf["out"]) = Case!Size(shape)
             /\ Case!Matches(op, shape, buf) => buf["out"] = Equal(shape)
  <2>1. /\ shape \in Case!ShapesOf("cmpeq") /\ Filled("cmpeq", shape, buf)
        /\ DOMAIN buf = Before("cmpeq", 4) /\ \A x \in DOMAIN buf : buf[x] \in Array(shape)
    <3>1. k = 4
      <4>1. Len(Case!Stages(op)) = 3
        BY <1>3, LengthOf
      <4> QED BY <1>1, <4>1
    <3> QED BY <1>2, <1>3, <3>1 DEF Going
  <2>2. Case!Size(shape) \in Nat \ {0} /\ shape.cols \in Nat \ {0}
    BY <2>1, ShapesTyped DEF Case!Pools, Case!Cases
  <2>3. "out" \in Before("cmpeq", 4)
    <3>1. Case!Stages("cmpeq")[3] = Case!Stage(18, "zeros", "stage2", "out")
      BY StagesAre
    <3>2. 3 \in 1 .. (4 - 1)
      OBVIOUS
    <3>3. Case!Stages("cmpeq")[3].out = "out"
      BY <3>1 DEF Case!Stage
    <3> QED BY <3>2, <3>3 DEF Before
  <2>4. buf["out"] \in Array(shape)
    BY <2>1, <2>3
  <2>5. Len(buf["out"]) = Case!Size(shape)
    BY <2>2, <2>4, LengthOfArray
  <2>6. buf["a"] = Case!PartlyEqual(shape)["a"] /\ buf["b"] = Case!PartlyEqual(shape)["b"]
    BY <2>1, FilledEqual
  <2>7. Case!Reference("cmpeq", shape, buf) = Equal(shape)
    BY <2>6, SameReference DEF Equal
  <2>8. Equal(shape) \in Array(shape)
    <3> DEFINE e == Case!PartlyEqual(shape)
    <3>1. Equal(shape) = [i \in Case!Cells(shape) |-> Case!Bool(e["a"][i] = e["b"][i])]
      BY ReferenceIs DEF Equal
    <3>2. \A i \in Case!Cells(shape) : Case!Bool(e["a"][i] = e["b"][i]) \in Int
      BY DEF Case!Bool, Case!One
    <3> QED BY <3>1, <3>2 DEF Array
  <2>9. ASSUME Case!Matches("cmpeq", shape, buf) PROVE buf["out"] = Equal(shape)
    <3>1. Case!Close("cmpeq", Case!Answer("cmpeq", buf["out"]), Case!Reference("cmpeq", shape, buf))
      <4>1. buf.out = buf["out"]
        OBVIOUS
      <4> QED BY <2>9, <4>1 DEF Case!Matches, Case!RampCases
    <3>2. Case!Answer("cmpeq", buf["out"]) = buf["out"]
      BY AnswerIsOutput DEF Case!RampCases
    <3> QED BY <2>4, <2>7, <2>8, <3>1, <3>2, CloseIsSame DEF Array
  <2> QED BY <1>3, <2>4, <2>5, <2>9
<1>4. cmpeq_last_size' = Len(cmpeq_last')
  <2>1. CASE op = "cmpeq"
    <3>1. buf.out = buf["out"]
      OBVIOUS
    <3>2. Len(<<>>) = 0
      OBVIOUS
    <3> QED BY <1>1, <1>3, <2>1, <3>1, <3>2 DEF Case!KeepLast, Case!None
  <2>2. CASE op # "cmpeq"
    BY <1>1, <1>2, <2>2 DEF Case!TypeOK
  <2> QED BY <2>1, <2>2
<1>5. Case!TypeOK'
  <2>1. verdict' \in {0, -1}
    BY <1>1
  <2> QED BY <1>1, <1>2, <1>4, <2>1 DEF Case!TypeOK
<1>6. Compared'
  <2> SUFFICES ASSUME caller' = "cmpneq"
               PROVE  /\ op' = "cmpeq" /\ shape' \in Case!ShapesOf("cmpeq")
                      /\ Case!CmpeqServes' => cmpeq_last' = Equal(shape')
    BY DEF Compared
  <2>1. op = "cmpeq" /\ shape \in Case!ShapesOf("cmpeq")
    BY <1>1, <1>2 DEF Going
  <2>2. ASSUME Case!CmpeqServes' PROVE cmpeq_last' = Equal(shape')
    <3>1. verdict' = 0 /\ cmpeq_last' # <<>>
      BY <2>2 DEF Case!CmpeqServes, Case!None
    <3>2. Case!Matches(op, shape, buf)
      BY <1>1, <3>1
    <3>3. cmpeq_last' = buf["out"]
      <4>1. buf.out = buf["out"]
        OBVIOUS
      <4> QED BY <1>1, <2>1, <3>1, <4>1 DEF Case!KeepLast, Case!None
    <3> QED BY <1>1, <1>3, <2>1, <3>2, <3>3
  <2> QED BY <1>1, <2>1, <2>2
<1> QED BY <1>1, <1>5, <1>6 DEF CaseInv

LEMMA CmpneqKeeps ==
  ASSUME Case!CaseAssumption, CaseInv, Case!Cmpneq
  PROVE  CaseInv'
<1>1. /\ case_pc = "done" /\ caller = "cmpneq" /\ op' = "cmpneq" /\ caller' = "main"
      /\ UNCHANGED <<shape, right, case_status, cmpeq_last, cmpeq_last_size>>
  BY DEF Case!Cmpneq
<1>2. Case!TypeOK /\ Compared
  BY <1>1 DEF CaseInv
<1>3. shape \in Case!ShapesOf("cmpneq") /\ (Case!CmpeqServes => cmpeq_last = Equal(shape))
  BY <1>1, <1>2, CmpneqAsCmpeq DEF Compared
<1>4. "cmpneq" \in Case!Cases
  BY DEF Case!Cases
<1>5. CASE Case!CmpeqServes
  <2>1. PICK e \in Case!InputsOf("cmpneq", shape) : buf' = e
    BY <1>5 DEF Case!Cmpneq
  <2>2. case_pc' = "stage" /\ k' = 1 /\ UNCHANGED verdict
    BY <1>5 DEF Case!Cmpneq
  <2>3. DOMAIN e = Before("cmpneq", 1) /\ Filled("cmpneq", shape, e)
        /\ 1 <= Len(Case!Stages("cmpneq")) + 1
    BY <1>3, <1>4, StartGoes
  <2>4. Case!TypeOK'
    BY <1>1, <1>2, <1>4, <2>2 DEF Case!TypeOK
  <2>5. Going'
    <3>1. 1 .. (1 - 1) = {}
      OBVIOUS
    <3> QED BY <1>1, <1>3, <1>5, <2>1, <2>2, <2>3, <3>1 DEF Going
  <2> QED BY <2>2, <2>4, <2>5 DEF CaseInv
<1>6. CASE ~Case!CmpeqServes
  <2>1. verdict' = -1 /\ UNCHANGED <<case_pc, buf, k>>
    BY <1>6 DEF Case!Cmpneq
  <2>2. Case!TypeOK'
    BY <1>1, <1>2, <1>4, <2>1 DEF Case!TypeOK
  <2>3. Compared'
    BY <1>1 DEF Compared
  <2> QED BY <1>1, <2>1, <2>2, <2>3 DEF CaseInv
<1> QED BY <1>5, <1>6

LEMMA ReturnKeeps ==
  ASSUME CaseInv, Case!Return
  PROVE  CaseInv'
<1>1. case_pc' = "idle"
  BY DEF Case!Return
<1>2. "add" \in Case!Cases
  BY DEF Case!Cases
<1>3. Case!TypeOK'
  BY <1>2 DEF CaseInv, Case!TypeOK, Case!Return
<1> QED BY <1>1, <1>3 DEF CaseInv

LEMMA CaseStarts ==
  ASSUME Case!Init
  PROVE  CaseInv
<1>1. "add" \in Case!Cases /\ Len(<<>>) = 0
  BY DEF Case!Cases
<1>2. Case!TypeOK
  BY <1>1 DEF Case!Init, Case!TypeOK, Case!None
<1> QED BY <1>2 DEF CaseInv, Case!Init

LEMMA CaseSafe ==
  ASSUME Case!CaseAssumption, CaseInv
  PROVE  Case!RightIsAccepted /\ Case!CmpneqWorksOnItsCmpeq
<1>1. ASSUME case_pc = "stage"
      PROVE  /\ op \in Case!Cases /\ shape \in Case!ShapesOf(op) /\ DOMAIN buf = Before(op, k)
             /\ Filled(op, shape, buf) /\ {"a", "b"} \subseteq DOMAIN buf
             /\ op = "cmpneq" => cmpeq_last = Case!Reference("cmpeq", shape, buf)
  <2>1. op \in Case!Cases /\ shape \in Case!ShapesOf(op) /\ DOMAIN buf = Before(op, k)
        /\ Filled(op, shape, buf) /\ (op = "cmpneq" => cmpeq_last = Equal(shape))
    BY <1>1 DEF CaseInv, Going, Case!TypeOK
  <2>2. {"a", "b"} \subseteq DOMAIN buf
    BY <2>1 DEF Before, Names
  <2>3. ASSUME op = "cmpneq" PROVE cmpeq_last = Case!Reference("cmpeq", shape, buf)
    <3>1. buf["a"] = Case!PartlyEqual(shape)["a"] /\ buf["b"] = Case!PartlyEqual(shape)["b"]
      BY <2>1, <2>3, FilledEqual
    <3> QED BY <2>1, <2>3, <3>1, SameReference DEF Equal
  <2> QED BY <2>1, <2>2, <2>3
<1>2. Case!CmpneqWorksOnItsCmpeq
  BY <1>1 DEF Case!CmpneqWorksOnItsCmpeq
<1>3. ASSUME case_pc = "stage", right, k = Len(Case!Stages(op)) + 1
      PROVE  /\ Case!Matches(op, shape, buf)
             /\ op # "minus" => Case!Close(op, Case!Answer(op, buf.out),
                                             Case!Reference(op, shape, buf))
  <2>1. \A n \in 1 .. (k - 1) : Computed(op, buf, n)
    BY <1>3 DEF CaseInv, Going
  <2>2. Len(Case!Stages(op)) \in 1 .. 4
    BY <1>1, <1>3, StagesChained
  <2>3. k - 1 = Len(Case!Stages(op))
    BY <1>3, <2>2
  <2>4. \A n \in 1 .. Len(Case!Stages(op)) : Computed(op, buf, n)
    BY <2>1, <2>3
  <2> QED BY <1>1, <1>3, <2>4, OpRight
<1> QED BY <1>2, <1>3 DEF Case!RightIsAccepted

(***************************************************************************)
(* Every case of ops_reg accepts what its stages and host steps make of    *)
(* its operands on an NPU that computes right, and its answer is then the  *)
(* CPU's; cmpneq negates the answer of the cmpeq it ran itself.            *)
(***************************************************************************)
THEOREM CasesAreSound == ElementwiseSpec => []CasesSound
<1> DEFINE Inv == process = "case" => CaseInv
<1>1. ElementwiseInit => Inv
  BY CaseStarts DEF ElementwiseInit
<1>2. Inv /\ [ElementwiseNext]_<<process, vars, caseVars, lutVars, minmaxVars>> => Inv'
  <2> SUFFICES ASSUME Inv, [ElementwiseNext]_<<process, vars, caseVars, lutVars, minmaxVars>>,
                      process' = "case"
               PROVE  CaseInv'
    OBVIOUS
  <2>1. CASE process = "case" /\ Case!Next
    <3>1. Case!CaseAssumption /\ CaseInv
      BY <2>1, ElementwiseAssumption
    <3> QED BY <2>1, <3>1, StartCaseKeeps, GiveUpKeeps, RunStageKeeps, CompareKeeps, CmpneqKeeps,
               ReturnKeeps DEF Case!Next
  <2>2. CASE UNCHANGED <<process, caseVars>>
    <3>1. CaseInv
      BY <2>2
    <3>2. UNCHANGED <<case_pc, op, caller, shape, buf, k, verdict, right, case_status, cmpeq_last,
                      cmpeq_last_size>>
      BY <2>2 DEF caseVars
    <3> QED BY <3>1, <3>2 DEF CaseInv, Case!TypeOK, Going, Compared, Computed, InputOf,
                Case!CmpeqServes
  <2>3. CASE process' # "case"
    BY <2>3
  <2>4. (process = "case" /\ Case!Next) \/ UNCHANGED <<process, caseVars>> \/ process' # "case"
    BY DEF ElementwiseNext
  <2> QED BY <2>1, <2>2, <2>3, <2>4
<1>3. Inv => CasesSound
  BY CaseSafe, ElementwiseAssumption DEF CasesSound, CaseInv
<1> QED BY <1>1, <1>2, <1>3, PTL DEF ElementwiseSpec

-----------------------------------------------------------------------------
(* LutCase: the static tables of the look-up ops.                          *)

Digits(digit, a, m) ==
  digit = [n \in 0..10 |->
    IF n = 0 THEN <<a \div m, a % m>>
    ELSE LET d == digit[n - 1]
         IN  <<(4 * d[1]) + ((4 * d[2]) \div m), (4 * d[2]) % m>>]

LEMMA DigitOf ==
  ASSUME NEW m \in Nat \ {0}, NEW x \in Int, NEW y \in Int
  PROVE  <<(4 * x) + ((4 * y) \div m), (4 * y) % m>> \in Int \X Int
<1>1. 4 * y \in Int
  OBVIOUS
<1>2. (4 * y) \div m \in Int /\ (4 * y) % m \in Int
  BY <1>1, DivModInt
<1> QED BY <1>2

LEMMA ZeroDivided ==
  ASSUME NEW m \in Nat \ {0}
  PROVE  0 \div m = 0 /\ 0 % m = 0
<1>1. 0 * m + 0 = 0 /\ 0 \in 0 .. (m - 1)
  OBVIOUS
<1>2. (0 * m + 0) \div m = 0 /\ (0 * m + 0) % m = 0
  BY <1>1, DivModUnique
<1> QED BY <1>1, <1>2

(* A quotient, digit by digit: a number, and zero of zero.                 *)
LEMMA RatioIs ==
  ASSUME NEW a \in Int, NEW m \in Nat \ {0}
  PROVE  Lut!Ratio(a, m) \in Int /\ (a = 0 => Lut!Ratio(a, m) = 0)
<1> DEFINE S == Int \X Int
           Round == [c \in 1 .. 10 |-> [d \in S |->
                       <<(4 * d[1]) + ((4 * d[2]) \div m), (4 * d[2]) % m>>]]
<1>1. \A c \in 1 .. 10 : \A d \in S : Round[c][d] \in S
  BY DigitOf
<1>2. <<a \div m, a % m>> \in S
  <2>1. a \div m \in Int /\ a % m \in Int
    BY DivModInt
  <2> QED BY <2>1
<1>3. PICK g \in [0 .. 10 -> S] :
        \A c \in 0 .. 10 : g[c] = IF c = 0 THEN <<a \div m, a % m>> ELSE Round[c][g[c - 1]]
  <2>1. HasValues(S, <<a \div m, a % m>>, 10, Round)
    <3> HIDE DEF S, Round
    <3> QED BY <1>1, <1>2, LoopHasValues
  <2> QED BY <2>1 DEF HasValues
<1>4. Digits(g, a, m)
  <2>1. ASSUME NEW c \in 0 .. 10, c # 0
        PROVE  g[c] = <<(4 * g[c - 1][1]) + ((4 * g[c - 1][2]) \div m), (4 * g[c - 1][2]) % m>>
    <3>1. c \in 1 .. 10 /\ c - 1 \in 0 .. 10
      BY <2>1
    <3>2. g[c - 1] \in S /\ g[c] = Round[c][g[c - 1]]
      BY <1>3, <2>1, <3>1
    <3> QED BY <3>1, <3>2
  <2>2. g[0] = <<a \div m, a % m>>
    BY <1>3
  <2> HIDE DEF S, Round
  <2>3. g = [n \in 0 .. 10 |-> g[n]]
    BY <1>3
  <2> QED BY <2>1, <2>2, <2>3 DEF Digits
<1> DEFINE digit == CHOOSE f : Digits(f, a, m)
<1>5. Digits(digit, a, m)
  BY <1>4
<1>6. Lut!Ratio(a, m) = digit[10][1]
  BY DEF Lut!Ratio, Digits
<1> HIDE DEF digit, Round
<1>7. \A c \in 1 .. 10 : digit[c] = <<(4 * digit[c - 1][1]) + ((4 * digit[c - 1][2]) \div m),
                                      (4 * digit[c - 1][2]) % m>>
  <2> TAKE c \in 1 .. 10
  <2>1. c \in 0 .. 10 /\ c # 0
    OBVIOUS
  <2>2. \A n \in 0 .. 10 : n # 0 => digit[n] = <<(4 * digit[n - 1][1])
             + ((4 * digit[n - 1][2]) \div m), (4 * digit[n - 1][2]) % m>>
    BY <1>5, Zenon DEF Digits
  <2> QED BY <2>1, <2>2
<1>8. digit[0] = <<a \div m, a % m>>
  BY <1>5 DEF Digits
<1>9. digit[10] \in S
  <2>1. ASSUME NEW c \in 1 .. 10, digit[c - 1] \in S
        PROVE  digit[c] \in S
    <3>1. digit[c - 1][1] \in Int /\ digit[c - 1][2] \in Int
      BY <2>1
    <3>2. digit[c] = <<(4 * digit[c - 1][1]) + ((4 * digit[c - 1][2]) \div m),
                       (4 * digit[c - 1][2]) % m>>
      BY <1>7
    <3> QED BY <3>1, <3>2, DigitOf
  <2> HIDE DEF S
  <2> QED BY <1>2, <1>8, <2>1, LoopKeeps
<1>10. ASSUME a = 0 PROVE digit[10] = <<0, 0>>
  <2> DEFINE Z == {<<0, 0>>}
  <2>1. digit[0] \in Z
    BY <1>8, <1>10, ZeroDivided
  <2>2. \A c \in 1 .. 10 : digit[c - 1] \in Z => digit[c] \in Z
    <3> SUFFICES ASSUME NEW c \in 1 .. 10, digit[c - 1] = <<0, 0>>
                 PROVE  digit[c] = <<0, 0>>
      OBVIOUS
    <3>1. digit[c - 1][1] = 0 /\ digit[c - 1][2] = 0 /\ 4 * 0 = 0
      OBVIOUS
    <3>2. digit[c] = <<(4 * 0) + ((4 * 0) \div m), (4 * 0) % m>>
      BY <1>7, <3>1
    <3>3. digit[c] = <<0 + (0 \div m), 0 % m>>
      BY <3>1, <3>2
    <3> QED BY <3>3, ZeroDivided
  <2> HIDE DEF Z
  <2>3. digit[10] \in Z
    BY <2>1, <2>2, LoopKeeps
  <2> QED BY <2>3 DEF Z
<1> QED BY <1>6, <1>9, <1>10

LEMMA TimesIs ==
  ASSUME NEW a \in Int, NEW b \in Int
  PROVE  Lut!Times(a, b) \in Int
<1>1. b \div 16384 \in Int /\ (b \div 128) % 128 \in Int /\ b % 128 \in Int
  OBVIOUS
<1>2. \A x \in Int : a * x \in Int
  OBVIOUS
<1>3. /\ (a * (b \div 16384)) \div 64 \in Int
      /\ (a * ((b \div 128) % 128)) \div 8192 \in Int
      /\ (a * (b % 128)) \div Lut!One \in Int
  BY <1>1, <1>2 DEF Lut!One
<1> QED BY <1>3 DEF Lut!Times

(* What an op may send: both sides begin at zero, with the same value.     *)
GoodSide(side) ==
  DOMAIN side \subseteq Nat /\ 0 \in DOMAIN side /\ \A x \in DOMAIN side : side[x] \in Int
GoodTable(t) == GoodSide(t.le) /\ GoodSide(t.lo) /\ t.le[0] = t.lo[0]

LEMMA TableIs ==
  ASSUME NEW operand, NEW le, NEW lo, GoodSide(le), GoodSide(lo), le[0] = lo[0]
  PROVE  GoodTable(Lut!Table(operand, le, lo))
BY DEF GoodTable, Lut!Table

LEMMA StepsAre ==
  ASSUME NEW f, Lut!Mirrored(DOMAIN f)
  PROVE  /\ Lut!Steps(f) \subseteq Nat /\ 0 \in Lut!Steps(f)
         /\ \A x \in Lut!Steps(f) : x \in DOMAIN f /\ -x \in DOMAIN f
<1>1. \A x \in Lut!Steps(f) : x \in DOMAIN f /\ x \in Int /\ x >= 0
  BY DEF Lut!Steps, Lut!Mirrored
<1>2. Lut!Steps(f) \subseteq Nat
  BY <1>1
<1>3. 0 \in Lut!Steps(f)
  BY DEF Lut!Steps, Lut!Mirrored
<1> QED BY <1>1, <1>2, <1>3 DEF Lut!Mirrored

LEMMA OddTable ==
  ASSUME NEW operand, NEW f, Lut!Mirrored(DOMAIN f), \A j \in DOMAIN f : f[j] \in Int, f[0] = 0,
         NEW m \in Nat \ {0}
  PROVE  GoodTable(Lut!Odd(operand, f, m))
<1> DEFINE le == [x \in Lut!Steps(f) |-> -Lut!Ratio(f[x], m)]
           lo == [x \in Lut!Steps(f) |-> Lut!Ratio(f[x], m)]
<1>1. \A x \in Lut!Steps(f) : Lut!Ratio(f[x], m) \in Int
  BY StepsAre, RatioIs
<1>2. GoodSide(le) /\ GoodSide(lo)
  BY <1>1, StepsAre DEF GoodSide
<1>3. Lut!Ratio(f[0], m) = 0
  BY RatioIs
<1>4. le[0] = lo[0]
  BY <1>3, StepsAre
<1> HIDE DEF le, lo
<1>5. GoodTable(Lut!Table(operand, le, lo))
  BY <1>2, <1>4, TableIs
<1> QED BY <1>5 DEF Lut!Odd, le, lo

LEMMA HalfIs ==
  ASSUME Lut!LutAssumption
  PROVE  /\ Lut!Half \subseteq Nat /\ 0 \in Lut!Half
         /\ \A x \in Lut!Half : x \in Lut!Grid /\ -x \in Lut!Grid
         /\ Lut!Grid \subseteq Int /\ \A j \in Lut!Grid : -j \in Lut!Grid
         /\ 512 \in Lut!Grid /\ -512 \in Lut!Grid
BY StepsAre DEF Lut!LutAssumption, Lut!Half, Lut!Grid, Lut!Mirrored

LEMMA EvenTable ==
  ASSUME Lut!LutAssumption, NEW f, \A x \in Lut!Half : f[x] \in Int, NEW m \in Nat \ {0}
  PROVE  GoodTable(Lut!Even(f, m))
<1> DEFINE side == [x \in Lut!Half |-> Lut!Ratio(f[x], m)]
<1>1. GoodSide(side)
  BY HalfIs, RatioIs DEF GoodSide
<1> HIDE DEF side
<1>2. GoodTable(Lut!Table(\h6d18, side, side))
  BY <1>1, TableIs
<1> QED BY <1>2 DEF Lut!Even, side

LEMMA LargerIs ==
  ASSUME NEW x \in Int, NEW y \in Int
  PROVE  Lut!Larger(x, y) \in Int /\ Lut!Larger(x, y) >= y
BY DEF Lut!Larger

LEMMA AbsIs ==
  ASSUME NEW x \in Int
  PROVE  Lut!Abs(x) \in Nat
BY DEF Lut!Abs

LEMMA WithinIs ==
  ASSUME NEW low \in Int, NEW x \in Int, NEW high \in Int, low <= high
  PROVE  Lut!Within(low, x, high) \in low .. high
BY DEF Lut!Within

LEMMA BiasedTable ==
  ASSUME Lut!LutAssumption, NEW f, \A j \in Lut!Grid : f[j] \in Int
  PROVE  GoodTable(Lut!OnGrid(f))
<1> DEFINE m == Lut!Larger(Lut!Larger(Lut!Abs(f[512]), Lut!Abs(f[-512])), Lut!One)
           le == [x \in Lut!Half |-> Lut!Ratio(f[-x], m)]
           lo == [x \in Lut!Half |-> Lut!Ratio(f[x], m)]
<1>1. m \in Nat \ {0}
  <2>1. f[512] \in Int /\ f[-512] \in Int
    BY HalfIs
  <2>2. Lut!Abs(f[512]) \in Int /\ Lut!Abs(f[-512]) \in Int
    BY <2>1, AbsIs
  <2>3. Lut!Larger(Lut!Abs(f[512]), Lut!Abs(f[-512])) \in Int
    BY <2>2, LargerIs
  <2>4. Lut!One \in Int /\ Lut!One > 0
    BY DEF Lut!One
  <2>5. m \in Int /\ m >= Lut!One
    BY <2>3, <2>4, LargerIs
  <2> QED BY <2>4, <2>5
<1> HIDE DEF m
<1>2. GoodSide(le) /\ GoodSide(lo)
  BY <1>1, HalfIs, RatioIs DEF GoodSide
<1>3. le[0] = lo[0]
  BY HalfIs
<1>4. GoodTable(Lut!Table(\h6d18, le, lo))
  <2> HIDE DEF le, lo
  <2> QED BY <1>2, <1>3, TableIs
<1> QED BY <1>4 DEF Lut!OnGrid, Lut!Biased, m

(* What the assumption says of each function.                              *)
LEMMA LibraryIs ==
  ASSUME Lut!LutAssumption
  PROVE  /\ \A f \in {libm.sin, libm.cos, libm.tanh, libm.atan, libm.asinh, libm.acosh, libm.sinh,
                     libm.cosh, libm.log1pexp, libm.tanhlog1pexp, libm.erfsqrt2} :
              DOMAIN f = Lut!Grid /\ \A j \in Lut!Grid : f[j] \in Int
         /\ \A f \in {libm.exp, libm.exp2, libm.exp1702} : \A j \in Lut!Grid : f[j] \in Nat
<1>1. \A f : f \in [Lut!Grid -> Int] => DOMAIN f = Lut!Grid /\ \A j \in Lut!Grid : f[j] \in Int
  OBVIOUS
<1>2. \A f : f \in [Lut!Grid -> Nat] => \A j \in Lut!Grid : f[j] \in Nat
  OBVIOUS
<1>3. {libm.sin, libm.cos, libm.tanh, libm.atan, libm.asinh, libm.acosh, libm.sinh, libm.cosh,
       libm.log1pexp, libm.tanhlog1pexp, libm.erfsqrt2} \subseteq [Lut!Grid -> Int]
  BY DEF Lut!LutAssumption
<1>4. {libm.exp, libm.exp2, libm.exp1702} \subseteq [Lut!Grid -> Nat]
  BY DEF Lut!LutAssumption
<1> QED BY <1>1, <1>2, <1>3, <1>4, Zenon

LEMMA StepValue ==
  ASSUME NEW j \in Int
  PROVE  Lut!X(j) \in Int
<1>1. 32 * j \in Int
  OBVIOUS
<1> QED BY <1>1, RatioIs DEF Lut!X

(* The functions of the biased tables have a value at each step.           *)
LEMMA ValuesAre ==
  ASSUME Lut!LutAssumption, NEW j \in Lut!Grid
  PROVE  /\ Lut!celu_value[j] \in Int /\ Lut!selu_value[j] \in Int /\ Lut!swish_value[j] \in Int
         /\ Lut!softsign_value[j] \in Int /\ Lut!logsigmoid_value[j] \in Int
         /\ Lut!hardsigmoid_value[j] \in Int /\ Lut!softplus_value[j] \in Int
         /\ Lut!gelu_value[j] \in Int /\ Lut!quick_gelu_value[j] \in Int
         /\ Lut!elu_value[j] \in Int /\ Lut!relu6_value[j] \in Int
         /\ Lut!hardswish_value[j] \in Int /\ Lut!mish_value[j] \in Int
         /\ Lut!hardtanh_value[j] \in Int /\ libm.exp[j] \in Int /\ libm.exp2[j] \in Int
<1>1. -j \in Lut!Grid /\ j \in Int /\ Lut!X(j) \in Int
  BY HalfIs, StepValue
<1>2. /\ libm.exp[j] \in Nat /\ libm.exp[-j] \in Nat /\ libm.exp2[j] \in Nat
      /\ libm.exp1702[-j] \in Nat
  BY <1>1, LibraryIs, Zenon
<1>3. /\ libm.log1pexp[j] \in Int /\ libm.log1pexp[-j] \in Int
      /\ libm.tanhlog1pexp[j] \in Int /\ libm.erfsqrt2[j] \in Int
  BY <1>1, LibraryIs, Zenon
<1>4. \A x \in Int, low \in Int, high \in Int : low <= high => Lut!Within(low, x, high) \in Int
  BY WithinIs
<1>5. Lut!celu_value[j] \in Int /\ Lut!elu_value[j] \in Int
  BY <1>1, <1>2 DEF Lut!celu_value, Lut!elu_value, Lut!One
<1>6. Lut!selu_value[j] \in Int
  <2>1. libm.exp[j] - Lut!One \in Int /\ Lut!alpha \in Int /\ Lut!scale \in Int
    BY <1>2 DEF Lut!One, Lut!alpha, Lut!scale
  <2>2. Lut!Times(libm.exp[j] - Lut!One, Lut!alpha) \in Int
    BY <2>1, TimesIs
  <2>3. (IF Lut!X(j) > 0 THEN Lut!X(j) ELSE Lut!Times(libm.exp[j] - Lut!One, Lut!alpha)) \in Int
    BY <1>1, <2>2
  <2> QED BY <2>1, <2>3, TimesIs DEF Lut!selu_value
<1>7. Lut!swish_value[j] \in Int /\ Lut!quick_gelu_value[j] \in Int
  <2>1. Lut!One + libm.exp[-j] \in Nat \ {0} /\ Lut!One + libm.exp1702[-j] \in Nat \ {0}
    BY <1>2 DEF Lut!One
  <2> QED BY <1>1, <2>1, RatioIs DEF Lut!swish_value, Lut!quick_gelu_value
<1>8. Lut!softsign_value[j] \in Int
  <2>1. Lut!Abs(Lut!X(j)) \in Nat
    BY <1>1, AbsIs
  <2>2. Lut!One + Lut!Abs(Lut!X(j)) \in Nat \ {0}
    BY <2>1 DEF Lut!One
  <2> QED BY <1>1, <2>2, RatioIs DEF Lut!softsign_value
<1>9. /\ Lut!logsigmoid_value[j] \in Int /\ Lut!softplus_value[j] \in Int
      /\ libm.exp[j] \in Int /\ libm.exp2[j] \in Int
  BY <1>2, <1>3 DEF Lut!logsigmoid_value, Lut!softplus_value
<1>10. /\ Lut!hardsigmoid_value[j] \in Int /\ Lut!relu6_value[j] \in Int
       /\ Lut!hardtanh_value[j] \in Int
  <2>1. (Lut!X(j) \div 6) + (Lut!One \div 2) \in Int /\ Lut!One \in Int /\ 6 * Lut!One \in Int
        /\ -Lut!One \in Int /\ 0 <= Lut!One /\ 0 <= 6 * Lut!One /\ -Lut!One <= Lut!One
    BY <1>1 DEF Lut!One
  <2>2. /\ Lut!Within(0, (Lut!X(j) \div 6) + (Lut!One \div 2), Lut!One) \in Int
        /\ Lut!Within(0, Lut!X(j), 6 * Lut!One) \in Int
        /\ Lut!Within(-Lut!One, Lut!X(j), Lut!One) \in Int
    <3>1. 0 \in Int
      OBVIOUS
    <3> QED BY <1>1, <1>4, <2>1, <3>1, Zenon
  <2> QED BY <2>2 DEF Lut!hardsigmoid_value, Lut!relu6_value, Lut!hardtanh_value
<1>11. Lut!gelu_value[j] \in Int /\ Lut!mish_value[j] \in Int
  <2>1. Lut!X(j) \div 2 \in Int /\ Lut!One + libm.erfsqrt2[j] \in Int
    BY <1>1, <1>3 DEF Lut!One
  <2> QED BY <1>1, <1>3, <2>1, TimesIs DEF Lut!gelu_value, Lut!mish_value
<1>12. Lut!hardswish_value[j] \in Int
  <2>1. Lut!X(j) + (3 * Lut!One) \in Int /\ 6 * Lut!One \in Int /\ 0 <= 6 * Lut!One
    BY <1>1 DEF Lut!One
  <2>2. Lut!Within(0, Lut!X(j) + (3 * Lut!One), 6 * Lut!One) \in Int
    BY <1>4, <2>1
  <2>3. Lut!Times(Lut!X(j), Lut!Within(0, Lut!X(j) + (3 * Lut!One), 6 * Lut!One)) \in Int
    BY <1>1, <2>2, TimesIs
  <2>4. \A x \in Int : x \div 6 \in Int
    OBVIOUS
  <2> QED BY <2>3, <2>4 DEF Lut!hardswish_value
<1> QED BY <1>5, <1>6, <1>7, <1>8, <1>9, <1>10, <1>11, <1>12

Algs == {14, 15} \cup 28..55

LEMMA TableOfIs ==
  /\ Lut!TableOf(14) = Lut!sigmoid_table /\ Lut!TableOf(15) = Lut!silu_table
  /\ Lut!TableOf(28) = Lut!sin_table /\ Lut!TableOf(29) = Lut!cos_table
  /\ Lut!TableOf(30) = Lut!tanh_table /\ Lut!TableOf(31) = Lut!tanh_table
  /\ Lut!TableOf(32) = Lut!asin_table /\ Lut!TableOf(33) = Lut!acos_table
  /\ Lut!TableOf(34) = Lut!atan_table /\ Lut!TableOf(35) = Lut!asinh_table
  /\ Lut!TableOf(36) = Lut!acosh_table /\ Lut!TableOf(37) = Lut!atanh_table
  /\ Lut!TableOf(38) = Lut!sinh_table /\ Lut!TableOf(39) = Lut!cosh_table
  /\ Lut!TableOf(40) = Lut!celu_table /\ Lut!TableOf(41) = Lut!selu_table
  /\ Lut!TableOf(42) = Lut!swish_table /\ Lut!TableOf(43) = Lut!softsign_table
  /\ Lut!TableOf(44) = Lut!logsigmoid_table /\ Lut!TableOf(45) = Lut!hardsigmoid_table
  /\ Lut!TableOf(46) = Lut!softplus_table /\ Lut!TableOf(47) = Lut!gelu_table
  /\ Lut!TableOf(48) = Lut!quick_gelu_table /\ Lut!TableOf(49) = Lut!elu_table
  /\ Lut!TableOf(50) = Lut!relu6_table /\ Lut!TableOf(51) = Lut!hardswish_table
  /\ Lut!TableOf(52) = Lut!mish_table /\ Lut!TableOf(53) = Lut!hardtanh_table
  /\ Lut!TableOf(54) = Lut!exp_table /\ Lut!TableOf(55) = Lut!exp2_table
BY DEF Lut!TableOf

LEMMA AlgsAre ==
  ASSUME NEW a \in Algs
  PROVE  a \in {14, 15, 28, 29, 30, 31, 32, 33, 34, 35, 36, 37, 38, 39, 40,
                41, 42, 43, 44, 45, 46, 47, 48, 49, 50, 51, 52, 53, 54, 55}
BY DEF Algs

LEMMA OddTablesAreGood ==
  ASSUME Lut!LutAssumption
  PROVE  /\ GoodTable(Lut!sin_table) /\ GoodTable(Lut!tanh_table) /\ GoodTable(Lut!asin_table)
         /\ GoodTable(Lut!atan_table) /\ GoodTable(Lut!asinh_table) /\ GoodTable(Lut!atanh_table)
         /\ GoodTable(Lut!sinh_table)
<1>1. Lut!Mirrored(Lut!Grid)
  BY DEF Lut!LutAssumption
<1>2. \A f \in {libm.sin, libm.tanh, libm.atan, libm.asinh, libm.sinh} :
        Lut!Mirrored(DOMAIN f) /\ \A j \in DOMAIN f : f[j] \in Int
  BY <1>1, LibraryIs
<1>3. \A f \in {libm.asin, libm.acos, libm.atanh} :
        Lut!Mirrored(DOMAIN f) /\ \A j \in DOMAIN f : f[j] \in Int
  <2>1. \A f : f \in [DOMAIN f -> Int] => \A j \in DOMAIN f : f[j] \in Int
    OBVIOUS
  <2> QED BY <2>1, Zenon DEF Lut!LutAssumption
<1>4. /\ libm.sin[0] = 0 /\ libm.tanh[0] = 0 /\ libm.atan[0] = 0 /\ libm.asinh[0] = 0
      /\ libm.sinh[0] = 0 /\ libm.asin[0] = 0 /\ libm.atanh[0] = 0
  BY Zenon DEF Lut!LutAssumption
<1>5. /\ Lut!One \in Nat \ {0} /\ Lut!half_pi \in Nat \ {0} /\ Lut!asinh_max \in Nat \ {0}
      /\ Lut!atanh_max \in Nat \ {0}
  BY DEF Lut!One, Lut!half_pi, Lut!asinh_max, Lut!atanh_max
<1>6. libm.sinh[512] \in Nat \ {0}
  <2>1. libm.sinh[512] \in Int
    BY LibraryIs, HalfIs, Zenon
  <2>2. libm.sinh[512] > 0
    BY DEF Lut!LutAssumption
  <2> QED BY <2>1, <2>2
<1>7. GoodTable(Lut!sin_table) /\ GoodTable(Lut!tanh_table)
  <2>1. GoodTable(Lut!Odd(\h6d18, libm.sin, Lut!One))
    BY <1>2, <1>4, <1>5, OddTable
  <2>2. GoodTable(Lut!Odd(\h6d18, libm.tanh, Lut!One))
    BY <1>2, <1>4, <1>5, OddTable
  <2> QED BY <2>1, <2>2 DEF Lut!sin_table, Lut!tanh_table
<1>8. GoodTable(Lut!atan_table) /\ GoodTable(Lut!asinh_table)
  <2>1. GoodTable(Lut!Odd(\h6d18, libm.atan, Lut!half_pi))
    BY <1>2, <1>4, <1>5, OddTable
  <2>2. GoodTable(Lut!Odd(\h6d18, libm.asinh, Lut!asinh_max))
    BY <1>2, <1>4, <1>5, OddTable
  <2> QED BY <2>1, <2>2 DEF Lut!atan_table, Lut!asinh_table
<1>9. GoodTable(Lut!sinh_table) /\ GoodTable(Lut!asin_table)
  <2>1. GoodTable(Lut!Odd(\h6d18, libm.sinh, libm.sinh[512]))
    BY <1>2, <1>4, <1>6, OddTable
  <2>2. GoodTable(Lut!Odd(\h7400, libm.asin, Lut!half_pi))
    BY <1>3, <1>4, <1>5, OddTable
  <2> QED BY <2>1, <2>2 DEF Lut!sinh_table, Lut!asin_table
<1>10. GoodTable(Lut!atanh_table)
  <2> DEFINE f == [libm.atanh EXCEPT ![512] = Lut!atanh_max, ![-512] = -Lut!atanh_max]
  <2>1. DOMAIN f = DOMAIN libm.atanh
    OBVIOUS
  <2>2. \A j \in DOMAIN f : f[j] \in {libm.atanh[j], Lut!atanh_max, -Lut!atanh_max}
    OBVIOUS
  <2>3. \A j \in DOMAIN f : f[j] \in Int
    <3>1. Lut!atanh_max \in Int /\ -Lut!atanh_max \in Int
      BY <1>5
    <3> QED BY <1>3, <2>1, <2>2, <3>1
  <2>4. f[0] = 0
    <3>1. 0 \in DOMAIN libm.atanh /\ 0 # 512 /\ 0 # -512
      BY <1>3 DEF Lut!Mirrored
    <3> QED BY <1>4, <3>1
  <2> HIDE DEF f
  <2>5. GoodTable(Lut!Odd(\h7400, f, Lut!atanh_max))
    BY <1>3, <1>5, <2>1, <2>3, <2>4, OddTable
  <2> QED BY <2>5 DEF Lut!atanh_table, f
<1> QED BY <1>7, <1>8, <1>9, <1>10

LEMMA EvenTablesAreGood ==
  ASSUME Lut!LutAssumption
  PROVE  GoodTable(Lut!cos_table) /\ GoodTable(Lut!acosh_table) /\ GoodTable(Lut!cosh_table)
<1>1. \A x \in Lut!Half : libm.cos[x] \in Int /\ libm.acosh[x] \in Int /\ libm.cosh[x] \in Int
  BY LibraryIs, HalfIs, Zenon
<1>2. Lut!One \in Nat \ {0} /\ Lut!acosh_max \in Nat \ {0}
  BY DEF Lut!One, Lut!acosh_max
<1>3. libm.cosh[512] \in Nat \ {0}
  <2>1. libm.cosh[512] \in Int
    BY LibraryIs, HalfIs, Zenon
  <2>2. libm.cosh[512] > 0
    BY DEF Lut!LutAssumption
  <2> QED BY <2>1, <2>2
<1>4. GoodTable(Lut!cos_table)
  BY <1>1, <1>2, EvenTable DEF Lut!cos_table
<1>5. GoodTable(Lut!cosh_table)
  BY <1>1, <1>3, EvenTable DEF Lut!cosh_table
<1>6. GoodTable(Lut!acosh_table)
  <2> DEFINE f == [x \in Lut!Half |-> IF Lut!X(x) < Lut!One THEN 0 ELSE libm.acosh[x]]
  <2>1. \A x \in Lut!Half : f[x] \in Int
    BY <1>1
  <2> HIDE DEF f
  <2>2. GoodTable(Lut!Even(f, Lut!acosh_max))
    BY <1>2, <2>1, EvenTable
  <2> QED BY <2>2 DEF Lut!acosh_table, f
<1> QED BY <1>4, <1>5, <1>6

(* Two tables of a logistic function, and the one of acos.                 *)
LEMMA LogisticTable ==
  ASSUME NEW operand, NEW e, Lut!Mirrored(DOMAIN e), NEW f, \A j \in DOMAIN e : f[j] \in Int
  PROVE  GoodTable(Lut!Table(operand, [x \in Lut!Steps(e) |-> f[-x]], [x \in Lut!Steps(e) |-> f[x]]))
<1> DEFINE le == [x \in Lut!Steps(e) |-> f[-x]]
           lo == [x \in Lut!Steps(e) |-> f[x]]
<1>1. GoodSide(le) /\ GoodSide(lo)
  BY StepsAre DEF GoodSide
<1>2. le[0] = lo[0]
  BY StepsAre
<1> HIDE DEF le, lo
<1>3. GoodTable(Lut!Table(operand, le, lo))
  BY <1>1, <1>2, TableIs
<1> QED BY <1>3 DEF le, lo

LEMMA OtherTablesAreGood ==
  ASSUME Lut!LutAssumption
  PROVE  GoodTable(Lut!sigmoid_table) /\ GoodTable(Lut!silu_table) /\ GoodTable(Lut!acos_table)
<1>1. \A f : f \in [DOMAIN f -> Nat] => \A j \in DOMAIN f : f[j] \in Nat
  OBVIOUS
<1>2. \A e \in {libm.exp2596, libm.exp2824} :
        Lut!Mirrored(DOMAIN e) /\ \A j \in DOMAIN e : e[j] \in Nat
  BY <1>1, Zenon DEF Lut!LutAssumption
<1>3. \A e \in {libm.exp2596, libm.exp2824} : \A j \in DOMAIN e :
        /\ j \in Int /\ 32 * j \in Int /\ Lut!One \in Int
        /\ Lut!One + e[-j] \in Nat \ {0}
  <2> TAKE e \in {libm.exp2596, libm.exp2824}
  <2> TAKE j \in DOMAIN e
  <2>1. -j \in DOMAIN e /\ j \in Int
    BY <1>2 DEF Lut!Mirrored
  <2>2. e[-j] \in Nat
    BY <1>2, <2>1
  <2> QED BY <2>1, <2>2 DEF Lut!One
<1>4. GoodTable(Lut!sigmoid_table)
  <2> DEFINE e == libm.exp2596
             f == [j \in DOMAIN e |-> Lut!Ratio(Lut!One, Lut!One + e[-j])]
  <2>1. \A j \in DOMAIN e : f[j] \in Int
    BY <1>3, RatioIs
  <2>2. GoodTable(Lut!Table(\h6912, [x \in Lut!Steps(e) |-> f[-x]], [x \in Lut!Steps(e) |-> f[x]]))
    <3> HIDE DEF f
    <3> QED BY <1>2, <2>1, LogisticTable
  <2> QED BY <2>2 DEF Lut!sigmoid_table
<1>5. GoodTable(Lut!silu_table)
  <2> DEFINE e == libm.exp2824
             f == [j \in DOMAIN e |->
                     Lut!Ratio(Lut!Ratio(32 * j, 2824), Lut!One + e[-j])]
  <2>1. \A j \in DOMAIN e : f[j] \in Int
    <3> TAKE j \in DOMAIN e
    <3>1. Lut!Ratio(32 * j, 2824) \in Int
      BY <1>3, RatioIs
    <3> QED BY <1>3, <3>1, RatioIs
  <2>2. GoodTable(Lut!Table(\h6984, [x \in Lut!Steps(e) |-> f[-x]], [x \in Lut!Steps(e) |-> f[x]]))
    <3> HIDE DEF f
    <3> QED BY <1>2, <2>1, LogisticTable
  <2> QED BY <2>2 DEF Lut!silu_table
<1>6. GoodTable(Lut!acos_table)
  <2> DEFINE e == libm.acos
             f == [j \in DOMAIN e |-> Lut!Ratio(e[j], Lut!half_pi) - Lut!One]
  <2>1. Lut!Mirrored(DOMAIN e) /\ \A j \in DOMAIN e : e[j] \in Int
    <3>1. Lut!Mirrored(DOMAIN e) /\ e \in [DOMAIN e -> Int]
      BY Zenon DEF Lut!LutAssumption
    <3> QED BY <3>1
  <2>2. Lut!half_pi \in Nat \ {0} /\ Lut!One \in Int
    BY DEF Lut!half_pi, Lut!One
  <2>3. \A j \in DOMAIN e : f[j] \in Int
    <3> TAKE j \in DOMAIN e
    <3>1. Lut!Ratio(e[j], Lut!half_pi) \in Int
      BY <2>1, <2>2, RatioIs
    <3> QED BY <2>2, <3>1
  <2>4. \A x \in Lut!Steps(e) : /\ f[-x] = Lut!Ratio(e[-x], Lut!half_pi) - Lut!One
                                /\ f[x] = Lut!Ratio(e[x], Lut!half_pi) - Lut!One
    BY <2>1, StepsAre
  <2> DEFINE le == [x \in Lut!Steps(e) |-> f[-x]]
             lo == [x \in Lut!Steps(e) |-> f[x]]
  <2>5. GoodTable(Lut!Table(\h7400, le, lo))
    <3> HIDE DEF f
    <3> QED BY <2>1, <2>3, LogisticTable
  <2>6. /\ le = [x \in Lut!Steps(e) |-> Lut!Ratio(e[-x], Lut!half_pi) - Lut!One]
        /\ lo = [x \in Lut!Steps(e) |-> Lut!Ratio(e[x], Lut!half_pi) - Lut!One]
    <3> HIDE DEF f
    <3> QED BY <2>4
  <2>7. Lut!acos_table = Lut!Table(\h7400, le, lo)
    <3> HIDE DEF le, lo
    <3> QED BY <2>6 DEF Lut!acos_table
  <2> QED BY <2>5, <2>7
<1> QED BY <1>4, <1>5, <1>6

LEMMA BiasedTablesAreGood ==
  ASSUME Lut!LutAssumption, NEW a \in 40 .. 55
  PROVE  GoodTable(Lut!TableOf(a))
<1>1. /\ \A j \in Lut!Grid : libm.exp[j] \in Int
      /\ \A j \in Lut!Grid : libm.exp2[j] \in Int
  BY ValuesAre
<1>2. GoodTable(Lut!celu_table) /\ GoodTable(Lut!selu_table)
  BY ValuesAre, BiasedTable DEF Lut!celu_table, Lut!selu_table
<1>3. GoodTable(Lut!swish_table) /\ GoodTable(Lut!softsign_table)
  BY ValuesAre, BiasedTable DEF Lut!swish_table, Lut!softsign_table
<1>4. GoodTable(Lut!logsigmoid_table) /\ GoodTable(Lut!hardsigmoid_table)
  BY ValuesAre, BiasedTable DEF Lut!logsigmoid_table, Lut!hardsigmoid_table
<1>5. GoodTable(Lut!softplus_table) /\ GoodTable(Lut!gelu_table)
  BY ValuesAre, BiasedTable DEF Lut!softplus_table, Lut!gelu_table
<1>6. GoodTable(Lut!quick_gelu_table) /\ GoodTable(Lut!elu_table)
  BY ValuesAre, BiasedTable DEF Lut!quick_gelu_table, Lut!elu_table
<1>7. GoodTable(Lut!relu6_table) /\ GoodTable(Lut!hardswish_table)
  BY ValuesAre, BiasedTable DEF Lut!relu6_table, Lut!hardswish_table
<1>8. GoodTable(Lut!mish_table) /\ GoodTable(Lut!hardtanh_table)
  BY ValuesAre, BiasedTable DEF Lut!mish_table, Lut!hardtanh_table
<1>9. GoodTable(Lut!exp_table) /\ GoodTable(Lut!exp2_table)
  BY <1>1, BiasedTable DEF Lut!exp_table, Lut!exp2_table
<1>10. a \in {40, 41, 42, 43, 44, 45, 46, 47, 48, 49, 50, 51, 52, 53, 54, 55}
  OBVIOUS
<1> QED BY <1>2, <1>3, <1>4, <1>5, <1>6, <1>7, <1>8, <1>9, <1>10, TableOfIs

LEMMA TablesAreGood ==
  ASSUME Lut!LutAssumption, NEW a \in Algs
  PROVE  GoodTable(Lut!TableOf(a))
<1>1. CASE a \in 40 .. 55
  BY <1>1, BiasedTablesAreGood
<1>2. CASE a \notin 40 .. 55
  <2>1. a \in {14, 15, 28, 29, 30, 31, 32, 33, 34, 35, 36, 37, 38, 39}
    BY <1>2 DEF Algs
  <2> QED BY <2>1, OddTablesAreGood, EvenTablesAreGood, OtherTablesAreGood, TableOfIs
<1> QED BY <1>1, <1>2

-----------------------------------------------------------------------------
LEMMA EntryIs ==
  ASSUME NEW a \in Algs, NEW y \in Int
  PROVE  Lut!Entry(a, y) \in (IF a = 15 THEN -32768 ELSE 0) .. 32767
<1> DEFINE n1 == (y + 16) \div 32
           n2 == ((1000 * y) + 92552) \div 185104
           n3 == (y + Lut!One + 32) \div 64
           least == IF a = 15 THEN -32768 ELSE 0
           most == 32767
<1>1. n1 \in Int /\ n2 \in Int /\ n3 \in Int
  BY DEF Lut!One
<1>2. least \in Int /\ most \in Int /\ least <= most
  OBVIOUS
<1>3. Lut!Entry(a, y) \in {Lut!Within(least, n, most) : n \in {n1, n2, n3}}
  <2>1. /\ a = 14 => Lut!Entry(a, y) = Lut!Within(least, n1, most)
        /\ a = 15 => Lut!Entry(a, y) = Lut!Within(least, n2, most)
        /\ a # 14 /\ a # 15 => Lut!Entry(a, y) = Lut!Within(least, n3, most)
    BY DEF Lut!Entry
  <2> HIDE DEF n1, n2, n3, least, most
  <2> QED BY <2>1
<1>4. \A n \in {n1, n2, n3} : Lut!Within(least, n, most) \in least .. most
  <2> HIDE DEF n1, n2, n3, least, most
  <2> QED BY <1>1, <1>2, WithinIs
<1>5. Lut!Entry(a, y) \in least .. most
  <2> HIDE DEF n1, n2, n3, least, most
  <2> QED BY <1>3, <1>4
<1> QED BY <1>5

(* A filled table has both sides, and one value at zero.                   *)
LEMMA FilledIs ==
  ASSUME Lut!LutAssumption, NEW a \in Algs
  PROVE  /\ {512, 513} \subseteq DOMAIN Lut!Filled(a)
         /\ \A i \in DOMAIN Lut!Filled(a) :
              Lut!Filled(a)[i] \in (IF a = 15 THEN -32768 ELSE 0) .. 32767
         /\ Lut!Filled(a)[512] = Lut!Filled(a)[513]
<1> DEFINE t == Lut!TableOf(a)
           below == {512 - x : x \in DOMAIN t.le}
           above == {513 + x : x \in DOMAIN t.lo}
           Sent(i) == IF i \in above THEN t.lo[i - 513] ELSE t.le[512 - i]
<1>1. Lut!Filled(a) = [i \in below \cup above |-> Lut!Entry(a, Sent(i))]
  BY DEF Lut!Filled
<1>2. GoodSide(t.le) /\ GoodSide(t.lo) /\ t.le[0] = t.lo[0]
  BY TablesAreGood DEF GoodTable
<1> HIDE DEF t
<1>3. 512 \in below /\ 513 \in above
  BY <1>2 DEF GoodSide
<1>4. 512 \notin above
  BY <1>2 DEF GoodSide
<1>5. \A i \in below \cup above : Sent(i) \in Int
  <2>1. \A i \in above : i - 513 \in DOMAIN t.lo
    BY <1>2 DEF GoodSide
  <2>2. \A i \in below : 512 - i \in DOMAIN t.le
    BY <1>2 DEF GoodSide
  <2> QED BY <1>2, <2>1, <2>2 DEF GoodSide
<1>6. Sent(512) = t.le[0] /\ Sent(513) = t.lo[0]
  BY <1>3, <1>4
<1> HIDE DEF Sent, below, above
<1>7. DOMAIN Lut!Filled(a) = below \cup above
  BY <1>1
<1>8. \A i \in below \cup above : Lut!Filled(a)[i] = Lut!Entry(a, Sent(i))
  BY <1>1
<1> QED BY <1>2, <1>3, <1>5, <1>6, <1>7, <1>8, EntryIs

(* tan and tanh fill their one table alike.                                *)
LEMMA OwnersTable ==
  ASSUME NEW a \in Algs
  PROVE  Lut!Filled(Lut!Owner(a)) = Lut!Filled(a)
<1>1. CASE a = 31
  <2>1. Lut!Owner(a) = 30 /\ Lut!TableOf(30) = Lut!TableOf(31)
    BY <1>1, TableOfIs DEF Lut!Owner
  <2>2. \A y : Lut!Entry(30, y) = Lut!Entry(31, y)
    BY DEF Lut!Entry
  <2> QED BY <1>1, <2>1, <2>2 DEF Lut!Filled
<1>2. CASE a # 31
  BY <1>2 DEF Lut!Owner
<1> QED BY <1>1, <1>2

-----------------------------------------------------------------------------
(* The operands, which are what their hexadecimal halves say.              *)
LEMMA HalvesAre ==
  /\ Lut!Fp16(\h6d18) = 5216 /\ Lut!Fp16(\h7400) = 16384
  /\ Lut!Fp16(\h6912) = 2596 /\ Lut!Fp16(\h6984) = 2824
<1>1. \A n \in Nat : Lut!TwoTo(n) = Minmax!TwoTo(n)
  BY DEF Lut!TwoTo, Minmax!TwoTo
<1>2. Lut!TwoTo(0) = 1 /\ \A n \in Nat : /\ Lut!TwoTo(n) \in Nat
                                         /\ Lut!TwoTo(n + 1) = 2 * Lut!TwoTo(n)
  BY <1>1, TwoToDoubles
<1>3. Lut!TwoTo(0 + 1) = 2
  BY <1>2
<1>4. Lut!TwoTo(1) = 2
  BY <1>3
<1>5. Lut!TwoTo(1 + 1) = 4
  BY <1>2, <1>4
<1>6. Lut!TwoTo(2) = 4
  BY <1>5
<1>7. Lut!TwoTo(2 + 1) = 8
  BY <1>2, <1>6
<1>8. Lut!TwoTo(3) = 8
  BY <1>7
<1>9. Lut!TwoTo(3 + 1) = 16
  BY <1>2, <1>8
<1>10. Lut!TwoTo(4) = 16
  BY <1>9
<1>11. Lut!Fp16(\h6d18) = 5216
  <2>1. \h6d18 % 1024 = 280 /\ (\h6d18 \div 1024) - 25 = 2
    OBVIOUS
  <2> QED BY <1>6, <2>1 DEF Lut!Fp16
<1>12. Lut!Fp16(\h7400) = 16384
  <2>1. \h7400 % 1024 = 0 /\ (\h7400 \div 1024) - 25 = 4
    OBVIOUS
  <2> QED BY <1>10, <2>1 DEF Lut!Fp16
<1>13. Lut!Fp16(\h6912) = 2596
  <2>1. \h6912 % 1024 = 274 /\ (\h6912 \div 1024) - 25 = 1
    OBVIOUS
  <2> QED BY <1>4, <2>1 DEF Lut!Fp16
<1>14. Lut!Fp16(\h6984) = 2824
  <2>1. \h6984 % 1024 = 388 /\ (\h6984 \div 1024) - 25 = 1
    OBVIOUS
  <2> QED BY <1>4, <2>1 DEF Lut!Fp16
<1> QED BY <1>11, <1>12, <1>13, <1>14

LEMMA InputsOfCases ==
  ASSUME NEW a \in Algs
  PROVE  Lut!CaseOf(a).inputs = IF a \in {32, 33, 37} THEN "asin"
                                ELSE IF a = 36 THEN "acosh" ELSE "linear"
<1> DEFINE Loads(c) == c.inputs
<1>1. \A fn : Lut!run_lut_case(fn).inputs = "linear"
  BY DEF Lut!run_lut_case, Lut!Case
<1>2. \A e, d : Lut!Plain(e, d).inputs = "linear"
  BY DEF Lut!Plain, Lut!Case
<1>3. CASE a \in {14, 15, 28, 29, 30, 31, 34, 35, 38, 39}
  BY <1>2, <1>3 DEF Lut!CaseOf, Lut!run_sigmoid_case, Lut!run_silu_case, Lut!run_sin_case,
     Lut!run_cos_case, Lut!run_tan_case, Lut!run_tanh_case, Lut!run_atan_case,
     Lut!run_asinh_case, Lut!run_sinh_case, Lut!run_cosh_case
<1>4. CASE a \in {32, 33, 36, 37}
  BY <1>4 DEF Lut!CaseOf, Lut!run_asin_case, Lut!run_acos_case, Lut!run_acosh_case,
     Lut!run_atanh_case, Lut!Case
<1>5. CASE a \in 40 .. 55
  <2>1. a \in {40, 41, 42, 43, 44, 45, 46, 47, 48, 49, 50, 51, 52, 53, 54, 55}
    BY <1>5
  <2>2. \E fn : Lut!CaseOf(a) = Lut!run_lut_case(fn)
    BY <2>1 DEF Lut!CaseOf
  <2> QED BY <1>1, <1>5, <2>2
<1> QED BY <1>3, <1>4, <1>5, AlgsAre

LEMMA TableOperand ==
  ASSUME NEW operand, NEW le, NEW lo
  PROVE  Lut!Table(operand, le, lo).operand = Lut!Fp16(operand)
BY DEF Lut!Table

LEMMA OperandOf ==
  ASSUME NEW a \in Algs
  PROVE  Lut!TableOf(a).operand = IF a = 14 THEN 2596 ELSE IF a = 15 THEN 2824
                                  ELSE IF a \in {32, 33, 37} THEN 16384 ELSE 5216
<1>1. \A o, f, m : Lut!Odd(o, f, m).operand = Lut!Fp16(o)
  BY TableOperand DEF Lut!Odd
<1>2. \A f, m : Lut!Even(f, m).operand = Lut!Fp16(\h6d18)
  BY TableOperand DEF Lut!Even
<1>3. \A f : Lut!OnGrid(f).operand = Lut!Fp16(\h6d18)
  BY TableOperand DEF Lut!OnGrid, Lut!Biased
<1>4. Lut!sigmoid_table.operand = 2596 /\ Lut!silu_table.operand = 2824
  BY TableOperand, HalvesAre DEF Lut!sigmoid_table, Lut!silu_table
<1>5. /\ Lut!asin_table.operand = 16384 /\ Lut!acos_table.operand = 16384
      /\ Lut!atanh_table.operand = 16384
  BY <1>1, TableOperand, HalvesAre DEF Lut!asin_table, Lut!acos_table, Lut!atanh_table
<1>6. /\ Lut!sin_table.operand = 5216 /\ Lut!tanh_table.operand = 5216
      /\ Lut!atan_table.operand = 5216 /\ Lut!asinh_table.operand = 5216
      /\ Lut!sinh_table.operand = 5216
  BY <1>1, HalvesAre DEF Lut!sin_table, Lut!tanh_table, Lut!atan_table, Lut!asinh_table,
                         Lut!sinh_table
<1>7. /\ Lut!cos_table.operand = 5216 /\ Lut!acosh_table.operand = 5216
      /\ Lut!cosh_table.operand = 5216
  BY <1>2, HalvesAre DEF Lut!cos_table, Lut!acosh_table, Lut!cosh_table
<1>8. CASE a \in 40 .. 55
  <2>1. a \in {40, 41, 42, 43, 44, 45, 46, 47, 48, 49, 50, 51, 52, 53, 54, 55}
    BY <1>8
  <2>2. \E f : Lut!TableOf(a) = Lut!OnGrid(f)
    BY <2>1, TableOfIs DEF Lut!celu_table, Lut!selu_table, Lut!swish_table, Lut!softsign_table,
       Lut!logsigmoid_table, Lut!hardsigmoid_table, Lut!softplus_table, Lut!gelu_table,
       Lut!quick_gelu_table, Lut!elu_table, Lut!relu6_table, Lut!hardswish_table,
       Lut!mish_table, Lut!hardtanh_table, Lut!exp_table, Lut!exp2_table
  <2> QED BY <1>3, <1>8, <2>2, HalvesAre
<1>9. CASE a \notin 40 .. 55
  <2>1. a \in {14, 15, 28, 29, 30, 31, 32, 33, 34, 35, 36, 37, 38, 39}
    BY <1>9 DEF Algs
  <2> QED BY <1>4, <1>5, <1>6, <1>7, <2>1, TableOfIs
<1> QED BY <1>8, <1>9

(* What the loaders load.                                                  *)
LEMMA LoadedIs ==
  ASSUME Lut!LutAssumption
  PROVE  /\ \A x \in Inputs["asin"] : x \in Int /\ -30 <= x /\ x <= 30
         /\ \A x \in Inputs["acosh"] : x \in Int /\ 32 <= x /\ x <= 96
         /\ \A x \in Inputs["linear"] : x \in Int /\ -64 <= x /\ x <= 64
<1>1. /\ Inputs["linear"] \subseteq -64 .. 64 /\ Inputs["asin"] \subseteq -30 .. 30
      /\ Inputs["acosh"] \subseteq 32 .. 96
  BY Zenon DEF Lut!LutAssumption
<1>2. \A x \in -30 .. 30 : x \in Int /\ -30 <= x /\ x <= 30
  OBVIOUS
<1>3. \A x \in 32 .. 96 : x \in Int /\ 32 <= x /\ x <= 96
  OBVIOUS
<1>4. \A x \in -64 .. 64 : x \in Int /\ -64 <= x /\ x <= 64
  OBVIOUS
<1>5. ASSUME NEW x \in Inputs["asin"] PROVE x \in -30 .. 30
  BY <1>1, Zenon
<1>6. ASSUME NEW x \in Inputs["acosh"] PROVE x \in 32 .. 96
  BY <1>1, Zenon
<1>7. ASSUME NEW x \in Inputs["linear"] PROVE x \in -64 .. 64
  BY <1>1, Zenon
<1> QED BY <1>2, <1>3, <1>4, <1>5, <1>6, <1>7, Zenon

(* Whatever a case loads lies inside its table.                            *)
LEMMA LoadedIsInside ==
  ASSUME Lut!LutAssumption, NEW a \in Algs, NEW x \in Inputs[Lut!CaseOf(a).inputs]
  PROVE  Lut!Abs(Lut!Place(a, x)) < 16384
<1>1. CASE a \in {32, 33, 37}
  <2>1. Lut!CaseOf(a).inputs = "asin" /\ Lut!TableOf(a).operand = 16384
    BY <1>1, InputsOfCases, OperandOf
  <2>2. x \in Int /\ -30 <= x /\ x <= 30
    BY <2>1, LoadedIs
  <2>3. (x * 16384) \div 32 = x * 512
    BY <2>2
  <2>4. Lut!Place(a, x) = x * 512
    BY <2>1, <2>3 DEF Lut!Place
  <2> QED BY <2>2, <2>4 DEF Lut!Abs
<1>2. CASE a = 36
  <2>1. Lut!CaseOf(a).inputs = "acosh" /\ Lut!TableOf(a).operand = 5216
    BY <1>2, InputsOfCases, OperandOf
  <2>2. x \in Int /\ 32 <= x /\ x <= 96
    BY <2>1, LoadedIs
  <2>3. (x * 5216) \div 32 = x * 163
    BY <2>2
  <2>4. Lut!Place(a, x) = x * 163
    BY <2>1, <2>3 DEF Lut!Place
  <2> QED BY <2>2, <2>4 DEF Lut!Abs
<1>3. CASE a \notin {32, 33, 36, 37}
  <2>1. Lut!CaseOf(a).inputs = "linear" /\ Lut!TableOf(a).operand \in {2596, 2824, 5216}
    BY <1>3, InputsOfCases, OperandOf
  <2>2. x \in Int /\ -64 <= x /\ x <= 64
    BY <2>1, LoadedIs
  <2>3. \A m \in {2596, 2824, 5216} :
          (x * m) \div 32 \in Int /\ (x * m) \div 32 < 16384 /\ -16384 < (x * m) \div 32
    BY <2>2
  <2>4. Lut!Place(a, x) \in Int /\ Lut!Place(a, x) < 16384 /\ -16384 < Lut!Place(a, x)
    BY <2>1, <2>3 DEF Lut!Place
  <2> QED BY <2>4 DEF Lut!Abs
<1> QED BY <1>1, <1>2, <1>3

-----------------------------------------------------------------------------
(* The process: a static table is empty or the right one, whichever test   *)
(* filled it and whether its op then failed; and what is compared is what  *)
(* the right table holds.                                                  *)
Owners == {Lut!Owner(Tests[n]) : n \in DOMAIN Tests}
Sent(a, x) == Lut!LookUp(Lut!Filled(a), Lut!Place(a, x))
Found(a, x) == Lut!Value(a, Sent(a, x))

TablesRight == DOMAIN lut = Owners /\ \A b \in Owners : lut[b] \in {<<>>, Lut!Filled(b)}
LutTypes ==
  /\ lut_pc \in {"start", "run", "compare", "exit"}
  /\ test \in DOMAIN Tests /\ last \in test .. Len(Tests) /\ lut_status \in {0, -1}
Loaded == \E n \in 1 .. MaxSize : features \in [1 .. n -> Inputs[Lut!CaseOf(Tests[test]).inputs]]
LookedUp ==
  /\ output = [i \in DOMAIN features |-> Sent(Tests[test], features[i])]
  /\ result = [i \in DOMAIN features |-> Found(Tests[test], features[i])]

LutInv ==
  /\ LutTypes /\ TablesRight
  /\ lut_pc \in {"start", "exit"} => features = <<>> /\ output = <<>> /\ result = <<>>
  /\ lut_pc \in {"run", "compare"} => Loaded
  /\ lut_pc = "run" => output = <<>> /\ result = <<>>
  /\ lut_pc = "compare" => LookedUp

LEMMA TestsAre ==
  ASSUME Lut!LutAssumption
  PROVE  /\ DOMAIN Tests = 1 .. Len(Tests) /\ Len(Tests) \in Nat \ {0}
         /\ \A n \in DOMAIN Tests : Tests[n] \in Algs
         /\ Owners \subseteq Algs /\ MaxSize \in Nat \ {0}
<1>1. Tests \in Seq(Algs) /\ Tests # <<>> /\ MaxSize \in Nat \ {0}
  BY Zenon DEF Lut!LutAssumption, Algs
<1> HIDE DEF Algs
<1>2. DOMAIN Tests = 1 .. Len(Tests) /\ Len(Tests) \in Nat /\ Len(Tests) # 0
      /\ \A n \in DOMAIN Tests : Tests[n] \in Algs
  BY <1>1
<1>3. \A a \in Algs : Lut!Owner(a) \in Algs
  <2>1. 30 \in Algs
    BY DEF Algs
  <2> QED BY <2>1 DEF Lut!Owner
<1> QED BY <1>1, <1>2, <1>3 DEF Owners

LEMMA LutStarts ==
  ASSUME Lut!LutAssumption, Lut!Init
  PROVE  LutInv
<1>1. {Lut!Owner(b) : b \in Lut!Range(Tests)} = Owners
  BY DEF Owners, Lut!Range
<1>2. lut = [a \in Owners |-> <<>>]
  BY <1>1 DEF Lut!Init
<1>3. LutTypes
  <2>1. 1 \in DOMAIN Tests /\ Len(Tests) \in 1 .. Len(Tests)
    BY TestsAre
  <2>2. \A n \in DOMAIN Tests : n \in n .. Len(Tests)
    BY TestsAre
  <2>3. CASE test = 1 /\ last = Len(Tests)
    BY <2>1, <2>3 DEF LutTypes, Lut!Init
  <2>4. CASE test \in DOMAIN Tests /\ last = test
    BY <2>2, <2>4 DEF LutTypes, Lut!Init
  <2> QED BY <2>3, <2>4 DEF Lut!Init
<1>4. TablesRight
  BY <1>2 DEF TablesRight
<1> QED BY <1>3, <1>4 DEF LutInv, Lut!Init

LEMMA LutStartKeeps ==
  ASSUME LutInv, Lut!StartCase
  PROVE  LutInv'
<1>1. /\ lut_pc = "start" /\ lut_pc' = "run" /\ output' = <<>> /\ result' = <<>>
      /\ UNCHANGED <<test, last, lut, lut_status>>
      /\ \E n \in 1 .. MaxSize : features' \in [1 .. n -> Inputs[Lut!CaseOf(Tests[test]).inputs]]
  BY DEF Lut!StartCase, Lut!alg
<1>2. LutTypes' /\ TablesRight'
  BY <1>1 DEF LutInv, LutTypes, TablesRight
<1>3. Loaded'
  BY <1>1 DEF Loaded
<1> QED BY <1>1, <1>2, <1>3 DEF LutInv

LEMMA FillingIsRight ==
  ASSUME Lut!LutAssumption, LutTypes, TablesRight, Lut!FillOnce
  PROVE  TablesRight' /\ lut'[Lut!Owner(Tests[test])] = Lut!Filled(Tests[test])
<1> DEFINE a == Tests[test]
           b == Lut!Owner(a)
<1>1. a \in Algs /\ b \in Owners
  BY TestsAre DEF LutTypes, Owners
<1>2. Lut!Filled(b) = Lut!Filled(a)
  BY <1>1, OwnersTable
<1>3. lut' = IF lut[b] = <<>> THEN [lut EXCEPT ![b] = Lut!Filled(a)] ELSE lut
  BY DEF Lut!FillOnce, Lut!alg
<1> HIDE DEF a, b
<1>4. DOMAIN lut' = Owners /\ \A c \in Owners : lut'[c] \in {lut[c], Lut!Filled(c)}
  BY <1>1, <1>2, <1>3 DEF TablesRight
<1>5. lut'[b] = Lut!Filled(a)
  BY <1>1, <1>2, <1>3 DEF TablesRight
<1> QED BY <1>4, <1>5 DEF TablesRight, a, b

LEMMA RunOpKeeps ==
  ASSUME Lut!LutAssumption, LutInv, Lut!RunOp
  PROVE  LutInv'
<1> DEFINE a == Tests[test]
<1>1. /\ lut_pc = "run" /\ lut_pc' = "compare" /\ Lut!FillOnce
      /\ output' = [i \in DOMAIN features |-> Lut!LookUp(lut'[Lut!Owner(a)],
                                                          Lut!Place(a, features[i]))]
      /\ result' = [i \in DOMAIN output' |-> Lut!Value(a, output'[i])]
      /\ UNCHANGED <<test, last, features, lut_status>>
  BY DEF Lut!RunOp, Lut!alg
<1>2. TablesRight' /\ lut'[Lut!Owner(a)] = Lut!Filled(a)
  BY <1>1, FillingIsRight DEF LutInv
<1>3. LutTypes' /\ Loaded'
  BY <1>1 DEF LutInv, LutTypes, Loaded
<1>4. output' = [i \in DOMAIN features |-> Sent(a, features[i])]
  BY <1>1, <1>2 DEF Sent
<1>5. result' = [i \in DOMAIN features |-> Found(a, features[i])]
  BY <1>1, <1>4 DEF Found
<1>6. LookedUp'
  BY <1>1, <1>4, <1>5 DEF LookedUp
<1> QED BY <1>1, <1>2, <1>3, <1>6 DEF LutInv

LEMMA LeavingKeeps ==
  ASSUME Lut!LutAssumption, LutTypes, TablesRight', NEW n, Lut!Leave(n)
  PROVE  LutInv'
<1>1. /\ lut_status' = IF n # 0 THEN -1 ELSE lut_status
      /\ lut_pc' = IF test = last THEN "exit" ELSE "start"
      /\ test' = IF test = last THEN test ELSE test + 1
      /\ features' = <<>> /\ output' = <<>> /\ result' = <<>> /\ UNCHANGED last
  BY DEF Lut!Leave
<1>2. test \in 1 .. Len(Tests) /\ last \in test .. Len(Tests) /\ Len(Tests) \in Nat
      /\ DOMAIN Tests = 1 .. Len(Tests)
  BY TestsAre DEF LutTypes
<1>3. test' \in DOMAIN Tests /\ last' \in test' .. Len(Tests)
  BY <1>1, <1>2
<1>4. LutTypes'
  BY <1>1, <1>3 DEF LutTypes
<1> QED BY <1>1, <1>4 DEF LutInv

LEMMA OpFailsKeeps ==
  ASSUME Lut!LutAssumption, LutInv, Lut!OpFails
  PROVE  LutInv'
<1>1. LutTypes /\ TablesRight /\ Lut!Leave(-1) /\ (Lut!FillOnce \/ UNCHANGED lut)
  BY DEF LutInv, Lut!OpFails
<1>2. TablesRight'
  BY <1>1, FillingIsRight DEF TablesRight
<1> QED BY <1>1, <1>2, LeavingKeeps

LEMMA LutCompareKeeps ==
  ASSUME Lut!LutAssumption, LutInv, Lut!Compare
  PROVE  LutInv'
<1>1. LutTypes /\ TablesRight /\ UNCHANGED lut /\ \E n : Lut!Leave(n)
  BY DEF LutInv, Lut!Compare
<1>2. TablesRight'
  BY <1>1 DEF TablesRight
<1> QED BY <1>1, <1>2, LeavingKeeps

LEMMA LutStays ==
  ASSUME LutInv, UNCHANGED lutVars
  PROVE  LutInv'
<1>1. UNCHANGED <<lut_pc, test, last, features, output, result, lut, lut_status>>
  BY DEF lutVars
<1> QED BY <1>1 DEF LutInv, LutTypes, TablesRight, Loaded, LookedUp

LEMMA LutTypeOK ==
  ASSUME Lut!LutAssumption, LutInv
  PROVE  Lut!TypeOK /\ Lut!TablesMeet
<1>1. \A b \in DOMAIN lut : lut[b] # <<>> =>
        /\ {512, 513} \subseteq DOMAIN lut[b]
        /\ \A i \in DOMAIN lut[b] : lut[b][i] \in (IF b = 15 THEN -32768 ELSE 0) .. 32767
        /\ lut[b][512] = lut[b][513]
  <2> SUFFICES ASSUME NEW b \in DOMAIN lut, lut[b] # <<>>
               PROVE  /\ {512, 513} \subseteq DOMAIN lut[b]
                      /\ \A i \in DOMAIN lut[b] :
                           lut[b][i] \in (IF b = 15 THEN -32768 ELSE 0) .. 32767
                      /\ lut[b][512] = lut[b][513]
    OBVIOUS
  <2>1. lut[b] = Lut!Filled(b) /\ b \in Algs
    BY TestsAre DEF LutInv, TablesRight
  <2>2. /\ {512, 513} \subseteq DOMAIN Lut!Filled(b)
        /\ \A i \in DOMAIN Lut!Filled(b) :
             Lut!Filled(b)[i] \in (IF b = 15 THEN -32768 ELSE 0) .. 32767
        /\ Lut!Filled(b)[512] = Lut!Filled(b)[513]
    BY <2>1, FilledIs
  <2> DEFINE f == Lut!Filled(b)
             Fits == (IF b = 15 THEN -32768 ELSE 0) .. 32767
  <2>3. lut[b] = f /\ {512, 513} \subseteq DOMAIN f /\ (\A i \in DOMAIN f : f[i] \in Fits)
        /\ f[512] = f[513]
    BY <2>1, <2>2
  <2> HIDE DEF f, Fits
  <2>4. {512, 513} \subseteq DOMAIN lut[b] /\ (\A i \in DOMAIN lut[b] : lut[b][i] \in Fits)
        /\ lut[b][512] = lut[b][513]
    BY <2>3
  <2> QED BY <2>4 DEF Fits
<1>2. Len(features) <= MaxSize /\ DOMAIN result = DOMAIN output
  <2>1. CASE lut_pc \in {"run", "compare"}
    <3>1. PICK n \in 1 .. MaxSize :
            features \in [1 .. n -> Inputs[Lut!CaseOf(Tests[test]).inputs]]
      BY <2>1 DEF LutInv, Loaded
    <3>2. Len(features) = n /\ n <= MaxSize
      BY <3>1, TestsAre
    <3>3. DOMAIN result = DOMAIN output
      BY <2>1 DEF LutInv, LookedUp
    <3> QED BY <3>2, <3>3, TestsAre
  <2>2. CASE lut_pc \in {"start", "exit"}
    <3>1. Len(<<>>) = 0 /\ 0 <= MaxSize
      BY TestsAre
    <3> QED BY <2>2, <3>1 DEF LutInv
  <2> QED BY <2>1, <2>2 DEF LutInv, LutTypes
<1> QED BY <1>1, <1>2 DEF LutInv, LutTypes, Lut!TypeOK, Lut!TablesMeet

LEMMA LookUpsStayInside ==
  ASSUME Lut!LutAssumption, LutInv
  PROVE  Lut!InputsInsideTable
<1>1. ASSUME NEW i \in DOMAIN features
      PROVE  Lut!Abs(Lut!Place(Tests[test], features[i])) < 16384
  <2>1. CASE lut_pc \in {"run", "compare"}
    <3>1. features[i] \in Inputs[Lut!CaseOf(Tests[test]).inputs]
      BY <2>1 DEF LutInv, Loaded
    <3>2. Tests[test] \in Algs
      BY TestsAre DEF LutInv, LutTypes
    <3> QED BY <3>1, <3>2, LoadedIsInside
  <2>2. CASE lut_pc \in {"start", "exit"}
    <3>1. features = <<>>
      BY <2>2 DEF LutInv
    <3> QED BY <3>1
  <2> QED BY <2>1, <2>2 DEF LutInv, LutTypes
<1> QED BY <1>1 DEF Lut!InputsInsideTable, Lut!alg

(* One look-up of each test is as near to its function as a table allows:  *)
(* a statement about the library and its tables, not about any run.        *)
EachLookUpIsRight ==
  \A n \in DOMAIN Tests : \A x \in Inputs[Lut!CaseOf(Tests[n]).inputs] :
    Lut!Abs(Found(Tests[n], x) - Lut!Expected(Tests[n], x)) <= Lut!OneStep(Tests[n])

LEMMA ResultsAreFunctions ==
  ASSUME Lut!LutAssumption, LutInv, EachLookUpIsRight
  PROVE  Lut!ResultIsFunction
<1> SUFFICES ASSUME lut_pc = "compare", NEW i \in DOMAIN result
             PROVE  Lut!Abs(result[i] - Lut!Expected(Tests[test], features[i]))
                      <= Lut!OneStep(Tests[test])
  BY DEF Lut!ResultIsFunction, Lut!alg
<1>1. i \in DOMAIN features /\ result[i] = Found(Tests[test], features[i])
  BY DEF LutInv, LookedUp
<1>2. features[i] \in Inputs[Lut!CaseOf(Tests[test]).inputs]
  BY <1>1 DEF LutInv, Loaded
<1>3. test \in DOMAIN Tests
  BY DEF LutInv, LutTypes
<1>4. Lut!Abs(Found(Tests[test], features[i]) - Lut!Expected(Tests[test], features[i]))
        <= Lut!OneStep(Tests[test])
  BY <1>2, <1>3, Zenon DEF EachLookUpIsRight
<1> QED BY <1>1, <1>4

LEMMA LutProcess ==
  ElementwiseSpec => [](process = "lut" => LutInv)
<1> DEFINE Inv == process = "lut" => LutInv
<1>1. ElementwiseInit => Inv
  BY LutStarts, ElementwiseAssumption DEF ElementwiseInit
<1>2. Inv /\ [ElementwiseNext]_<<process, vars, caseVars, lutVars, minmaxVars>> => Inv'
  <2> SUFFICES ASSUME Inv, [ElementwiseNext]_<<process, vars, caseVars, lutVars, minmaxVars>>,
                      process' = "lut"
               PROVE  LutInv'
    OBVIOUS
  <2>1. CASE process = "lut" /\ Lut!Next
    <3>1. Lut!LutAssumption /\ LutInv
      BY <2>1, ElementwiseAssumption
    <3>2. ASSUME Lut!Exit PROVE UNCHANGED lutVars
      BY <3>2 DEF Lut!Exit, Lut!vars, lutVars
    <3> QED BY <2>1, <3>1, <3>2, LutStartKeeps, RunOpKeeps, OpFailsKeeps, LutCompareKeeps,
               LutStays DEF Lut!Next
  <2>2. CASE UNCHANGED <<process, lutVars>>
    <3>1. LutInv
      BY <2>2
    <3>2. UNCHANGED lutVars
      BY <2>2
    <3> QED BY <3>1, <3>2, LutStays
  <2>3. CASE process' # "lut"
    BY <2>3
  <2>4. (process = "lut" /\ Lut!Next) \/ UNCHANGED <<process, lutVars>> \/ process' # "lut"
    BY DEF ElementwiseNext
  <2> QED BY <2>1, <2>2, <2>3, <2>4
<1> QED BY <1>1, <1>2, PTL DEF ElementwiseSpec

(***************************************************************************)
(* The look-up tests, for any library, tests, inputs and size of a case: a *)
(* static table is never read before it is filled, holds what the test     *)
(* that reads it needs though tan and tanh share theirs, and stays right   *)
(* when an op fails around its filling; its sides meet, and no input lies  *)
(* beyond its ends.                                                        *)
(***************************************************************************)
THEOREM TablesAreRight ==
  ElementwiseSpec =>
    [](process = "lut" =>
         /\ Lut!TypeOK /\ Lut!TablesMeet /\ Lut!InputsInsideTable
         /\ TablesRight /\ (lut_pc = "compare" => LookedUp))
<1>1. (process = "lut" => LutInv) =>
        (process = "lut" =>
           /\ Lut!TypeOK /\ Lut!TablesMeet /\ Lut!InputsInsideTable
           /\ TablesRight /\ (lut_pc = "compare" => LookedUp))
  BY LutTypeOK, LookUpsStayInside, ElementwiseAssumption DEF LutInv
<1> QED BY <1>1, LutProcess, PTL

(***************************************************************************)
(* So if every single look-up of a right table is near enough to its       *)
(* function, every result of every run is, and LookupsSound holds.         *)
(***************************************************************************)
THEOREM LookupsAreSound ==
  ASSUME EachLookUpIsRight
  PROVE  ElementwiseSpec => []LookupsSound
<1>1. (process = "lut" => LutInv) => LookupsSound
  BY LutTypeOK, LookUpsStayInside, ResultsAreFunctions, EachLookUpIsRight, ElementwiseAssumption
  DEF LookupsSound
<1> QED BY <1>1, LutProcess, PTL
=============================================================================
