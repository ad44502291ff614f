----------------------- MODULE RuntimePrograms_proofs -----------------------
(***************************************************************************)
(* What the scripts of RuntimePrograms promise, for cases of any size: by  *)
(* whichever branch a case is left, its calls come in an order the runtime *)
(* allows, read what the output has, and give everything back.  A script   *)
(* is proved piece by piece: Leads(m, A, script, B) says that the script,  *)
(* begun in a state of A, makes calls that are allowed, recovers when one  *)
(* of them fails, and ends in B.                                           *)
(***************************************************************************)
EXTENDS MCVendorRuntime, IndexArithmetic, TLAPS, SequenceTheorems

LEMMA FlattenUnfolds ==
  ASSUME NEW q, Len(q) # 0
  PROVE  FlattenSeq(q) = (CHOOSE f : Flattened(q, f))[Len(q)]
BY DEF FlattenSeq, Flattened

(* A script repeated n times, one end on the other.                        *)
LEMMA FlattenLoop ==
  ASSUME NEW n \in Nat \ {0}, NEW e
  PROVE  \E f : /\ FlattenSeq([i \in 1..n |-> e]) = f[n]
                /\ f[1] = e
                /\ \A i \in 1..(n - 1) : f[i + 1] = f[i] \o e
<1> DEFINE q == [i \in 1..n |-> e]
           f == CHOOSE g : Flattened(q, g)
<1>1. Len(q) = n
  OBVIOUS
<1>2. FlattenSeq(q) = f[n]
  BY <1>1, FlattenUnfolds
<1>3. Flattened(q, f)
  BY <1>1, FlattenExists
<1> HIDE DEF f
<1>4. f = [i \in 1..n |-> IF i = 1 THEN q[i] ELSE f[i - 1] \o q[i]]
  BY <1>1, <1>3 DEF Flattened
<1>5. \A i \in 1..n : f[i] = IF i = 1 THEN q[i] ELSE f[i - 1] \o q[i]
  BY <1>4
<1>6. f[1] = e
  BY <1>5
<1>7. ASSUME NEW i \in 1..(n - 1)
      PROVE  f[i + 1] = f[i] \o e
  <2>1. i + 1 \in 1..n /\ i + 1 # 1 /\ (i + 1) - 1 = i
    OBVIOUS
  <2> QED BY <1>5, <2>1
<1> QED BY <1>2, <1>6, <1>7

-----------------------------------------------------------------------------
(* The programs on the runtime. A state of a case is what the runtime and  *)
(* the program hold at a call; the calls of a script are a walk through    *)
(* such states.                                                            *)
(*   out       the output buffer holds the elements of the case            *)
(*   taken     a bound on the elements read                                *)
(*   clean     no element of the output is a NaN                           *)
(*   sure      none of those read is                                       *)
(*   compared  a verdict was printed                                       *)
CaseState ==
  [ctx : BOOLEAN, fed : BOOLEAN, ran : BOOLEAN, held : BOOLEAN, mems : 0..3,
   out : BOOLEAN, taken : 0..Many, clean : BOOLEAN, sure : BOOLEAN, compared : BOOLEAN]

(* Calls of a script in mode m: whole, when the output has as many         *)
(* elements as the case; strict, when no NaN may come to the comparison.   *)
Modes == [whole : BOOLEAN, strict : BOOLEAN]

Allowed(m, c, s) ==
  /\ c = "init" => ~s.ctx
  /\ c \in {"set", "bind", "run", "get", "release", "create_mem", "destroy_mem", "destroy"}
       => s.ctx
  /\ c = "run" => s.fed
  /\ c = "get" => s.ran /\ ~s.held
  /\ c = "release" => s.held
  /\ c = "create_mem" => s.mems < 3
  /\ c = "destroy_mem" => s.mems > 0
  /\ c = "destroy" => ~s.held /\ s.mems = 0
  /\ c \in {"copy", "copy_int"} => s.out /\ m.whole /\ ~s.compared
  /\ c = "take" => s.out /\ s.taken < Many /\ ~s.compared
  /\ c = "compare" /\ m.strict => s.sure

After(c, s) ==
  [ctx |-> IF c = "init" THEN TRUE ELSE IF c = "destroy" THEN FALSE ELSE s.ctx,
   fed |-> IF c \in {"set", "bind"} THEN TRUE ELSE IF c = "destroy" THEN FALSE ELSE s.fed,
   ran |-> IF c = "run" THEN TRUE
           ELSE IF c \in {"set", "bind", "destroy"} THEN FALSE ELSE s.ran,
   held |-> IF c = "get" THEN TRUE ELSE IF c = "release" THEN FALSE ELSE s.held,
   mems |-> IF c = "create_mem" THEN s.mems + 1
            ELSE IF c = "destroy_mem" THEN s.mems - 1 ELSE s.mems,
   out |-> IF c \in {"get", "read_mem"} THEN TRUE
           ELSE IF c \in {"release", "destroy_mem", "destroy"} THEN FALSE ELSE s.out,
   taken |-> IF c = "take" THEN s.taken + 1
             ELSE IF c \in {"copy", "copy_int"} THEN Many ELSE s.taken,
   clean |-> IF c = "finite" THEN TRUE
             ELSE IF c \in {"get", "read_mem"} THEN FALSE ELSE s.clean,
   sure |-> IF c \in {"copy", "copy_int"} THEN s.clean
            ELSE IF c = "take" THEN s.sure /\ s.clean ELSE s.sure,
   compared |-> IF c \in {"compare", "compare_finite"} THEN TRUE ELSE s.compared]

Names ==
  {"load", "init", "query", "check", "fill", "set", "run", "get", "convert", "create_mem",
   "set_io_mem", "bind", "mem_sync", "read_mem", "type", "size", "finite", "copy", "copy_int",
   "take", "compare", "compare_finite", "release", "destroy_mem", "destroy"}
Calls == [call : Names, undo : Seq(Names)]
Scripts == Seq(Calls)

(* Nothing of the runtime is held.                                         *)
Given(s) == ~s.ctx /\ ~s.fed /\ ~s.ran /\ ~s.held /\ s.mems = 0

Walk(m, script, st) ==
  /\ script \in Scripts
  /\ st \in [1..(Len(script) + 1) -> CaseState]
  /\ \A i \in 1..Len(script) :
       Allowed(m, script[i].call, st[i]) /\ st[i + 1] = After(script[i].call, st[i])

(* The clean-up of a failing branch gives everything back.                 *)
GiveBacks == {"release", "destroy_mem", "destroy"}

Unwinds(m, calls, s) ==
  calls \in Seq(GiveBacks) /\ \E st : Walk(m, Sure(calls), st) /\ st[1] = s /\ Given(st[Len(Sure(calls)) + 1])

MayFail == Fallible \cup {"type", "size", "finite"}

Recovers(m, call, s) ==
  call.call \in MayFail => Unwinds(m, call.undo, s)

Conducts(m, script, st) ==
  Walk(m, script, st) /\ \A i \in 1..Len(script) : Recovers(m, script[i], st[i])

(* From any state of A the script leads into B, whatever fails.            *)
Leads(m, A, script, B) ==
  \A s \in A : \E st : /\ Conducts(m, script, st)
                       /\ st[1] = s /\ st[Len(script) + 1] \in B

-----------------------------------------------------------------------------
(* A walk after its first call.                                            *)
LEMMA WalkTail ==
  ASSUME NEW m, NEW script, NEW st, Walk(m, script, st), script # <<>>
  PROVE  /\ Allowed(m, Head(script).call, st[1])
         /\ st[1] \in CaseState /\ After(Head(script).call, st[1]) \in CaseState
         /\ \E next : /\ Walk(m, Tail(script), next)
                      /\ next[1] = After(Head(script).call, st[1])
                      /\ next[Len(Tail(script)) + 1] = st[Len(script) + 1]
                      /\ \A i \in 1..Len(Tail(script)) :
                           /\ Tail(script)[i] = script[i + 1] /\ next[i] = st[i + 1]
                           /\ i + 1 \in 1..Len(script)
<1>1. /\ script \in Scripts /\ Len(script) \in Nat \ {0} /\ Head(script) = script[1]
      /\ Tail(script) \in Scripts /\ Len(Tail(script)) = Len(script) - 1
      /\ \A i \in 1..Len(Tail(script)) : Tail(script)[i] = script[i + 1]
  BY DEF Walk, Scripts
<1> DEFINE n == Len(script)
           next == [i \in 1..n |-> st[i + 1]]
<1>2. /\ st \in [1..(n + 1) -> CaseState]
      /\ \A i \in 1..n : Allowed(m, script[i].call, st[i]) /\ st[i + 1] = After(script[i].call, st[i])
  BY DEF Walk
<1>3. /\ 1 \in 1..n /\ Allowed(m, script[1].call, st[1]) /\ st[2] = After(script[1].call, st[1])
      /\ st[1] \in CaseState /\ st[2] \in CaseState
  <2>1. 1 \in 1..n /\ 1 \in 1..(n + 1) /\ 2 \in 1..(n + 1) /\ 1 + 1 = 2
    BY <1>1
  <2> QED BY <1>2, <2>1
<1>4. \A i \in 1..(n - 1) : i + 1 \in 1..n /\ i \in 1..n
  BY <1>1
<1> HIDE DEF n
<1>5. next \in [1..((n - 1) + 1) -> CaseState]
  <2>1. n \in Nat
    BY <1>1 DEF n
  <2>2. \A i \in 1..n : i + 1 \in 1..(n + 1)
    BY <2>1
  <2>3. (n - 1) + 1 = n
    BY <2>1
  <2> QED BY <1>2, <2>2, <2>3
<1>6. \A i \in 1..(n - 1) :
        /\ Allowed(m, Tail(script)[i].call, next[i])
        /\ next[i + 1] = After(Tail(script)[i].call, next[i])
  <2> SUFFICES ASSUME NEW i \in 1..(n - 1)
               PROVE  /\ Allowed(m, Tail(script)[i].call, next[i])
                      /\ next[i + 1] = After(Tail(script)[i].call, next[i])
    OBVIOUS
  <2>1. next[i] = st[i + 1] /\ next[i + 1] = st[(i + 1) + 1]
    BY <1>4
  <2>2. Tail(script)[i] = script[i + 1]
    BY <1>1 DEF n
  <2> QED BY <1>2, <1>4, <2>1, <2>2
<1>7. Walk(m, Tail(script), next)
  BY <1>1, <1>5, <1>6 DEF Walk, n
<1>8. next[1] = st[2] /\ next[Len(Tail(script)) + 1] = st[Len(script) + 1]
  <2>1. Len(Tail(script)) + 1 = n /\ n \in 1..n /\ n \in Nat
    BY <1>1 DEF n
  <2>2. next[n] = st[n + 1] /\ next[1] = st[1 + 1]
    BY <2>1, <1>3
  <2> QED BY <2>1, <2>2 DEF n
<1>9. \A i \in 1..Len(Tail(script)) : next[i] = st[i + 1] /\ i + 1 \in 1..Len(script)
  BY <1>1, <1>4 DEF n
<1> HIDE DEF next
<1> QED BY <1>1, <1>3, <1>7, <1>8, <1>9

LEMMA ConductsTail ==
  ASSUME NEW m, NEW script, NEW st, Conducts(m, script, st), script # <<>>
  PROVE  /\ Recovers(m, Head(script), st[1])
         /\ \E next : /\ Conducts(m, Tail(script), next)
                      /\ next[1] = After(Head(script).call, st[1])
                      /\ next[Len(Tail(script)) + 1] = st[Len(script) + 1]
<1>1. Walk(m, script, st) /\ \A i \in 1..Len(script) : Recovers(m, script[i], st[i])
  BY DEF Conducts
<1>2. 1 \in 1..Len(script) /\ Head(script) = script[1]
  BY <1>1 DEF Walk, Scripts
<1>3. PICK next : /\ Walk(m, Tail(script), next)
                  /\ next[1] = After(Head(script).call, st[1])
                  /\ next[Len(Tail(script)) + 1] = st[Len(script) + 1]
                  /\ \A i \in 1..Len(Tail(script)) :
                       /\ Tail(script)[i] = script[i + 1] /\ next[i] = st[i + 1]
                       /\ i + 1 \in 1..Len(script)
  BY <1>1, WalkTail
<1>4. \A i \in 1..Len(Tail(script)) : Recovers(m, Tail(script)[i], next[i])
  BY <1>1, <1>3
<1> QED BY <1>1, <1>2, <1>3, <1>4 DEF Conducts

(* One script after the other.                                             *)
LEMMA LeadsJoin ==
  ASSUME NEW m, NEW A, NEW B, NEW E, NEW a, NEW b, Leads(m, A, a, B), Leads(m, B, b, E)
  PROVE  Leads(m, A, a \o b, E)
<1> SUFFICES ASSUME NEW s \in A
             PROVE  \E st : /\ Conducts(m, a \o b, st)
                            /\ st[1] = s /\ st[Len(a \o b) + 1] \in E
  BY DEF Leads
<1>1. PICK sa : Conducts(m, a, sa) /\ sa[1] = s /\ sa[Len(a) + 1] \in B
  BY DEF Leads
<1>2. PICK sb : Conducts(m, b, sb) /\ sb[1] = sa[Len(a) + 1] /\ sb[Len(b) + 1] \in E
  BY <1>1 DEF Leads
<1> DEFINE x == Len(a)
           y == Len(b)
           ab == a \o b
           st == [i \in 1..(x + y + 1) |-> IF i <= x THEN sa[i] ELSE sb[i - x]]
<1>3. /\ a \in Scripts /\ b \in Scripts /\ ab \in Scripts
      /\ x \in Nat /\ y \in Nat /\ Len(ab) = x + y
      /\ \A i \in 1..x : ab[i] = a[i]
      /\ \A i \in (x + 1)..(x + y) : ab[i] = b[i - x]
  BY <1>1, <1>2 DEF Conducts, Walk, Scripts
<1>4. /\ sa \in [1..(x + 1) -> CaseState]
      /\ \A i \in 1..x : /\ Allowed(m, a[i].call, sa[i]) /\ sa[i + 1] = After(a[i].call, sa[i])
                         /\ Recovers(m, a[i], sa[i])
  BY <1>1 DEF Conducts, Walk
<1>5. /\ sb \in [1..(y + 1) -> CaseState]
      /\ \A i \in 1..y : /\ Allowed(m, b[i].call, sb[i]) /\ sb[i + 1] = After(b[i].call, sb[i])
                         /\ Recovers(m, b[i], sb[i])
  BY <1>2 DEF Conducts, Walk
<1> HIDE DEF x, y, ab
<1>6. st \in [1..((x + y) + 1) -> CaseState]
  <2>1. ASSUME NEW i \in 1..((x + y) + 1)
        PROVE  (IF i <= x THEN sa[i] ELSE sb[i - x]) \in CaseState
    <3>1. CASE i <= x
      <4>1. i \in 1..(x + 1)
        BY <1>3, <3>1
      <4> QED BY <1>4, <3>1, <4>1
    <3>2. CASE ~(i <= x)
      <4>1. i - x \in 1..(y + 1)
        BY <1>3, <3>2
      <4> QED BY <1>5, <3>2, <4>1
    <3> QED BY <3>1, <3>2
  <2> QED BY <2>1, <1>3
<1>7. ASSUME NEW i \in 1..(x + y)
      PROVE  /\ Allowed(m, ab[i].call, st[i]) /\ st[i + 1] = After(ab[i].call, st[i])
             /\ Recovers(m, ab[i], st[i])
  <2>1. i \in Nat /\ i \in 1..(x + y + 1) /\ i + 1 \in 1..(x + y + 1)
    BY <1>3
  <2>2. CASE i <= x
    <3>1. i \in 1..x
      BY <1>3, <2>1, <2>2
    <3>2. st[i] = sa[i]
      BY <2>1, <2>2
    <3>3. st[i + 1] = sa[i + 1]
      <4>1. CASE i + 1 <= x
        BY <2>1, <4>1
      <4>2. CASE ~(i + 1 <= x)
        <5>1. i + 1 = x + 1 /\ (i + 1) - x = 1
          BY <1>3, <2>2, <2>1, <4>2
        <5>2. st[i + 1] = sb[1]
          BY <2>1, <4>2, <5>1
        <5> QED BY <1>2, <5>1, <5>2 DEF x
      <4> QED BY <4>1, <4>2
    <3> QED BY <1>3, <1>4, <3>1, <3>2, <3>3
  <2>3. CASE ~(i <= x)
    <3>1. i - x \in 1..y /\ i \in (x + 1)..(x + y) /\ ~(i + 1 <= x) /\ (i + 1) - x = (i - x) + 1
      BY <1>3, <2>1, <2>3
    <3>2. st[i] = sb[i - x] /\ st[i + 1] = sb[(i - x) + 1]
      BY <2>1, <2>3, <3>1
    <3> QED BY <1>3, <1>5, <3>1, <3>2
  <2> QED BY <2>2, <2>3
<1>8. st[1] = s
  <2>1. 1 \in 1..(x + y + 1)
    BY <1>3
  <2>2. CASE 1 <= x
    BY <1>1, <2>1, <2>2
  <2>3. CASE ~(1 <= x)
    <3>1. x = 0 /\ 1 - x = 1
      BY <1>3, <2>3
    <3> QED BY <1>1, <1>2, <2>1, <2>3, <3>1 DEF x
  <2> QED BY <2>2, <2>3
<1>9. st[Len(ab) + 1] \in E
  <2>1. /\ x + y + 1 \in 1..(x + y + 1) /\ ~(x + y + 1 <= x)
        /\ (x + y + 1) - x = y + 1 /\ Len(ab) + 1 = x + y + 1
    BY <1>3
  <2>2. st[x + y + 1] = sb[y + 1]
    BY <2>1
  <2> QED BY <1>2, <2>1, <2>2 DEF y
<1> HIDE DEF st
<1>10. Conducts(m, ab, st)
  BY <1>3, <1>6, <1>7 DEF Conducts, Walk
<1> QED BY <1>8, <1>9, <1>10 DEF ab

(* The calls of Steps, and the scripts that one call and more make.        *)
LEMMA StepsAre ==
  ASSUME NEW calls \in Seq(Names), NEW undo \in Seq(Names)
  PROVE  /\ Steps(calls, undo) \in Scripts /\ Len(Steps(calls, undo)) = Len(calls)
         /\ \A i \in 1..Len(calls) : Steps(calls, undo)[i] = Step(calls[i], undo)
<1>1. Len(calls) \in Nat /\ DOMAIN calls = 1..Len(calls) /\ \A i \in 1..Len(calls) : calls[i] \in Names
  OBVIOUS
<1>2. Steps(calls, undo) = [i \in 1..Len(calls) |-> Step(calls[i], undo)]
  BY <1>1 DEF Steps
<1>3. \A i \in 1..Len(calls) : Step(calls[i], undo) \in Calls
  BY <1>1 DEF Step, Calls
<1>4. Steps(calls, undo) \in [1..Len(calls) -> Calls]
  BY <1>2, <1>3
<1>5. Len(Steps(calls, undo)) = Len(calls)
  BY <1>1, <1>2
<1> QED BY <1>1, <1>2, <1>4, <1>5 DEF Scripts

(* A list of calls begun with one more.                                    *)
LEMMA StepsSplit ==
  ASSUME NEW a \in Seq(Names), NEW b \in Seq(Names), NEW undo \in Seq(Names)
  PROVE  Steps(a \o b, undo) = Steps(a, undo) \o Steps(b, undo)
<1> DEFINE ab == a \o b
           x == Steps(a, undo)
           y == Steps(b, undo)
           z == Steps(ab, undo)
<1>1. /\ ab \in Seq(Names) /\ Len(ab) = Len(a) + Len(b) /\ Len(a) \in Nat /\ Len(b) \in Nat
      /\ \A i \in 1..Len(a) : ab[i] = a[i]
      /\ \A i \in (Len(a) + 1)..(Len(a) + Len(b)) : ab[i] = b[i - Len(a)]
  OBVIOUS
<1> HIDE DEF ab
<1>2. /\ x \in Scripts /\ Len(x) = Len(a) /\ \A i \in 1..Len(a) : x[i] = Step(a[i], undo)
      /\ y \in Scripts /\ Len(y) = Len(b) /\ \A i \in 1..Len(b) : y[i] = Step(b[i], undo)
      /\ z \in Scripts /\ Len(z) = Len(ab) /\ \A i \in 1..Len(ab) : z[i] = Step(ab[i], undo)
  BY <1>1, StepsAre
<1> HIDE DEF x, y, z
<1>3. /\ x \o y \in Scripts /\ Len(x \o y) = Len(a) + Len(b)
      /\ \A i \in 1..(Len(a) + Len(b)) :
           (x \o y)[i] = IF i <= Len(a) THEN x[i] ELSE y[i - Len(a)]
  <2>1. x \in Seq(Calls) /\ y \in Seq(Calls)
    BY <1>2 DEF Scripts
  <2>2. /\ x \o y \in Seq(Calls) /\ Len(x \o y) = Len(x) + Len(y)
        /\ \A i \in 1..(Len(x) + Len(y)) :
             (x \o y)[i] = IF i <= Len(x) THEN x[i] ELSE y[i - Len(x)]
    BY <2>1, ConcatProperties
  <2> QED BY <1>2, <2>2 DEF Scripts
<1>4. ASSUME NEW i \in 1..(Len(a) + Len(b)) PROVE (x \o y)[i] = z[i]
  <2>1. CASE i <= Len(a)
    <3>1. i \in 1..Len(a)
      BY <1>1, <2>1
    <3>2. (x \o y)[i] = x[i]
      BY <1>3, <2>1
    <3> QED BY <1>1, <1>2, <3>1, <3>2
  <2>2. CASE ~(i <= Len(a))
    <3>1. i \in (Len(a) + 1)..(Len(a) + Len(b)) /\ i - Len(a) \in 1..Len(b)
      BY <1>1, <2>2
    <3>2. (x \o y)[i] = y[i - Len(a)]
      BY <1>3, <2>2
    <3>3. z[i] = Step(ab[i], undo) /\ ab[i] = b[i - Len(a)]
      BY <1>1, <1>2, <3>1
    <3> QED BY <1>2, <3>1, <3>2, <3>3
  <2> QED BY <2>1, <2>2
<1>5. x \o y = z
  <2>1. x \o y \in Scripts /\ z \in Scripts /\ Len(x \o y) = Len(z)
    BY <1>1, <1>2, <1>3
  <2>2. \A i \in 1..Len(z) : (x \o y)[i] = z[i]
    BY <1>1, <1>2, <1>4
  <2> QED BY <2>1, <2>2, SeqEqual DEF Scripts
<1> QED BY <1>5 DEF x, y, z, ab

LEMMA NoCalls ==
  ASSUME NEW m, NEW A \in SUBSET CaseState
  PROVE  Leads(m, A, <<>>, A)
<1> SUFFICES ASSUME NEW s \in A
             PROVE  \E st : /\ Conducts(m, <<>>, st)
                            /\ st[1] = s /\ st[Len(<<>>) + 1] \in A
  BY DEF Leads
<1> DEFINE st == [i \in 1..1 |-> s]
<1>1. Conducts(m, <<>>, st)
  BY DEF Conducts, Walk, Scripts
<1>2. st[1] = s /\ st[Len(<<>>) + 1] \in A
  OBVIOUS
<1> HIDE DEF st
<1> QED BY <1>1, <1>2

LEMMA OneCall ==
  ASSUME NEW m, NEW A \in SUBSET CaseState, NEW B \in SUBSET CaseState,
         NEW c \in Names, NEW undo \in Seq(Names),
         \A s \in A : Allowed(m, c, s) /\ After(c, s) \in B,
         c \in MayFail => \A s \in A : Unwinds(m, undo, s)
  PROVE  Leads(m, A, Steps(<<c>>, undo), B)
<1> DEFINE script == Steps(<<c>>, undo)
<1>1. script \in Scripts /\ Len(script) = 1 /\ script[1] = Step(c, undo)
  <2> DEFINE calls == <<c>>
  <2>2. calls \in Seq(Names) /\ Len(calls) = 1 /\ 1 \in 1..Len(calls) /\ calls[1] = c
    OBVIOUS
  <2> HIDE DEF calls
  <2>3. Steps(calls, undo) \in Scripts /\ Len(Steps(calls, undo)) = 1
        /\ Steps(calls, undo)[1] = Step(c, undo)
    BY <2>2, StepsAre
  <2> QED BY <2>3 DEF calls
<1> HIDE DEF script
<1> SUFFICES ASSUME NEW s \in A
             PROVE  \E st : /\ Conducts(m, script, st)
                            /\ st[1] = s /\ st[Len(script) + 1] \in B
  BY DEF Leads, script
<1> DEFINE st == [i \in 1..2 |-> IF i = 1 THEN s ELSE After(c, s)]
<1>2. st[1] = s /\ st[2] = After(c, s) /\ st \in [1..2 -> CaseState] /\ After(c, s) \in B
  <2> DEFINE t == After(c, s)
  <2>1. t \in B /\ t \in CaseState /\ s \in CaseState
    OBVIOUS
  <2> HIDE DEF t
  <2>2. [i \in 1..2 |-> IF i = 1 THEN s ELSE t] \in [1..2 -> CaseState]
    BY <2>1
  <2> QED BY <2>1, <2>2 DEF t
<1> HIDE DEF st
<1>3. script[1].call = c /\ script[1].undo = undo
  BY <1>1 DEF Step
<1>4. Walk(m, script, st)
  <2>1. st \in [1..(Len(script) + 1) -> CaseState]
    BY <1>1, <1>2
  <2>2. \A i \in 1..Len(script) : i = 1
    BY <1>1
  <2> QED BY <1>1, <1>2, <1>3, <2>1, <2>2 DEF Walk
<1>5. Recovers(m, script[1], st[1])
  BY <1>2, <1>3 DEF Recovers
<1>6. Conducts(m, script, st)
  BY <1>1, <1>4, <1>5 DEF Conducts
<1> QED BY <1>1, <1>2, <1>6

(* A call in front of others with the same clean-up.                       *)
LEMMA OneMore ==
  ASSUME NEW m, NEW A \in SUBSET CaseState, NEW B \in SUBSET CaseState, NEW E,
         NEW c \in Names, NEW more \in Seq(Names), NEW undo \in Seq(Names),
         \A s \in A : Allowed(m, c, s) /\ After(c, s) \in B,
         c \in MayFail => \A s \in A : Unwinds(m, undo, s),
         Leads(m, B, Steps(more, undo), E)
  PROVE  Leads(m, A, Steps(<<c>> \o more, undo), E)
<1>1. Leads(m, A, Steps(<<c>>, undo), B)
  BY OneCall
<1>2. Leads(m, A, Steps(<<c>>, undo) \o Steps(more, undo), E)
  BY <1>1, LeadsJoin
<1>3. <<c>> \in Seq(Names)
  OBVIOUS
<1> QED BY <1>2, <1>3, StepsSplit

(* Calls that change nothing, as many as there are.                        *)
Asking == {"load", "query", "check", "fill", "convert", "set_io_mem", "mem_sync", "type", "size"}

LEMMA Questions ==
  ASSUME NEW m, NEW A \in SUBSET CaseState, NEW calls \in Seq(Asking), NEW undo \in Seq(Names),
         \A s \in A : Unwinds(m, undo, s)
  PROVE  Leads(m, A, Steps(calls, undo), A)
<1> DEFINE script == Steps(calls, undo)
<1>1. calls \in Seq(Names) /\ Len(calls) \in Nat /\ \A i \in 1..Len(calls) : calls[i] \in Asking
  <2>1. Asking \subseteq Names
    BY DEF Asking, Names
  <2> QED BY <2>1, SeqMonotonic, LenProperties, ElementOfSeq
<1>2. /\ script \in Scripts /\ Len(script) = Len(calls)
      /\ \A i \in 1..Len(calls) : script[i] = Step(calls[i], undo)
  BY <1>1, StepsAre
<1> HIDE DEF script
<1> SUFFICES ASSUME NEW s \in A
             PROVE  \E st : /\ Conducts(m, script, st)
                            /\ st[1] = s /\ st[Len(script) + 1] \in A
  BY DEF Leads, script
<1> DEFINE st == [i \in 1..(Len(calls) + 1) |-> s]
<1>3. \A c \in Asking : Allowed(m, c, s)
  BY DEF Asking, Allowed
<1>4. \A c \in Asking : After(c, s) = s
  <2>1. s \in CaseState
    OBVIOUS
  <2>2. s = [ctx |-> s.ctx, fed |-> s.fed, ran |-> s.ran, held |-> s.held, mems |-> s.mems,
             out |-> s.out, taken |-> s.taken, clean |-> s.clean, sure |-> s.sure,
             compared |-> s.compared]
    BY <2>1 DEF CaseState
  <2> QED BY <2>2 DEF Asking, After
<1>5. ASSUME NEW i \in 1..Len(calls)
      PROVE  /\ i \in 1..(Len(calls) + 1) /\ i + 1 \in 1..(Len(calls) + 1)
             /\ script[i].call \in Asking /\ script[i].undo = undo
  <2>1. i \in 1..(Len(calls) + 1) /\ i + 1 \in 1..(Len(calls) + 1)
    BY <1>1
  <2>2. script[i] = Step(calls[i], undo) /\ calls[i] \in Asking
    BY <1>1, <1>2
  <2> QED BY <2>1, <2>2 DEF Step
<1>6. 1 \in 1..(Len(calls) + 1) /\ Len(calls) + 1 \in 1..(Len(calls) + 1)
  BY <1>1
<1>7. Walk(m, script, st)
  <2>1. \A i \in 1..Len(calls) : st[i] = s /\ st[i + 1] = s
    BY <1>5
  <2>2. st \in [1..(Len(script) + 1) -> CaseState]
    BY <1>2
  <2> HIDE DEF st
  <2> QED BY <1>2, <1>3, <1>4, <1>5, <2>1, <2>2 DEF Walk
<1>8. \A i \in 1..Len(script) : Recovers(m, script[i], st[i])
  BY <1>2, <1>5 DEF Recovers
<1> QED BY <1>2, <1>6, <1>7, <1>8 DEF Conducts

(* The same script for each of n elements.                                 *)
LEMMA LeadsLoop ==
  ASSUME NEW m, NEW n \in Nat \ {0}, NEW script, NEW A,
         \A i \in 1..n : Leads(m, A[i], script, A[i + 1])
  PROVE  Leads(m, A[1], FlattenSeq([i \in 1..n |-> script]), A[n + 1])
<1>1. PICK f : /\ FlattenSeq([i \in 1..n |-> script]) = f[n]
               /\ f[1] = script
               /\ \A i \in 1..(n - 1) : f[i + 1] = f[i] \o script
  BY FlattenLoop
<1> DEFINE T == {i \in Nat : i + 1 \in 1..n => Leads(m, A[1], f[i + 1], A[(i + 1) + 1])}
<1>2. 0 \in T
  <2>1. 1 \in 1..n /\ 0 + 1 = 1
    OBVIOUS
  <2> QED BY <1>1, <2>1
<1>3. ASSUME NEW i \in T PROVE i + 1 \in T
  <2>1. i \in Nat /\ i + 1 \in Nat
    OBVIOUS
  <2>2. CASE (i + 1) + 1 \in 1..n
    <3>1. i + 1 \in 1..n /\ i + 1 \in 1..(n - 1)
      BY <2>1, <2>2
    <3>2. Leads(m, A[1], f[i + 1], A[(i + 1) + 1])
      BY <3>1
    <3>3. f[(i + 1) + 1] = f[i + 1] \o script
      BY <1>1, <3>1
    <3>4. Leads(m, A[(i + 1) + 1], script, A[((i + 1) + 1) + 1])
      BY <2>2
    <3>5. Leads(m, A[1], f[(i + 1) + 1], A[((i + 1) + 1) + 1])
      BY <3>2, <3>3, <3>4, LeadsJoin
    <3> QED BY <2>1, <3>5
  <2>3. CASE (i + 1) + 1 \notin 1..n
    BY <2>1, <2>3
  <2> QED BY <2>2, <2>3
<1>4. T = Nat
  <2>1. T \in SUBSET Nat
    OBVIOUS
  <2> HIDE DEF T
  <2> QED BY <1>2, <1>3, <2>1, CountingUp
<1>5. n - 1 \in Nat /\ (n - 1) + 1 = n /\ n \in 1..n
  OBVIOUS
<1>6. Leads(m, A[1], f[n], A[n + 1])
  <2>1. n - 1 \in T
    BY <1>4, <1>5
  <2>2. (n - 1) + 1 \in 1..n => Leads(m, A[1], f[(n - 1) + 1], A[((n - 1) + 1) + 1])
    BY <2>1
  <2> QED BY <1>5, <2>2
<1> QED BY <1>1, <1>6

-----------------------------------------------------------------------------
(* What a state of a case is good for: mm memories and h, whether the      *)
(* output is held; j elements are read.                                    *)
Unstarted(m) ==
  {s \in CaseState : Given(s) /\ s.taken = 0 /\ (m.strict => s.sure) /\ ~s.compared}
Opened(m, mm, j) ==
  {s \in CaseState : /\ s.ctx /\ ~s.held /\ s.mems = mm /\ s.taken = j
                     /\ (m.strict => s.sure) /\ ~s.compared}
Fed(m, mm, j) == {s \in Opened(m, mm, j) : s.fed}
Ran(m, mm, j) == {s \in Fed(m, mm, j) : s.ran}
Visible(m, h, mm, j, c) ==
  {s \in CaseState : /\ s.ctx /\ s.held = h /\ s.mems = mm /\ s.out /\ s.taken = j
                     /\ (m.strict => s.sure) /\ ~s.compared /\ (c => s.clean)}
Took(m, j) ==
  {s \in CaseState : /\ s.ctx /\ s.held /\ s.mems = 0 /\ s.taken = j
                     /\ (m.strict => s.sure) /\ ~s.compared}
Reading(h, mm, c) ==
  {s \in CaseState : s.ctx /\ s.held = h /\ s.mems = mm /\ ~s.compared /\ (c => s.sure)}
ReadBack(c) == {s \in CaseState : Given(s) /\ ~s.compared /\ (c => s.sure)}
Judged(h, mm) == {s \in CaseState : s.ctx /\ s.held = h /\ s.mems = mm /\ s.compared}
Alive(h, mm) == {s \in CaseState : s.ctx /\ s.held = h /\ s.mems = mm}
Back == {s \in CaseState : Given(s)}
BackJudged == {s \in Back : s.compared}

CallTo(m, c, A, B) == \A s \in A : Allowed(m, c, s) /\ After(c, s) \in B

LEMMA OpeningCalls ==
  ASSUME NEW m \in Modes, NEW mm \in 0..3, NEW j \in 0..Many
  PROVE  /\ CallTo(m, "load", Unstarted(m), Unstarted(m))
         /\ CallTo(m, "init", Unstarted(m), Opened(m, 0, 0))
         /\ CallTo(m, "set", Opened(m, mm, j), Fed(m, mm, j))
         /\ CallTo(m, "bind", Opened(m, mm, j), Fed(m, mm, j))
         /\ CallTo(m, "run", Fed(m, mm, j), Ran(m, mm, j))
         /\ CallTo(m, "get", Ran(m, mm, j), Visible(m, TRUE, mm, j, FALSE))
         /\ CallTo(m, "read_mem", Ran(m, mm, j), Visible(m, FALSE, mm, j, FALSE))
<1>1. CallTo(m, "load", Unstarted(m), Unstarted(m))
  BY DEF CallTo, Unstarted, Allowed, After, CaseState, Given, Modes
<1>2. CallTo(m, "init", Unstarted(m), Opened(m, 0, 0))
  BY DEF CallTo, Unstarted, Opened, Allowed, After, CaseState, Given, Modes
<1>3. /\ CallTo(m, "set", Opened(m, mm, j), Fed(m, mm, j))
      /\ CallTo(m, "bind", Opened(m, mm, j), Fed(m, mm, j))
  BY DEF CallTo, Opened, Fed, Allowed, After, CaseState, Modes
<1>4. CallTo(m, "run", Fed(m, mm, j), Ran(m, mm, j))
  BY DEF CallTo, Opened, Fed, Ran, Allowed, After, CaseState, Modes
<1>5. CallTo(m, "get", Ran(m, mm, j), Visible(m, TRUE, mm, j, FALSE))
  BY DEF CallTo, Opened, Fed, Ran, Visible, Allowed, After, CaseState, Modes
<1>6. CallTo(m, "read_mem", Ran(m, mm, j), Visible(m, FALSE, mm, j, FALSE))
  BY DEF CallTo, Opened, Fed, Ran, Visible, Allowed, After, CaseState, Modes
<1> QED BY <1>1, <1>2, <1>3, <1>4, <1>5, <1>6

Compares == {"compare", "compare_finite"}

LEMMA ReadingCalls ==
  ASSUME NEW m \in Modes, NEW h \in BOOLEAN, NEW mm \in 0..3, NEW j \in 0..Many, NEW c \in BOOLEAN
  PROVE  /\ CallTo(m, "finite", Visible(m, h, mm, j, c), Visible(m, h, mm, j, TRUE))
         /\ j < Many /\ (m.strict => c) => CallTo(m, "take", Visible(m, TRUE, 0, j, c), Took(m, j + 1))
         /\ CallTo(m, "release", Took(m, j), Opened(m, 0, j))
         /\ m.whole => /\ CallTo(m, "copy", Visible(m, h, mm, j, c), Reading(h, mm, c))
                       /\ CallTo(m, "copy_int", Visible(m, h, mm, j, c), Reading(h, mm, c))
         /\ CallTo(m, "release", Reading(TRUE, mm, c), Reading(FALSE, mm, c))
         /\ CallTo(m, "destroy", Reading(FALSE, 0, c), ReadBack(c))
<1>1. CallTo(m, "finite", Visible(m, h, mm, j, c), Visible(m, h, mm, j, TRUE))
  BY DEF CallTo, Visible, Allowed, After, CaseState, Modes
<1>2. ASSUME j < Many, m.strict => c
      PROVE  CallTo(m, "take", Visible(m, TRUE, 0, j, c), Took(m, j + 1))
  BY <1>2, ManyAssumption DEF CallTo, Visible, Took, Allowed, After, CaseState, Modes
<1>3. CallTo(m, "release", Took(m, j), Opened(m, 0, j))
  BY DEF CallTo, Opened, Took, Allowed, After, CaseState, Modes
<1>4. ASSUME m.whole
      PROVE  /\ CallTo(m, "copy", Visible(m, h, mm, j, c), Reading(h, mm, c))
             /\ CallTo(m, "copy_int", Visible(m, h, mm, j, c), Reading(h, mm, c))
  <2>1. Many \in 0..Many
    BY ManyAssumption
  <2> QED BY <1>4, <2>1 DEF CallTo, Visible, Reading, Allowed, After, CaseState, Modes
<1>5. CallTo(m, "release", Reading(TRUE, mm, c), Reading(FALSE, mm, c))
  BY DEF CallTo, Reading, Allowed, After, CaseState, Modes
<1>6. CallTo(m, "destroy", Reading(FALSE, 0, c), ReadBack(c))
  BY DEF CallTo, Reading, ReadBack, Given, Allowed, After, CaseState, Modes
<1> QED BY <1>1, <1>2, <1>3, <1>4, <1>5, <1>6

LEMMA ClosingCalls ==
  ASSUME NEW m \in Modes, NEW h \in BOOLEAN, NEW mm \in 0..3, NEW j \in 0..Many, NEW c \in BOOLEAN,
         NEW compare \in Compares
  PROVE  /\ (compare = "compare" /\ m.strict => c) =>
              /\ CallTo(m, compare, Reading(h, mm, c), Judged(h, mm))
              /\ CallTo(m, compare, ReadBack(c), BackJudged)
         /\ CallTo(m, compare, Opened(m, mm, j), Judged(FALSE, mm))
         /\ CallTo(m, "release", Judged(TRUE, mm), Judged(FALSE, mm))
         /\ CallTo(m, "destroy", Judged(FALSE, 0), BackJudged)
         /\ CallTo(m, "destroy", Opened(m, 0, 0), Unstarted(m))
         /\ CallTo(m, "release", Alive(TRUE, mm), Alive(FALSE, mm))
         /\ CallTo(m, "destroy", Alive(FALSE, 0), Back)
         /\ mm < 3 => /\ CallTo(m, "create_mem", Opened(m, mm, j), Opened(m, mm + 1, j))
                      /\ CallTo(m, "destroy_mem", Judged(FALSE, mm + 1), Judged(FALSE, mm))
                      /\ CallTo(m, "destroy_mem", Alive(FALSE, mm + 1), Alive(FALSE, mm))
<1>1. ASSUME compare = "compare" /\ m.strict => c
      PROVE  /\ CallTo(m, compare, Reading(h, mm, c), Judged(h, mm))
             /\ CallTo(m, compare, ReadBack(c), BackJudged)
  <2>1. CallTo(m, compare, Reading(h, mm, c), Judged(h, mm))
    <3> SUFFICES ASSUME NEW s \in Reading(h, mm, c)
                 PROVE  Allowed(m, compare, s) /\ After(compare, s) \in Judged(h, mm)
      BY DEF CallTo
    <3>1. s \in CaseState /\ s.ctx /\ s.held = h /\ s.mems = mm /\ (c => s.sure)
      BY DEF Reading
    <3>2. compare = "compare" \/ compare = "compare_finite"
      BY DEF Compares
    <3>3. Allowed(m, compare, s)
      BY <1>1, <3>1, <3>2 DEF Allowed
    <3>4. After(compare, s) = [ctx |-> s.ctx, fed |-> s.fed, ran |-> s.ran, held |-> s.held,
                               mems |-> s.mems, out |-> s.out, taken |-> s.taken,
                               clean |-> s.clean, sure |-> s.sure, compared |-> TRUE]
      BY <3>2 DEF After
    <3> QED BY <3>1, <3>3, <3>4 DEF Judged, CaseState
  <2>2. CallTo(m, compare, ReadBack(c), BackJudged)
    BY <1>1 DEF CallTo, ReadBack, Back, BackJudged, Given, Allowed, After, CaseState, Modes, Compares
  <2> QED BY <2>1, <2>2
<1>2. CallTo(m, compare, Opened(m, mm, j), Judged(FALSE, mm))
  BY DEF CallTo, Opened, Judged, Allowed, After, CaseState, Modes, Compares
<1>3. CallTo(m, "release", Judged(TRUE, mm), Judged(FALSE, mm))
  BY DEF CallTo, Judged, Allowed, After, CaseState
<1>4. CallTo(m, "destroy", Judged(FALSE, 0), BackJudged)
  BY DEF CallTo, Judged, Back, BackJudged, Given, Allowed, After, CaseState
<1>5. CallTo(m, "destroy", Opened(m, 0, 0), Unstarted(m))
  BY DEF CallTo, Opened, Unstarted, Given, Allowed, After, CaseState, Modes
<1>6. CallTo(m, "release", Alive(TRUE, mm), Alive(FALSE, mm))
  BY DEF CallTo, Alive, Allowed, After, CaseState
<1>7. CallTo(m, "destroy", Alive(FALSE, 0), Back)
  BY DEF CallTo, Alive, Back, Given, Allowed, After, CaseState
<1>8. ASSUME mm < 3
      PROVE  /\ CallTo(m, "create_mem", Opened(m, mm, j), Opened(m, mm + 1, j))
             /\ CallTo(m, "destroy_mem", Judged(FALSE, mm + 1), Judged(FALSE, mm))
             /\ CallTo(m, "destroy_mem", Alive(FALSE, mm + 1), Alive(FALSE, mm))
  <2>1. CallTo(m, "create_mem", Opened(m, mm, j), Opened(m, mm + 1, j))
    BY <1>8 DEF CallTo, Opened, Allowed, After, CaseState
  <2>2. CallTo(m, "destroy_mem", Judged(FALSE, mm + 1), Judged(FALSE, mm))
    BY <1>8 DEF CallTo, Judged, Allowed, After, CaseState
  <2>3. CallTo(m, "destroy_mem", Alive(FALSE, mm + 1), Alive(FALSE, mm))
    BY <1>8 DEF CallTo, Alive, Allowed, After, CaseState
  <2> QED BY <2>1, <2>2, <2>3
<1> QED BY <1>1, <1>2, <1>3, <1>4, <1>5, <1>6, <1>7, <1>8

LEMMA StatesAre ==
  ASSUME NEW m \in Modes, NEW h \in BOOLEAN, NEW mm \in 0..3, NEW j \in 0..Many, NEW c \in BOOLEAN
  PROVE  /\ Unstarted(m) \subseteq Back
         /\ Opened(m, mm, j) \subseteq Alive(FALSE, mm)
         /\ Fed(m, mm, j) \subseteq Opened(m, mm, j)
         /\ Ran(m, mm, j) \subseteq Fed(m, mm, j)
         /\ Visible(m, h, mm, j, c) \subseteq Alive(h, mm)
         /\ Judged(h, mm) \subseteq Alive(h, mm)
         /\ Reading(h, mm, c) \subseteq Alive(h, mm)
         /\ Took(m, j) \subseteq Alive(TRUE, 0)
         /\ BackJudged \subseteq Back /\ ReadBack(c) \subseteq Back
         /\ Back \subseteq CaseState /\ Alive(h, mm) \subseteq CaseState
         /\ Alive(FALSE, mm) \subseteq CaseState
         /\ Alive(TRUE, 0) \subseteq CaseState
<1>1. /\ Unstarted(m) \subseteq Back
      /\ Opened(m, mm, j) \subseteq Alive(FALSE, mm)
      /\ Fed(m, mm, j) \subseteq Opened(m, mm, j)
      /\ Ran(m, mm, j) \subseteq Fed(m, mm, j)
  BY DEF Unstarted, Back, Opened, Alive, Fed, Ran
<1>2. /\ Visible(m, h, mm, j, c) \subseteq Alive(h, mm)
      /\ Judged(h, mm) \subseteq Alive(h, mm)
      /\ Reading(h, mm, c) \subseteq Alive(h, mm)
      /\ Took(m, j) \subseteq Alive(TRUE, 0)
  BY DEF Visible, Alive, Judged, Reading, Took
<1>3. /\ BackJudged \subseteq Back /\ ReadBack(c) \subseteq Back /\ Back \subseteq CaseState
      /\ Alive(h, mm) \subseteq CaseState /\ Alive(FALSE, mm) \subseteq CaseState
      /\ Alive(TRUE, 0) \subseteq CaseState
  BY DEF BackJudged, ReadBack, Back, Alive
<1> QED BY <1>1, <1>2, <1>3

LEMMA LeadsWeaker ==
  ASSUME NEW m, NEW A, NEW B, NEW C \in SUBSET A, NEW E, NEW script,
         Leads(m, A, script, B), B \subseteq E
  PROVE  Leads(m, C, script, E)
<1> SUFFICES ASSUME NEW s \in C
             PROVE  \E st : /\ Conducts(m, script, st)
                            /\ st[1] = s /\ st[Len(script) + 1] \in E
  BY DEF Leads
<1>1. PICK st : /\ Conducts(m, script, st)
                /\ st[1] = s /\ st[Len(script) + 1] \in B
  BY DEF Leads
<1> QED BY <1>1

-----------------------------------------------------------------------------
(* Calls that cannot fail, one after the other.                            *)
LEMMA SureCalls ==
  GiveBacks \cup {"copy", "copy_int", "take", "compare", "compare_finite"} \subseteq Names \ MayFail
BY DEF GiveBacks, Names, MayFail, Fallible

LEMMA SureLast ==
  ASSUME NEW m, NEW A \in SUBSET CaseState, NEW B \in SUBSET CaseState,
         NEW c \in Names \ MayFail, CallTo(m, c, A, B)
  PROVE  Leads(m, A, Sure(<<c>>), B)
<1>1. <<>> \in Seq(Names) /\ c \in Names /\ c \notin MayFail
  OBVIOUS
<1>2. \A s \in A : Allowed(m, c, s) /\ After(c, s) \in B
  BY DEF CallTo
<1>3. Leads(m, A, Steps(<<c>>, <<>>), B)
  BY <1>1, <1>2, OneCall
<1> QED BY <1>3 DEF Sure

LEMMA SureFirst ==
  ASSUME NEW m, NEW A \in SUBSET CaseState, NEW B \in SUBSET CaseState, NEW E,
         NEW c \in Names \ MayFail, NEW more \in Seq(Names), CallTo(m, c, A, B),
         Leads(m, B, Sure(more), E)
  PROVE  Leads(m, A, Sure(<<c>> \o more), E)
<1>1. <<>> \in Seq(Names) /\ c \in Names /\ c \notin MayFail
  OBVIOUS
<1>2. \A s \in A : Allowed(m, c, s) /\ After(c, s) \in B
  BY DEF CallTo
<1>3. Leads(m, B, Steps(more, <<>>), E)
  BY DEF Sure
<1>4. Leads(m, A, Steps(<<c>> \o more, <<>>), E)
  BY <1>1, <1>2, <1>3, OneMore
<1> QED BY <1>4 DEF Sure

(* A tuple of calls is its first call in front of the others.              *)
LEMMA TupleTwo ==
  ASSUME NEW c \in Names, NEW d \in Names
  PROVE  <<c>> \o <<d>> = <<c, d>> /\ <<d>> \in Seq(Names)
<1> DEFINE more == <<d>>
<1>1. /\ Len(<<c>> \o more) = 2
      /\ (<<c>> \o more)[1] = c /\ (<<c>> \o more)[2] = d
  OBVIOUS
<1>2. /\ <<c>> \o more \in Seq(Names) /\ more \in Seq(Names)
      /\ <<c, d>> \in Seq(Names) /\ Len(<<c, d>>) = 2
  OBVIOUS
<1>3. \A i \in 1..2 : (<<c>> \o more)[i] = <<c, d>>[i]
  BY <1>1
<1> HIDE DEF more
<1>4. <<c>> \o more = <<c, d>>
  BY <1>1, <1>2, <1>3, SeqEqual
<1> QED BY <1>2, <1>4 DEF more

LEMMA TupleThree ==
  ASSUME NEW c \in Names, NEW d \in Names, NEW e \in Names
  PROVE  <<c>> \o <<d, e>> = <<c, d, e>> /\ <<d, e>> \in Seq(Names)
<1> DEFINE more == <<d, e>>
<1>1. /\ Len(<<c>> \o more) = 3
      /\ (<<c>> \o more)[1] = c /\ (<<c>> \o more)[2] = d /\ (<<c>> \o more)[3] = e
  OBVIOUS
<1>2. /\ <<c>> \o more \in Seq(Names) /\ more \in Seq(Names)
      /\ <<c, d, e>> \in Seq(Names) /\ Len(<<c, d, e>>) = 3
  OBVIOUS
<1>3. \A i \in 1..3 : (<<c>> \o more)[i] = <<c, d, e>>[i]
  BY <1>1
<1> HIDE DEF more
<1>4. <<c>> \o more = <<c, d, e>>
  BY <1>1, <1>2, <1>3, SeqEqual
<1> QED BY <1>2, <1>4 DEF more

LEMMA TupleFour ==
  ASSUME NEW c \in Names, NEW d \in Names, NEW e \in Names, NEW g \in Names
  PROVE  <<c>> \o <<d, e, g>> = <<c, d, e, g>> /\ <<d, e, g>> \in Seq(Names)
<1> DEFINE more == <<d, e, g>>
<1>1. /\ Len(<<c>> \o more) = 4
      /\ (<<c>> \o more)[1] = c /\ (<<c>> \o more)[2] = d /\ (<<c>> \o more)[3] = e /\ (<<c>> \o more)[4] = g
  OBVIOUS
<1>2. /\ <<c>> \o more \in Seq(Names) /\ more \in Seq(Names)
      /\ <<c, d, e, g>> \in Seq(Names) /\ Len(<<c, d, e, g>>) = 4
  OBVIOUS
<1>3. \A i \in 1..4 : (<<c>> \o more)[i] = <<c, d, e, g>>[i]
  BY <1>1
<1> HIDE DEF more
<1>4. <<c>> \o more = <<c, d, e, g>>
  BY <1>1, <1>2, <1>3, SeqEqual
<1> QED BY <1>2, <1>4 DEF more

LEMMA SureTwo ==
  ASSUME NEW m,
         NEW A \in SUBSET CaseState,
         NEW B \in SUBSET CaseState,
         NEW D \in SUBSET CaseState,
         NEW c \in Names \ MayFail,
         NEW d \in Names \ MayFail,
         CallTo(m, c, A, B), CallTo(m, d, B, D)
  PROVE  Leads(m, A, Sure(<<c, d>>), D)
<1> DEFINE more == <<d>>
<1>1. Leads(m, B, Sure(more), D)
  BY SureLast
<1>2. <<c>> \o more = <<c, d>> /\ more \in Seq(Names)
  BY TupleTwo
<1> HIDE DEF more
<1>3. Leads(m, A, Sure(<<c>> \o more), D)
  BY <1>1, <1>2, SureFirst
<1> QED BY <1>2, <1>3

LEMMA SureThree ==
  ASSUME NEW m,
         NEW A \in SUBSET CaseState,
         NEW B \in SUBSET CaseState,
         NEW D \in SUBSET CaseState,
         NEW E \in SUBSET CaseState,
         NEW c \in Names \ MayFail,
         NEW d \in Names \ MayFail,
         NEW e \in Names \ MayFail,
         CallTo(m, c, A, B), CallTo(m, d, B, D), CallTo(m, e, D, E)
  PROVE  Leads(m, A, Sure(<<c, d, e>>), E)
<1> DEFINE more == <<d, e>>
<1>1. Leads(m, B, Sure(more), E)
  BY SureTwo
<1>2. <<c>> \o more = <<c, d, e>> /\ more \in Seq(Names)
  BY TupleThree
<1> HIDE DEF more
<1>3. Leads(m, A, Sure(<<c>> \o more), E)
  BY <1>1, <1>2, SureFirst
<1> QED BY <1>2, <1>3

LEMMA SureFour ==
  ASSUME NEW m,
         NEW A \in SUBSET CaseState,
         NEW B \in SUBSET CaseState,
         NEW D \in SUBSET CaseState,
         NEW E \in SUBSET CaseState,
         NEW F \in SUBSET CaseState,
         NEW c \in Names \ MayFail,
         NEW d \in Names \ MayFail,
         NEW e \in Names \ MayFail,
         NEW g \in Names \ MayFail,
         CallTo(m, c, A, B), CallTo(m, d, B, D), CallTo(m, e, D, E), CallTo(m, g, E, F)
  PROVE  Leads(m, A, Sure(<<c, d, e, g>>), F)
<1> DEFINE more == <<d, e, g>>
<1>1. Leads(m, B, Sure(more), F)
  BY SureThree
<1>2. <<c>> \o more = <<c, d, e, g>> /\ more \in Seq(Names)
  BY TupleFour
<1> HIDE DEF more
<1>3. Leads(m, A, Sure(<<c>> \o more), F)
  BY <1>1, <1>2, SureFirst
<1> QED BY <1>2, <1>3

-----------------------------------------------------------------------------
(* The clean-ups.                                                          *)
LEMMA UndoCalls ==
  ASSUME NEW m, NEW A, NEW calls \in Seq(GiveBacks), Leads(m, A, Sure(calls), Back)
  PROVE  \A s \in A : Unwinds(m, calls, s)
<1> SUFFICES ASSUME NEW s \in A PROVE Unwinds(m, calls, s)
  OBVIOUS
<1>1. PICK st : /\ Conducts(m, Sure(calls), st)
                /\ st[1] = s /\ st[Len(Sure(calls)) + 1] \in Back
  BY DEF Leads
<1> QED BY <1>1 DEF Conducts, Unwinds, Back

LEMMA UnwoundIs ==
  /\ unwound[0] = <<"destroy">>
  /\ \A n \in 0..2 : unwound[n + 1] = <<"destroy_mem">> \o unwound[n]
  /\ \A n \in 0..3 : unwound[n] \in Seq(GiveBacks)
  /\ destroy_output_mem = unwound[1]
<1> DEFINE mem(n) == [i \in 1..n |-> "destroy_mem"]
<1>1. ASSUME NEW n \in 0..3
      PROVE  /\ unwound[n] \in Seq(GiveBacks) /\ Len(unwound[n]) = n + 1
             /\ \A i \in 1..(n + 1) : unwound[n][i] = IF i <= n THEN "destroy_mem" ELSE "destroy"
  <2>1. mem(n) \in Seq(GiveBacks) /\ Len(mem(n)) = n
    BY DEF GiveBacks
  <2>2. unwound[n] = mem(n) \o <<"destroy">>
    BY DEF unwound
  <2>3. <<"destroy">> \in Seq(GiveBacks) /\ Len(<<"destroy">>) = 1 /\ <<"destroy">>[1] = "destroy"
    BY DEF GiveBacks
  <2>4. \A i \in 1..n : mem(n)[i] = "destroy_mem"
    OBVIOUS
  <2> HIDE DEF mem
  <2>5. /\ mem(n) \o <<"destroy">> \in Seq(GiveBacks)
        /\ Len(mem(n) \o <<"destroy">>) = n + 1
        /\ \A i \in 1..(n + 1) : (mem(n) \o <<"destroy">>)[i] =
             IF i <= n THEN mem(n)[i] ELSE <<"destroy">>[i - n]
    BY <2>1, <2>3, ConcatProperties
  <2>6. \A i \in 1..(n + 1) : ~(i <= n) => i - n = 1
    OBVIOUS
  <2>7. \A i \in 1..(n + 1) : i <= n => i \in 1..n
    OBVIOUS
  <2> QED BY <2>2, <2>3, <2>4, <2>5, <2>6, <2>7
<1>2. unwound[0] = <<"destroy">>
  <2> DEFINE d == <<"destroy">>
  <2>1. d \in Seq(GiveBacks) /\ Len(d) = 1 /\ d[1] = "destroy"
    BY DEF GiveBacks
  <2>2. 0 \in 0..3 /\ 0 + 1 = 1 /\ 1 \in 1..1 /\ ~(1 <= 0) /\ \A i \in 1..1 : i = 1
    OBVIOUS
  <2>3. unwound[0] \in Seq(GiveBacks) /\ Len(unwound[0]) = 1 /\ unwound[0][1] = "destroy"
    BY <1>1, <2>2
  <2> HIDE DEF d
  <2> QED BY <2>1, <2>2, <2>3, SeqEqual DEF d
<1>3. ASSUME NEW n \in 0..2
      PROVE  unwound[n + 1] = <<"destroy_mem">> \o unwound[n]
  <2> DEFINE u == unwound[n]
             v == unwound[n + 1]
             d == <<"destroy_mem">>
  <2>1. d \in Seq(GiveBacks) /\ Len(d) = 1 /\ d[1] = "destroy_mem"
    BY DEF GiveBacks
  <2>2. n \in 0..3 /\ n + 1 \in 0..3
    OBVIOUS
  <2>3. /\ u \in Seq(GiveBacks) /\ Len(u) = n + 1
        /\ \A i \in 1..(n + 1) : u[i] = IF i <= n THEN "destroy_mem" ELSE "destroy"
    BY <1>1, <2>2
  <2>4. /\ v \in Seq(GiveBacks) /\ Len(v) = (n + 1) + 1
        /\ \A i \in 1..((n + 1) + 1) : v[i] = IF i <= n + 1 THEN "destroy_mem" ELSE "destroy"
    BY <1>1, <2>2
  <2> HIDE DEF u, v, d
  <2>5. /\ d \o u \in Seq(GiveBacks) /\ Len(d \o u) = 1 + (n + 1)
        /\ \A i \in 1..(1 + (n + 1)) : (d \o u)[i] = IF i <= 1 THEN d[i] ELSE u[i - 1]
    BY <2>1, <2>3, ConcatProperties
  <2>6. ASSUME NEW i \in 1..((n + 1) + 1)
        PROVE  (d \o u)[i] = v[i]
    <3>1. i \in 1..(1 + (n + 1))
      OBVIOUS
    <3>2. CASE i = 1
      BY <2>1, <2>4, <2>5, <3>1, <3>2
    <3>3. CASE i # 1
      <4>1. i - 1 \in 1..(n + 1) /\ ~(i <= 1) /\ (i - 1 <= n <=> i <= n + 1)
        BY <3>3
      <4> QED BY <2>3, <2>4, <2>5, <3>1, <4>1
    <3> QED BY <3>2, <3>3
  <2>7. Len(d \o u) = Len(v)
    BY <2>4, <2>5
  <2> QED BY <2>4, <2>5, <2>6, <2>7, SeqEqual DEF u, v, d
<1>4. destroy_output_mem = unwound[1]
  <2>1. 0 \in 0..2 /\ 0 + 1 = 1
    OBVIOUS
  <2>2. unwound[1] = <<"destroy_mem">> \o <<"destroy">>
    BY <1>2, <1>3, <2>1
  <2>3. <<"destroy_mem">> \o <<"destroy">> = <<"destroy_mem", "destroy">>
    <3> DEFINE a == <<"destroy_mem">>
               b == <<"destroy">>
               ab == <<"destroy_mem", "destroy">>
    <3>1. /\ a \in Seq(GiveBacks) /\ b \in Seq(GiveBacks) /\ ab \in Seq(GiveBacks)
          /\ Len(a) = 1 /\ Len(b) = 1 /\ Len(ab) = 2
          /\ a[1] = "destroy_mem" /\ b[1] = "destroy" /\ ab[1] = "destroy_mem" /\ ab[2] = "destroy"
      BY DEF GiveBacks
    <3> HIDE DEF a, b, ab
    <3>2. /\ a \o b \in Seq(GiveBacks) /\ Len(a \o b) = 2
          /\ (a \o b)[1] = "destroy_mem" /\ (a \o b)[2] = "destroy"
      BY <3>1, ConcatProperties
    <3>3. \A i \in 1..2 : i = 1 \/ i = 2
      OBVIOUS
    <3>4. \A i \in 1..2 : (a \o b)[i] = ab[i]
      BY <3>1, <3>2, <3>3
    <3>5. Len(a \o b) = Len(ab)
      BY <3>1, <3>2
    <3> QED BY <3>1, <3>2, <3>4, <3>5, SeqEqual DEF a, b, ab
  <2> QED BY <2>2, <2>3 DEF destroy_output_mem
<1> QED BY <1>1, <1>2, <1>3, <1>4

LEMMA Undoing ==
  ASSUME NEW m \in Modes
  PROVE  /\ \A s \in Back : Unwinds(m, <<>>, s)
         /\ \A s \in Alive(FALSE, 0) : Unwinds(m, <<"destroy">>, s)
         /\ \A s \in Alive(TRUE, 0) : Unwinds(m, <<"release", "destroy">>, s)
         /\ \A n \in 0..3 : \A s \in Alive(FALSE, n) : Unwinds(m, unwound[n], s)
         /\ \A s \in Alive(TRUE, 1) : Unwinds(m, <<"release">> \o destroy_output_mem, s)
<1>1. /\ CallTo(m, "release", Alive(TRUE, 0), Alive(FALSE, 0))
      /\ CallTo(m, "release", Alive(TRUE, 1), Alive(FALSE, 1))
      /\ CallTo(m, "destroy", Alive(FALSE, 0), Back)
      /\ \A n \in 0..2 : CallTo(m, "destroy_mem", Alive(FALSE, n + 1), Alive(FALSE, n))
  <2>1. 0 \in 0..3 /\ 1 \in 0..3 /\ TRUE \in BOOLEAN /\ 0 \in 0..Many /\ "compare" \in Compares
        /\ \A n \in 0..2 : n \in 0..3 /\ n < 3
    BY ManyAssumption DEF Compares
  <2> QED BY <2>1, ClosingCalls
<1>2. Back \subseteq CaseState /\ \A h \in BOOLEAN : \A n : Alive(h, n) \subseteq CaseState
  BY DEF Back, Alive
<1>3. /\ "release" \in Names \ MayFail /\ "destroy" \in Names \ MayFail
      /\ "destroy_mem" \in Names \ MayFail
      /\ "release" \in GiveBacks /\ "destroy" \in GiveBacks /\ "destroy_mem" \in GiveBacks
      /\ GiveBacks \subseteq Names
  BY SureCalls DEF GiveBacks
<1>4. \A s \in Back : Unwinds(m, <<>>, s)
  <2>1. Sure(<<>>) = <<>>
    <3>1. DOMAIN <<>> = {}
      OBVIOUS
    <3> QED BY <3>1 DEF Sure, Steps
  <2>2. Leads(m, Back, <<>>, Back)
    BY <1>2, NoCalls
  <2>3. <<>> \in Seq(GiveBacks)
    OBVIOUS
  <2> QED BY <2>1, <2>2, <2>3, UndoCalls
<1>5. Leads(m, Alive(FALSE, 0), Sure(<<"destroy">>), Back)
  BY <1>1, <1>2, <1>3, SureLast
<1>6. Leads(m, Alive(TRUE, 0), Sure(<<"release", "destroy">>), Back)
  BY <1>1, <1>2, <1>3, SureTwo
<1>7. \A n \in 0..3 : unwound[n] \in Seq(GiveBacks) /\ unwound[n] \in Seq(Names)
  BY <1>3, UnwoundIs, SeqMonotonic
<1>8. \A n \in 0..3 : Leads(m, Alive(FALSE, n), Sure(unwound[n]), Back)
  <2>1. Leads(m, Alive(FALSE, 0), Sure(unwound[0]), Back)
    BY <1>5, UnwoundIs
  <2>2. ASSUME NEW n \in 0..2, Leads(m, Alive(FALSE, n), Sure(unwound[n]), Back)
        PROVE  Leads(m, Alive(FALSE, n + 1), Sure(unwound[n + 1]), Back)
    <3>1. n \in 0..3 /\ unwound[n + 1] = <<"destroy_mem">> \o unwound[n]
      <4>1. n \in 0..3
        OBVIOUS
      <4>2. unwound[n + 1] = <<"destroy_mem">> \o unwound[n]
        BY UnwoundIs
      <4> QED BY <4>1, <4>2
    <3>2. unwound[n] \in Seq(Names)
      BY <1>7, <3>1
    <3>3. CallTo(m, "destroy_mem", Alive(FALSE, n + 1), Alive(FALSE, n))
      BY <1>1
    <3>4. Leads(m, Alive(FALSE, n + 1), Sure(<<"destroy_mem">> \o unwound[n]), Back)
      BY <1>2, <1>3, <2>2, <3>2, <3>3, SureFirst
    <3> QED BY <3>1, <3>4
  <2>3. Leads(m, Alive(FALSE, 1), Sure(unwound[1]), Back)
    <3>1. 0 \in 0..2 /\ 0 + 1 = 1
      OBVIOUS
    <3> QED BY <2>1, <2>2, <3>1
  <2>4. Leads(m, Alive(FALSE, 2), Sure(unwound[2]), Back)
    <3>1. 1 \in 0..2 /\ 1 + 1 = 2
      OBVIOUS
    <3> QED BY <2>2, <2>3, <3>1
  <2>5. Leads(m, Alive(FALSE, 3), Sure(unwound[3]), Back)
    <3>1. 2 \in 0..2 /\ 2 + 1 = 3
      OBVIOUS
    <3> QED BY <2>2, <2>4, <3>1
  <2>6. \A n \in 0..3 : n = 0 \/ n = 1 \/ n = 2 \/ n = 3
    OBVIOUS
  <2> QED BY <2>1, <2>3, <2>4, <2>5, <2>6
<1>9. Leads(m, Alive(TRUE, 1), Sure(<<"release">> \o destroy_output_mem), Back)
  <2>1. 1 \in 0..3
    OBVIOUS
  <2>2. Leads(m, Alive(TRUE, 1), Sure(<<"release">> \o unwound[1]), Back)
    BY <1>1, <1>2, <1>3, <1>7, <1>8, <2>1, SureFirst
  <2> QED BY <2>2, UnwoundIs
<1>10. <<"destroy">> \in Seq(GiveBacks) /\ <<"release", "destroy">> \in Seq(GiveBacks)
  BY <1>3
<1>11. <<"release">> \o destroy_output_mem \in Seq(GiveBacks)
  <2>1. 1 \in 0..3 /\ <<"release">> \in Seq(GiveBacks)
    BY <1>3
  <2>2. destroy_output_mem \in Seq(GiveBacks)
    BY <1>7, <2>1, UnwoundIs
  <2> QED BY <2>1, <2>2, ConcatProperties
<1>12. \A s \in Alive(FALSE, 0) : Unwinds(m, <<"destroy">>, s)
  BY <1>5, <1>10, UndoCalls
<1>13. \A s \in Alive(TRUE, 0) : Unwinds(m, <<"release", "destroy">>, s)
  BY <1>6, <1>10, UndoCalls
<1>14. \A n \in 0..3 : \A s \in Alive(FALSE, n) : Unwinds(m, unwound[n], s)
  BY <1>7, <1>8, UndoCalls
<1>15. \A s \in Alive(TRUE, 1) : Unwinds(m, <<"release">> \o destroy_output_mem, s)
  BY <1>9, <1>11, UndoCalls
<1> QED BY <1>4, <1>12, <1>13, <1>14, <1>15

-----------------------------------------------------------------------------
(* Calls that may fail, with the same clean-up for each.                   *)
LEMMA RiskyLast ==
  ASSUME NEW m, NEW U, NEW undo \in Seq(Names), \A s \in U : Unwinds(m, undo, s),
         NEW A \in SUBSET CaseState, A \subseteq U, NEW B \in SUBSET CaseState,
         NEW c \in Names, CallTo(m, c, A, B)
  PROVE  Leads(m, A, Steps(<<c>>, undo), B)
<1>1. \A s \in A : Allowed(m, c, s) /\ After(c, s) \in B /\ Unwinds(m, undo, s)
  BY DEF CallTo
<1> QED BY <1>1, OneCall

LEMMA RiskyFirst ==
  ASSUME NEW m, NEW U, NEW undo \in Seq(Names), \A s \in U : Unwinds(m, undo, s),
         NEW A \in SUBSET CaseState, A \subseteq U, NEW B \in SUBSET CaseState, NEW E,
         NEW c \in Names, NEW more \in Seq(Names), CallTo(m, c, A, B),
         Leads(m, B, Steps(more, undo), E)
  PROVE  Leads(m, A, Steps(<<c>> \o more, undo), E)
<1>1. \A s \in A : Allowed(m, c, s) /\ After(c, s) \in B /\ Unwinds(m, undo, s)
  BY DEF CallTo
<1> QED BY <1>1, OneMore

LEMMA RiskyTwo ==
  ASSUME NEW m, NEW U, NEW undo \in Seq(Names), \A s \in U : Unwinds(m, undo, s),
         NEW A \in SUBSET CaseState, A \subseteq U,
         NEW B \in SUBSET CaseState, B \subseteq U,
         NEW D \in SUBSET CaseState,
         NEW c \in Names, NEW d \in Names,
         CallTo(m, c, A, B), CallTo(m, d, B, D)
  PROVE  Leads(m, A, Steps(<<c, d>>, undo), D)
<1> DEFINE more == <<d>>
<1>1. Leads(m, B, Steps(more, undo), D)
  BY RiskyLast
<1>2. <<c>> \o more = <<c, d>> /\ more \in Seq(Names)
  BY TupleTwo
<1> HIDE DEF more
<1>3. Leads(m, A, Steps(<<c>> \o more, undo), D)
  BY <1>1, <1>2, RiskyFirst
<1> QED BY <1>2, <1>3

LEMMA RiskyThree ==
  ASSUME NEW m, NEW U, NEW undo \in Seq(Names), \A s \in U : Unwinds(m, undo, s),
         NEW A \in SUBSET CaseState, A \subseteq U,
         NEW B \in SUBSET CaseState, B \subseteq U,
         NEW D \in SUBSET CaseState, D \subseteq U,
         NEW E \in SUBSET CaseState,
         NEW c \in Names, NEW d \in Names, NEW e \in Names,
         CallTo(m, c, A, B), CallTo(m, d, B, D), CallTo(m, e, D, E)
  PROVE  Leads(m, A, Steps(<<c, d, e>>, undo), E)
<1> DEFINE more == <<d, e>>
<1>1. Leads(m, B, Steps(more, undo), E)
  BY RiskyTwo
<1>2. <<c>> \o more = <<c, d, e>> /\ more \in Seq(Names)
  BY TupleThree
<1> HIDE DEF more
<1>3. Leads(m, A, Steps(<<c>> \o more, undo), E)
  BY <1>1, <1>2, RiskyFirst
<1> QED BY <1>2, <1>3

LEMMA RiskyFour ==
  ASSUME NEW m, NEW U, NEW undo \in Seq(Names), \A s \in U : Unwinds(m, undo, s),
         NEW A \in SUBSET CaseState, A \subseteq U,
         NEW B \in SUBSET CaseState, B \subseteq U,
         NEW D \in SUBSET CaseState, D \subseteq U,
         NEW E \in SUBSET CaseState, E \subseteq U,
         NEW F \in SUBSET CaseState,
         NEW c \in Names, NEW d \in Names, NEW e \in Names, NEW g \in Names,
         CallTo(m, c, A, B), CallTo(m, d, B, D), CallTo(m, e, D, E), CallTo(m, g, E, F)
  PROVE  Leads(m, A, Steps(<<c, d, e, g>>, undo), F)
<1> DEFINE more == <<d, e, g>>
<1>1. Leads(m, B, Steps(more, undo), F)
  BY RiskyThree
<1>2. <<c>> \o more = <<c, d, e, g>> /\ more \in Seq(Names)
  BY TupleFour
<1> HIDE DEF more
<1>3. Leads(m, A, Steps(<<c>> \o more, undo), F)
  BY <1>1, <1>2, RiskyFirst
<1> QED BY <1>2, <1>3

-----------------------------------------------------------------------------
(* The parts the scripts are made of.                                      *)
LEMMA UndoTyped ==
  /\ <<>> \in Seq(Names) /\ <<"destroy">> \in Seq(Names) /\ <<"release", "destroy">> \in Seq(Names)
  /\ \A n \in 0..3 : unwound[n] \in Seq(Names)
  /\ <<"release">> \o destroy_output_mem \in Seq(Names)
  /\ destroy_output_mem \in Seq(Names)
<1>1. GiveBacks \subseteq Names /\ "destroy" \in Names /\ "release" \in Names
  BY SureCalls DEF GiveBacks
<1>2. <<>> \in Seq(Names) /\ <<"destroy">> \in Seq(Names) /\ <<"release", "destroy">> \in Seq(Names)
      /\ <<"release">> \in Seq(Names)
  BY <1>1
<1>3. \A n \in 0..3 : unwound[n] \in Seq(Names)
  BY <1>1, UnwoundIs, SeqMonotonic
<1>4. destroy_output_mem \in Seq(Names)
  <2>1. 1 \in 0..3
    OBVIOUS
  <2> QED BY <1>3, <2>1, UnwoundIs
<1>5. <<"release">> \o destroy_output_mem \in Seq(Names)
  BY <1>2, <1>4, ConcatProperties
<1> QED BY <1>2, <1>3, <1>4, <1>5

LEMMA OpeningLeads ==
  ASSUME NEW m \in Modes
  PROVE  Leads(m, Unstarted(m), Opening, Opened(m, 0, 0))
<1>1. 0 \in 0..3 /\ 0 \in 0..Many /\ FALSE \in BOOLEAN
  BY ManyAssumption
<1>2. CallTo(m, "load", Unstarted(m), Unstarted(m)) /\ CallTo(m, "init", Unstarted(m), Opened(m, 0, 0))
  BY <1>1, OpeningCalls
<1>3. Unstarted(m) \subseteq Back /\ Unstarted(m) \in SUBSET CaseState
      /\ Opened(m, 0, 0) \in SUBSET CaseState
  BY <1>1, StatesAre DEF Unstarted, Opened
<1>4. "load" \in Names /\ "init" \in Names
  BY DEF Names
<1>5. \A s \in Back : Unwinds(m, <<>>, s)
  BY Undoing
<1>6. Leads(m, Unstarted(m), Steps(<<"load", "init">>, <<>>), Opened(m, 0, 0))
  BY <1>2, <1>3, <1>4, <1>5, UndoTyped, RiskyTwo
<1> QED BY <1>6 DEF Opening, Sure

(* Questions with nothing held but the context, or the output too.         *)
LEMMA AskingLeads ==
  ASSUME NEW m \in Modes, NEW calls \in Seq(Asking)
  PROVE  /\ \A A \in SUBSET Alive(FALSE, 0) : Leads(m, A, Steps(calls, <<"destroy">>), A)
         /\ \A A \in SUBSET Alive(TRUE, 0) : Leads(m, A, Checked(calls), A)
<1>1. Alive(FALSE, 0) \subseteq CaseState /\ Alive(TRUE, 0) \subseteq CaseState
  BY DEF Alive
<1>2. \A A \in SUBSET Alive(FALSE, 0) : Leads(m, A, Steps(calls, <<"destroy">>), A)
  BY <1>1, Undoing, UndoTyped, Questions
<1>3. \A A \in SUBSET Alive(TRUE, 0) : Leads(m, A, Steps(calls, <<"release", "destroy">>), A)
  BY <1>1, Undoing, UndoTyped, Questions
<1> QED BY <1>2, <1>3 DEF Checked

LEMMA OpeningsLead ==
  ASSUME NEW m \in Modes
  PROVE  /\ Leads(m, Unstarted(m), Queried, Opened(m, 0, 0))
         /\ Leads(m, Unstarted(m), FormatKnown, Opened(m, 0, 0))
         /\ Leads(m, Unstarted(m), Filled, Opened(m, 0, 0))
<1>1. <<"query">> \in Seq(Asking) /\ <<"check">> \in Seq(Asking) /\ <<"fill">> \in Seq(Asking)
  BY DEF Asking
<1>2. Opened(m, 0, 0) \in SUBSET Alive(FALSE, 0)
  BY DEF Opened, Alive
<1>3. Leads(m, Unstarted(m), Queried, Opened(m, 0, 0))
  BY <1>1, <1>2, AskingLeads, OpeningLeads, LeadsJoin DEF Queried
<1>4. Leads(m, Unstarted(m), FormatKnown, Opened(m, 0, 0))
  BY <1>1, <1>2, <1>3, AskingLeads, LeadsJoin DEF FormatKnown
<1>5. Leads(m, Unstarted(m), Filled, Opened(m, 0, 0))
  BY <1>1, <1>2, AskingLeads, OpeningLeads, LeadsJoin DEF Filled
<1> QED BY <1>3, <1>4, <1>5

LEMMA InferenceLeads ==
  ASSUME NEW m \in Modes, NEW j \in 0..Many
  PROVE  Leads(m, Opened(m, 0, j), Inference, Visible(m, TRUE, 0, j, FALSE))
<1>1. 0 \in 0..3 /\ FALSE \in BOOLEAN
  OBVIOUS
<1>2. /\ CallTo(m, "set", Opened(m, 0, j), Fed(m, 0, j))
      /\ CallTo(m, "run", Fed(m, 0, j), Ran(m, 0, j))
      /\ CallTo(m, "get", Ran(m, 0, j), Visible(m, TRUE, 0, j, FALSE))
  BY <1>1, OpeningCalls
<1>3. /\ Opened(m, 0, j) \subseteq Alive(FALSE, 0) /\ Fed(m, 0, j) \subseteq Alive(FALSE, 0)
      /\ Ran(m, 0, j) \subseteq Alive(FALSE, 0) /\ Alive(FALSE, 0) \subseteq CaseState
      /\ Visible(m, TRUE, 0, j, FALSE) \in SUBSET CaseState
  BY DEF Opened, Fed, Ran, Alive, Visible
<1>4. "set" \in Names /\ "run" \in Names /\ "get" \in Names
  BY DEF Names
<1>5. \A s \in Alive(FALSE, 0) : Unwinds(m, <<"destroy">>, s)
  BY Undoing
<1>6. Opened(m, 0, j) \in SUBSET CaseState /\ Fed(m, 0, j) \in SUBSET CaseState
      /\ Ran(m, 0, j) \in SUBSET CaseState
  BY <1>3
<1>7. Leads(m, Opened(m, 0, j), Steps(<<"set", "run", "get">>, <<"destroy">>),
            Visible(m, TRUE, 0, j, FALSE))
  BY <1>2, <1>3, <1>4, <1>5, <1>6, UndoTyped, RiskyThree
<1> QED BY <1>7 DEF Inference

(* The tests of an output that is held; after that for finite elements no  *)
(* element is a NaN.                                                       *)
LEMMA CheckedLeads ==
  ASSUME NEW m \in Modes, NEW j \in 0..Many, NEW c \in BOOLEAN, NEW calls \in Seq(Asking)
  PROVE  /\ Leads(m, Visible(m, TRUE, 0, j, c), Checked(calls), Visible(m, TRUE, 0, j, c))
         /\ Leads(m, Visible(m, TRUE, 0, j, c), Checked(calls \o <<"finite">>),
                  Visible(m, TRUE, 0, j, TRUE))
<1> DEFINE V == Visible(m, TRUE, 0, j, c)
           W == Visible(m, TRUE, 0, j, TRUE)
           undo == <<"release", "destroy">>
<1>1. V \in SUBSET Alive(TRUE, 0) /\ V \in SUBSET CaseState /\ W \in SUBSET CaseState
      /\ V \subseteq Alive(TRUE, 0)
  BY DEF Visible, Alive
<1>2. CallTo(m, "finite", V, W)
  <2>1. TRUE \in BOOLEAN /\ 0 \in 0..3
    OBVIOUS
  <2> QED BY <2>1, ReadingCalls
<1>3. \A s \in Alive(TRUE, 0) : Unwinds(m, undo, s)
  BY Undoing
<1>4. undo \in Seq(Names)
  BY UndoTyped
<1>5. "finite" \in Names /\ <<"finite">> \in Seq(Names)
  BY DEF Names
<1>6. calls \in Seq(Names)
  <2>1. Asking \subseteq Names
    BY DEF Asking, Names
  <2> QED BY <2>1, SeqMonotonic
<1> HIDE DEF V, W, undo
<1>7. Leads(m, V, Steps(<<"finite">>, undo), W)
  BY <1>1, <1>2, <1>3, <1>4, <1>5, RiskyLast
<1>8. Leads(m, V, Checked(calls), V)
  BY <1>1, AskingLeads
<1>9. Checked(calls \o <<"finite">>) = Checked(calls) \o Steps(<<"finite">>, undo)
  BY <1>4, <1>5, <1>6, StepsSplit DEF Checked, undo
<1>10. Leads(m, V, Checked(calls \o <<"finite">>), W)
  BY <1>7, <1>8, <1>9, LeadsJoin
<1> QED BY <1>8, <1>10 DEF V, W

-----------------------------------------------------------------------------
(* How a case ends: the output is read, released and compared, in one      *)
(* order or another.                                                       *)
Judgable(m, c, compare) == compare \in Compares /\ (compare = "compare" /\ m.strict => c)

LEMMA ClosingsLead ==
  ASSUME NEW m \in Modes, m.whole, NEW j \in 0..Many, NEW c \in BOOLEAN,
         NEW compare, Judgable(m, c, compare), NEW copy \in {"copy", "copy_int"}
  PROVE  /\ Leads(m, Visible(m, TRUE, 0, j, c), Sure(<<copy, "release", compare, "destroy">>),
                  BackJudged)
         /\ Leads(m, Visible(m, TRUE, 0, j, c), Sure(<<copy, compare, "release", "destroy">>),
                  BackJudged)
         /\ Leads(m, Visible(m, TRUE, 0, j, c), Sure(<<copy, "release", "destroy">>), ReadBack(c))
         /\ Leads(m, ReadBack(c), Sure(<<compare>>), BackJudged)
         /\ Leads(m, Visible(m, TRUE, 0, j, c), Sure(<<copy>>), Reading(TRUE, 0, c))
         /\ Leads(m, Reading(TRUE, 0, c), Sure(<<compare, "release", "destroy">>), BackJudged)
<1>1. 0 \in 0..3 /\ TRUE \in BOOLEAN /\ FALSE \in BOOLEAN /\ compare \in Compares
  BY DEF Judgable
<1>2. compare = "compare" /\ m.strict => c
  BY DEF Judgable
<1>3. CallTo(m, copy, Visible(m, TRUE, 0, j, c), Reading(TRUE, 0, c))
  BY <1>1, ReadingCalls
<1>4. /\ CallTo(m, "release", Reading(TRUE, 0, c), Reading(FALSE, 0, c))
      /\ CallTo(m, "destroy", Reading(FALSE, 0, c), ReadBack(c))
  BY <1>1, ReadingCalls
<1>5. /\ CallTo(m, compare, Reading(TRUE, 0, c), Judged(TRUE, 0))
      /\ CallTo(m, compare, Reading(FALSE, 0, c), Judged(FALSE, 0))
      /\ CallTo(m, compare, ReadBack(c), BackJudged)
  BY <1>1, <1>2, ClosingCalls
<1>6. /\ CallTo(m, "release", Judged(TRUE, 0), Judged(FALSE, 0))
      /\ CallTo(m, "destroy", Judged(FALSE, 0), BackJudged)
  BY <1>1, ClosingCalls
<1>7. /\ Visible(m, TRUE, 0, j, c) \in SUBSET CaseState
      /\ Reading(TRUE, 0, c) \in SUBSET CaseState /\ Reading(FALSE, 0, c) \in SUBSET CaseState
      /\ ReadBack(c) \in SUBSET CaseState /\ BackJudged \in SUBSET CaseState
      /\ Judged(TRUE, 0) \in SUBSET CaseState /\ Judged(FALSE, 0) \in SUBSET CaseState
  BY DEF Visible, Reading, ReadBack, BackJudged, Back, Judged
<1>8. /\ copy \in Names \ MayFail /\ compare \in Names \ MayFail
      /\ "release" \in Names \ MayFail /\ "destroy" \in Names \ MayFail
  BY <1>1, SureCalls DEF GiveBacks, Compares
<1>9. Leads(m, Visible(m, TRUE, 0, j, c), Sure(<<copy, "release", compare, "destroy">>), BackJudged)
  BY <1>3, <1>4, <1>5, <1>6, <1>7, <1>8, SureFour
<1>10. Leads(m, Visible(m, TRUE, 0, j, c), Sure(<<copy, compare, "release", "destroy">>), BackJudged)
  BY <1>3, <1>5, <1>6, <1>7, <1>8, SureFour
<1>11. Leads(m, Visible(m, TRUE, 0, j, c), Sure(<<copy, "release", "destroy">>), ReadBack(c))
  BY <1>3, <1>4, <1>7, <1>8, SureThree
<1>12. Leads(m, ReadBack(c), Sure(<<compare>>), BackJudged)
  BY <1>5, <1>7, <1>8, SureLast
<1>13. Leads(m, Visible(m, TRUE, 0, j, c), Sure(<<copy>>), Reading(TRUE, 0, c))
  BY <1>3, <1>7, <1>8, SureLast
<1>14. Leads(m, Reading(TRUE, 0, c), Sure(<<compare, "release", "destroy">>), BackJudged)
  BY <1>5, <1>6, <1>7, <1>8, SureThree
<1> QED BY <1>9, <1>10, <1>11, <1>12, <1>13, <1>14

-----------------------------------------------------------------------------
(* One element after the other on the model of one element.                *)
LEMMA TakingLeads ==
  ASSUME NEW m \in Modes, NEW j \in 0..Many, NEW c \in BOOLEAN, j < Many, m.strict => c
  PROVE  Leads(m, Visible(m, TRUE, 0, j, c), Sure(<<"take", "release">>), Opened(m, 0, j + 1))
<1>1. 0 \in 0..3 /\ TRUE \in BOOLEAN /\ j + 1 \in 0..Many
  BY ManyAssumption
<1>2. CallTo(m, "take", Visible(m, TRUE, 0, j, c), Took(m, j + 1))
  BY <1>1, ReadingCalls
<1>3. CallTo(m, "release", Took(m, j + 1), Opened(m, 0, j + 1))
  BY <1>1, ReadingCalls
<1>4. /\ Visible(m, TRUE, 0, j, c) \in SUBSET CaseState /\ Took(m, j + 1) \in SUBSET CaseState
      /\ Opened(m, 0, j + 1) \in SUBSET CaseState
  BY DEF Visible, Took, Opened
<1>5. "take" \in Names \ MayFail /\ "release" \in Names \ MayFail
  BY SureCalls DEF GiveBacks
<1> QED BY <1>2, <1>3, <1>4, <1>5, SureTwo

LEMMA ElementsLead ==
  ASSUME NEW m \in Modes, NEW n \in Totals, NEW element,
         \A j \in 0..(Many - 1) : Leads(m, Opened(m, 0, j), element, Opened(m, 0, j + 1))
  PROVE  Leads(m, Opened(m, 0, 0), FlattenSeq([i \in 1..n |-> element]), Opened(m, 0, n))
<1> DEFINE A == [i \in 1..(n + 1) |-> Opened(m, 0, i - 1)]
<1>1. n \in Nat \ {0} /\ n <= Many /\ Many \in Nat
  BY ManyAssumption DEF Totals
<1>2. ASSUME NEW i \in 1..n PROVE Leads(m, A[i], element, A[i + 1])
  <2>1. /\ i \in 1..(n + 1) /\ i + 1 \in 1..(n + 1) /\ i - 1 \in 0..(Many - 1)
        /\ (i - 1) + 1 = (i + 1) - 1
    BY <1>1
  <2>2. A[i] = Opened(m, 0, i - 1) /\ A[i + 1] = Opened(m, 0, (i + 1) - 1)
    BY <2>1
  <2>3. Leads(m, Opened(m, 0, i - 1), element, Opened(m, 0, (i - 1) + 1))
    BY <2>1
  <2> QED BY <2>1, <2>2, <2>3
<1>3. A[1] = Opened(m, 0, 0) /\ A[n + 1] = Opened(m, 0, n)
  <2>1. 1 \in 1..(n + 1) /\ n + 1 \in 1..(n + 1) /\ 1 - 1 = 0 /\ (n + 1) - 1 = n
    BY <1>1
  <2>2. A[1] = Opened(m, 0, 1 - 1) /\ A[n + 1] = Opened(m, 0, (n + 1) - 1)
    BY <2>1
  <2> QED BY <2>1, <2>2
<1> HIDE DEF A
<1>4. Leads(m, A[1], FlattenSeq([i \in 1..n |-> element]), A[n + 1])
  BY <1>1, <1>2, LeadsLoop
<1> QED BY <1>3, <1>4

LEMMA PerElementLeads ==
  ASSUME NEW m \in Modes, NEW n \in Totals, NEW element, NEW opening, NEW closing, NEW E,
         Leads(m, Unstarted(m), opening, Opened(m, 0, 0)),
         \A j \in 0..(Many - 1) : Leads(m, Opened(m, 0, j), element, Opened(m, 0, j + 1)),
         Leads(m, Opened(m, 0, n), closing, E)
  PROVE  Leads(m, Unstarted(m), PerElement(opening, element, closing)[n], E)
<1>1. Leads(m, Opened(m, 0, 0), FlattenSeq([i \in 1..n |-> element]), Opened(m, 0, n))
  BY ElementsLead
<1> DEFINE loop == FlattenSeq([i \in 1..n |-> element])
<1>2. PerElement(opening, element, closing)[n] = opening \o loop \o closing
  BY DEF PerElement
<1> HIDE DEF loop
<1>3. Leads(m, Unstarted(m), opening \o loop, Opened(m, 0, n))
  BY <1>1, LeadsJoin DEF loop
<1>4. Leads(m, Unstarted(m), (opening \o loop) \o closing, E)
  BY <1>3, LeadsJoin
<1> QED BY <1>2, <1>4

-----------------------------------------------------------------------------
(* The scripts. The tests they make of an output are questions, or         *)
(* questions and the one for what is not finite; that decides whether the  *)
(* comparison can be told by the distance alone.                           *)
Tests(checks, c) ==
  \/ checks \in Seq(Asking) /\ ~c
  \/ \E calls \in Seq(Asking) : checks = calls \o <<"finite">> /\ c

LEMMA TestsLead ==
  ASSUME NEW m \in Modes, NEW j \in 0..Many, NEW c \in BOOLEAN, NEW checks, Tests(checks, c)
  PROVE  Leads(m, Visible(m, TRUE, 0, j, FALSE), Checked(checks), Visible(m, TRUE, 0, j, c))
<1>1. CASE checks \in Seq(Asking) /\ ~c
  <2>1. Leads(m, Visible(m, TRUE, 0, j, FALSE), Checked(checks), Visible(m, TRUE, 0, j, FALSE))
    BY <1>1, CheckedLeads
  <2>2. c = FALSE
    BY <1>1
  <2> QED BY <2>1, <2>2
<1>2. CASE \E calls \in Seq(Asking) : checks = calls \o <<"finite">> /\ c
  <2>1. PICK calls \in Seq(Asking) : checks = calls \o <<"finite">> /\ c
    BY <1>2
  <2>2. Leads(m, Visible(m, TRUE, 0, j, FALSE), Checked(calls \o <<"finite">>),
                 Visible(m, TRUE, 0, j, TRUE))
    BY CheckedLeads
  <2>3. c = TRUE
    BY <2>1
  <2> QED BY <2>1, <2>2, <2>3
<1> QED BY <1>1, <1>2 DEF Tests

LEMMA RunWholeLeads ==
  ASSUME NEW m \in Modes, m.whole, NEW n \in Totals, NEW checks, NEW c \in BOOLEAN,
         Tests(checks, c), NEW compare, Judgable(m, c, compare)
  PROVE  Leads(m, Unstarted(m), RunWhole(checks, compare)[n], BackJudged)
<1>1. 0 \in 0..Many
  BY ManyAssumption
<1> DEFINE ending == Sure(<<"copy", "release", compare, "destroy">>)
<1>2. Leads(m, Visible(m, TRUE, 0, 0, c), ending, BackJudged)
  BY <1>1, ClosingsLead
<1> HIDE DEF ending
<1>3. Leads(m, Unstarted(m), Queried \o Inference, Visible(m, TRUE, 0, 0, FALSE))
  BY <1>1, OpeningsLead, InferenceLeads, LeadsJoin
<1>4. Leads(m, Unstarted(m), Queried \o Inference \o Checked(checks), Visible(m, TRUE, 0, 0, c))
  BY <1>1, <1>3, TestsLead, LeadsJoin
<1>5. Leads(m, Unstarted(m), Queried \o Inference \o Checked(checks) \o ending, BackJudged)
  BY <1>2, <1>4, LeadsJoin
<1> QED BY <1>5 DEF RunWhole, AnySize, ending

LEMMA RunEachLeads ==
  ASSUME NEW m \in Modes, NEW n \in Totals, NEW checks, NEW c \in BOOLEAN,
         Tests(checks, c), m.strict => c, NEW compare \in Compares
  PROVE  Leads(m, Unstarted(m), RunEach(checks, compare)[n], BackJudged)
<1>1. Leads(m, Unstarted(m), Queried, Opened(m, 0, 0))
  BY OpeningsLead
<1>2. ASSUME NEW j \in 0..(Many - 1)
      PROVE  Leads(m, Opened(m, 0, j), RunScalar(checks), Opened(m, 0, j + 1))
  <2>1. j \in 0..Many /\ j < Many
    BY ManyAssumption
  <2>2. Leads(m, Opened(m, 0, j), Inference \o Checked(checks), Visible(m, TRUE, 0, j, c))
    BY <2>1, InferenceLeads, TestsLead, LeadsJoin
  <2>3. Leads(m, Opened(m, 0, j), Inference \o Checked(checks) \o Sure(<<"take", "release">>),
                 Opened(m, 0, j + 1))
    BY <2>1, <2>2, TakingLeads, LeadsJoin
  <2> QED BY <2>3 DEF RunScalar
<1>3. Leads(m, Opened(m, 0, n), Sure(<<compare, "destroy">>), BackJudged)
  <2>1. n \in 0..Many /\ 0 \in 0..3 /\ FALSE \in BOOLEAN
    BY ManyAssumption DEF Totals
  <2>2. CallTo(m, compare, Opened(m, 0, n), Judged(FALSE, 0))
        /\ CallTo(m, "destroy", Judged(FALSE, 0), BackJudged)
    BY <2>1, ClosingCalls
  <2>3. compare \in Names \ MayFail /\ "destroy" \in Names \ MayFail
    BY SureCalls DEF GiveBacks, Compares
  <2>4. Opened(m, 0, n) \in SUBSET CaseState /\ Judged(FALSE, 0) \in SUBSET CaseState
        /\ BackJudged \in SUBSET CaseState
    BY DEF Opened, Judged, BackJudged, Back
  <2> QED BY <2>2, <2>3, <2>4, SureTwo
<1>4. Leads(m, Unstarted(m),
            PerElement(Queried, RunScalar(checks), Sure(<<compare, "destroy">>))[n], BackJudged)
  BY <1>1, <1>2, <1>3, PerElementLeads
<1> QED BY <1>4 DEF RunEach

LEMMA CompareHeldLeads ==
  ASSUME NEW m \in Modes, m.whole, NEW n \in Totals, NEW checks \in Seq(Asking), NEW opening,
         Leads(m, Unstarted(m), opening, Opened(m, 0, 0)),
         NEW compare, Judgable(m, FALSE, compare)
  PROVE  Leads(m, Unstarted(m), CompareHeld(opening, checks, compare)[n], BackJudged)
<1>1. 0 \in 0..Many /\ FALSE \in BOOLEAN
  BY ManyAssumption
<1> DEFINE ending == Sure(<<"copy", compare, "release", "destroy">>)
<1>2. Leads(m, Visible(m, TRUE, 0, 0, FALSE), ending, BackJudged)
  BY <1>1, ClosingsLead
<1> HIDE DEF ending
<1>3. Leads(m, Unstarted(m), opening \o Inference, Visible(m, TRUE, 0, 0, FALSE))
  BY <1>1, InferenceLeads, LeadsJoin
<1>4. Leads(m, Unstarted(m), opening \o Inference \o Checked(checks), Visible(m, TRUE, 0, 0, FALSE))
  BY <1>1, <1>3, CheckedLeads, LeadsJoin
<1>5. Leads(m, Unstarted(m), opening \o Inference \o Checked(checks) \o ending, BackJudged)
  BY <1>2, <1>4, LeadsJoin
<1> QED BY <1>5 DEF CompareHeld, AnySize, ending

LEMMA AskingCall ==
  ASSUME NEW m, NEW c \in Asking, NEW A \in SUBSET CaseState
  PROVE  CallTo(m, c, A, A) /\ c \in Names
<1> SUFFICES ASSUME NEW s \in A PROVE Allowed(m, c, s) /\ After(c, s) = s
  BY DEF CallTo, Asking, Names
<1>1. s = [ctx |-> s.ctx, fed |-> s.fed, ran |-> s.ran, held |-> s.held, mems |-> s.mems,
           out |-> s.out, taken |-> s.taken, clean |-> s.clean, sure |-> s.sure,
           compared |-> s.compared]
  BY DEF CaseState
<1> QED BY <1>1 DEF Asking, After, Allowed

LEMMA SureSplit ==
  ASSUME NEW a \in Seq(Names), NEW b \in Seq(Names)
  PROVE  Sure(a \o b) = Sure(a) \o Sure(b)
BY UndoTyped, StepsSplit DEF Sure

(* The calls that a case judged gives its memories back with.              *)
LEMMA UnwoundJudged ==
  ASSUME NEW m \in Modes, NEW n \in 0..3
  PROVE  Leads(m, Judged(FALSE, n), Sure(unwound[n]), BackJudged)
<1>1. /\ CallTo(m, "destroy", Judged(FALSE, 0), BackJudged)
      /\ \A i \in 0..2 : CallTo(m, "destroy_mem", Judged(FALSE, i + 1), Judged(FALSE, i))
  <2>1. 0 \in 0..3 /\ TRUE \in BOOLEAN /\ 0 \in 0..Many /\ "compare" \in Compares
        /\ \A i \in 0..2 : i \in 0..3 /\ i < 3
    BY ManyAssumption DEF Compares
  <2> QED BY <2>1, ClosingCalls
<1>2. BackJudged \in SUBSET CaseState /\ \A i : Judged(FALSE, i) \in SUBSET CaseState
  BY DEF BackJudged, Back, Judged
<1>3. "destroy" \in Names \ MayFail /\ "destroy_mem" \in Names \ MayFail
  BY SureCalls DEF GiveBacks
<1>4. Leads(m, Judged(FALSE, 0), Sure(unwound[0]), BackJudged)
  <2>1. Leads(m, Judged(FALSE, 0), Sure(<<"destroy">>), BackJudged)
    BY <1>1, <1>2, <1>3, SureLast
  <2> QED BY <2>1, UnwoundIs
<1>5. ASSUME NEW i \in 0..2, Leads(m, Judged(FALSE, i), Sure(unwound[i]), BackJudged)
      PROVE  Leads(m, Judged(FALSE, i + 1), Sure(unwound[i + 1]), BackJudged)
  <2>1. i \in 0..3
    OBVIOUS
  <2>2. unwound[i + 1] = <<"destroy_mem">> \o unwound[i]
    BY UnwoundIs
  <2>3. unwound[i] \in Seq(Names)
    BY <2>1, UndoTyped
  <2>4. CallTo(m, "destroy_mem", Judged(FALSE, i + 1), Judged(FALSE, i))
    BY <1>1
  <2>5. Leads(m, Judged(FALSE, i + 1), Sure(<<"destroy_mem">> \o unwound[i]), BackJudged)
    BY <1>2, <1>3, <1>5, <2>3, <2>4, SureFirst
  <2> QED BY <2>2, <2>5
<1>6. Leads(m, Judged(FALSE, 1), Sure(unwound[1]), BackJudged)
  <2>1. 0 \in 0..2 /\ 0 + 1 = 1
    OBVIOUS
  <2> QED BY <1>4, <1>5, <2>1
<1>7. Leads(m, Judged(FALSE, 2), Sure(unwound[2]), BackJudged)
  <2>1. 1 \in 0..2 /\ 1 + 1 = 2
    OBVIOUS
  <2> QED BY <1>5, <1>6, <2>1
<1>8. Leads(m, Judged(FALSE, 3), Sure(unwound[3]), BackJudged)
  <2>1. 2 \in 0..2 /\ 2 + 1 = 3
    OBVIOUS
  <2> QED BY <1>5, <1>7, <2>1
<1>9. n = 0 \/ n = 1 \/ n = 2 \/ n = 3
  OBVIOUS
<1> QED BY <1>4, <1>6, <1>7, <1>8, <1>9

-----------------------------------------------------------------------------
(* add_int.cpp and shift.cpp.                                              *)
LEMMA AddIntLeads ==
  ASSUME NEW m \in Modes, m.whole, ~m.strict, NEW n \in Totals
  PROVE  Leads(m, Unstarted(m), AddIntCpp.whole[n], BackJudged)
<1>1. 0 \in 0..Many /\ FALSE \in BOOLEAN /\ <<"type", "size">> \in Seq(Asking)
  BY ManyAssumption DEF Asking
<1> DEFINE ending == Sure(<<"copy_int", "release", "compare", "destroy">>)
           checks == <<"type", "size">>
<1>2. Leads(m, Visible(m, TRUE, 0, 0, FALSE), ending, BackJudged)
  <2>1. Judgable(m, FALSE, "compare")
    BY DEF Judgable, Compares
  <2> QED BY <1>1, <2>1, ClosingsLead
<1>3. AddIntCpp.whole[n] = Queried \o Inference \o Checked(checks) \o ending
  BY DEF AddIntCpp, Cases, AnySize
<1>4. checks \in Seq(Asking)
  BY <1>1
<1> HIDE DEF ending, checks
<1>5. Leads(m, Unstarted(m), Queried \o Inference, Visible(m, TRUE, 0, 0, FALSE))
  BY <1>1, OpeningsLead, InferenceLeads, LeadsJoin
<1>6. Leads(m, Unstarted(m), Queried \o Inference \o Checked(checks), Visible(m, TRUE, 0, 0, FALSE))
  BY <1>1, <1>4, <1>5, CheckedLeads, LeadsJoin
<1>7. Leads(m, Unstarted(m), Queried \o Inference \o Checked(checks) \o ending, BackJudged)
  BY <1>2, <1>6, LeadsJoin
<1> QED BY <1>3, <1>7

(* ops_int32.cpp and ops_int8.cpp, which compare nothing.                  *)
LEMMA OpsInt32Leads ==
  ASSUME NEW m \in Modes, ~m.strict, NEW n \in Totals
  PROVE  Leads(m, Unstarted(m), OpsInt32Cpp.whole[n], Back)
<1> DEFINE element == Inference \o Sure(<<"take", "release">>)
<1>1. ASSUME NEW j \in 0..(Many - 1)
      PROVE  Leads(m, Opened(m, 0, j), element, Opened(m, 0, j + 1))
  <2>1. j \in 0..Many /\ j < Many /\ FALSE \in BOOLEAN
    BY ManyAssumption
  <2> QED BY <2>1, InferenceLeads, TakingLeads, LeadsJoin
<1>2. Leads(m, Opened(m, 0, n), Sure(<<"destroy">>), Back)
  <2>1. n \in 0..Many /\ 0 \in 0..3 /\ TRUE \in BOOLEAN /\ "compare" \in Compares
    BY ManyAssumption DEF Totals, Compares
  <2>2. CallTo(m, "destroy", Alive(FALSE, 0), Back)
    BY <2>1, ClosingCalls
  <2>3. "destroy" \in Names \ MayFail
    BY SureCalls DEF GiveBacks
  <2>4. Alive(FALSE, 0) \in SUBSET CaseState /\ Back \in SUBSET CaseState
        /\ Opened(m, 0, n) \in SUBSET Alive(FALSE, 0)
    BY DEF Alive, Back, Opened
  <2>5. Leads(m, Alive(FALSE, 0), Sure(<<"destroy">>), Back)
    BY <2>2, <2>3, <2>4, SureLast
  <2> QED BY <2>4, <2>5, LeadsWeaker
<1> HIDE DEF element
<1>3. Leads(m, Unstarted(m), PerElement(Opening, element, Sure(<<"destroy">>))[n], Back)
  BY <1>1, <1>2, OpeningLeads, PerElementLeads
<1>4. OpsInt32Cpp.whole = PerElement(Opening, element, Sure(<<"destroy">>))
  BY DEF OpsInt32Cpp, Printed, Cases, element
<1> QED BY <1>3, <1>4

(* conv2d_multi.cpp, matmul_multi.cpp and pool.cpp.                        *)
LEMMA MultiLeads ==
  ASSUME NEW m \in Modes, m.whole, ~m.strict, NEW n \in Totals
  PROVE  /\ Leads(m, Unstarted(m), Conv2dMultiCpp.whole[n], BackJudged)
         /\ Leads(m, Unstarted(m), MatmulMultiCpp.whole[n], BackJudged)
         /\ Leads(m, Unstarted(m), PoolCpp.whole[n], BackJudged)
<1> DEFINE V == Visible(m, TRUE, 0, 0, FALSE)
<1>1. 0 \in 0..Many /\ FALSE \in BOOLEAN /\ Judgable(m, FALSE, "compare")
  BY ManyAssumption DEF Judgable, Compares
<1>2. Leads(m, Unstarted(m), FormatKnown \o Inference, V)
  BY <1>1, OpeningsLead, InferenceLeads, LeadsJoin
<1>3. /\ <<"query", "check", "size", "check">> \in Seq(Asking)
      /\ <<"check", "size">> \in Seq(Asking)
  BY DEF Asking
<1>4. /\ Leads(m, V, Sure(<<"copy", "compare", "release", "destroy">>), BackJudged)
      /\ Leads(m, V, Sure(<<"copy", "release", "destroy">>), ReadBack(FALSE))
      /\ Leads(m, ReadBack(FALSE), Sure(<<"compare">>), BackJudged)
      /\ Leads(m, V, Sure(<<"copy">>), Reading(TRUE, 0, FALSE))
      /\ Leads(m, Reading(TRUE, 0, FALSE), Sure(<<"compare", "release", "destroy">>), BackJudged)
  BY <1>1, ClosingsLead
<1>5. Leads(m, Unstarted(m), Conv2dMultiCpp.whole[n], BackJudged)
  <2>1. Leads(m, V, Checked(<<"query", "check", "size", "check">>), V)
    BY <1>1, <1>3, CheckedLeads
  <2>2. Leads(m, V, Conv2dMultiOutput, Reading(TRUE, 0, FALSE))
    BY <1>4, <2>1, LeadsJoin DEF Conv2dMultiOutput
  <2>3. Leads(m, Unstarted(m), FormatKnown \o Inference \o Conv2dMultiOutput, Reading(TRUE, 0, FALSE))
    BY <1>2, <2>2, LeadsJoin
  <2>4. Leads(m, Unstarted(m), FormatKnown \o Inference \o Conv2dMultiOutput \o Conv2dMultiCompare,
              BackJudged)
    <3>1. Leads(m, Reading(TRUE, 0, FALSE), Conv2dMultiCompare, BackJudged)
      BY <1>4 DEF Conv2dMultiCompare
    <3> QED BY <2>3, <3>1, LeadsJoin
  <2>5. Conv2dMultiCpp.whole[n] = FormatKnown \o Inference \o Conv2dMultiOutput \o Conv2dMultiCompare
    BY DEF Conv2dMultiCpp, Listed, Cases, AnySize, Conv2dMultiInput
  <2> QED BY <2>4, <2>5
<1>6. Leads(m, Unstarted(m), MatmulMultiCpp.whole[n], BackJudged)
  <2>1. Leads(m, Unstarted(m), FormatKnown \o Inference \o MatmulMultiOutput, BackJudged)
    <3>1. Leads(m, V, MatmulMultiOutput, BackJudged)
      BY <1>4 DEF MatmulMultiOutput
    <3> QED BY <1>2, <3>1, LeadsJoin
  <2>2. MatmulMultiCpp.whole[n] = FormatKnown \o Inference \o MatmulMultiOutput
    BY DEF MatmulMultiCpp, Listed, Cases, AnySize, MatmulMultiInput
  <2> QED BY <2>1, <2>2
<1>7. Leads(m, Unstarted(m), PoolCpp.whole[n], BackJudged)
  <2>1. Leads(m, V, Checked(<<"check", "size">>), V)
    BY <1>1, <1>3, CheckedLeads
  <2>2. Leads(m, V, PoolOutput, ReadBack(FALSE))
    BY <1>4, <2>1, LeadsJoin DEF PoolOutput
  <2>3. Leads(m, Unstarted(m), FormatKnown \o Inference \o PoolOutput, ReadBack(FALSE))
    BY <1>2, <2>2, LeadsJoin
  <2> DEFINE ending == Sure(<<"compare">>)
  <2>4. Leads(m, ReadBack(FALSE), ending, BackJudged)
    BY <1>4
  <2>5. PoolCpp.whole[n] = FormatKnown \o Inference \o PoolOutput \o ending
    BY DEF PoolCpp, Listed, Cases, AnySize, PoolInput
  <2> HIDE DEF ending
  <2>6. Leads(m, Unstarted(m), FormatKnown \o Inference \o PoolOutput \o ending, BackJudged)
    BY <2>3, <2>4, LeadsJoin
  <2> QED BY <2>5, <2>6
<1> QED BY <1>5, <1>6, <1>7

(* conv1d_simple.cpp: what holds the output is one memory.                 *)
LEMMA Conv1dLeads ==
  ASSUME NEW m \in Modes, m.whole, ~m.strict, NEW n \in Totals
  PROVE  Leads(m, Unstarted(m), Conv1dSimpleCpp.whole[n], BackJudged)
<1> DEFINE V == Visible(m, TRUE, 1, 0, FALSE)
           A == Opened(m, 1, 0)
<1>1. 0 \in 0..3 /\ 1 \in 0..3 /\ 0 \in 0..Many /\ TRUE \in BOOLEAN /\ FALSE \in BOOLEAN
      /\ "compare" \in Compares /\ 0 + 1 = 1 /\ 0 < 3
  BY ManyAssumption DEF Compares
<1>2. /\ Opened(m, 0, 0) \in SUBSET CaseState /\ Opened(m, 0, 0) \subseteq Alive(FALSE, 0)
      /\ A \in SUBSET CaseState /\ Fed(m, 1, 0) \in SUBSET CaseState
      /\ Ran(m, 1, 0) \in SUBSET CaseState /\ V \in SUBSET CaseState
      /\ A \subseteq Alive(FALSE, 1) /\ Fed(m, 1, 0) \subseteq Alive(FALSE, 1)
      /\ Ran(m, 1, 0) \subseteq Alive(FALSE, 1) /\ V \subseteq Alive(TRUE, 1)
  BY DEF Opened, Fed, Ran, Visible, Alive
<1>3. Leads(m, Unstarted(m), Conv1dSimpleMem, A)
  <2>1. CallTo(m, "create_mem", Opened(m, 0, 0), A)
    BY <1>1, ClosingCalls
  <2>2. \A s \in Alive(FALSE, 0) : Unwinds(m, <<"destroy">>, s)
    BY Undoing
  <2>3. "create_mem" \in Names
    BY DEF Names
  <2>4. Leads(m, Opened(m, 0, 0), Steps(<<"create_mem">>, <<"destroy">>), A)
    BY <1>2, <2>1, <2>2, <2>3, UndoTyped, RiskyLast
  <2> QED BY <2>4, OpeningsLead, LeadsJoin DEF Conv1dSimpleMem
<1>4. Leads(m, A, Steps(<<"set_io_mem", "set", "run", "get">>, destroy_output_mem), V)
  <2>1. /\ CallTo(m, "set", A, Fed(m, 1, 0)) /\ CallTo(m, "run", Fed(m, 1, 0), Ran(m, 1, 0))
        /\ CallTo(m, "get", Ran(m, 1, 0), V)
    BY <1>1, OpeningCalls
  <2>2. CallTo(m, "set_io_mem", A, A)
    BY <1>2, AskingCall DEF Asking
  <2>3. "set_io_mem" \in Names /\ "set" \in Names /\ "run" \in Names /\ "get" \in Names
    BY DEF Names
  <2>4. \A s \in Alive(FALSE, 1) : Unwinds(m, destroy_output_mem, s)
    BY <1>1, Undoing, UnwoundIs
  <2> HIDE DEF A, V
  <2> QED BY <1>2, <2>1, <2>2, <2>3, <2>4, UndoTyped, RiskyFour
<1>5. Leads(m, V, Steps(<<"mem_sync">>, <<"release">> \o destroy_output_mem), V)
  <2> DEFINE undo == <<"release">> \o destroy_output_mem
  <2>1. \A s \in Alive(TRUE, 1) : Unwinds(m, undo, s)
    BY Undoing
  <2>2. CallTo(m, "mem_sync", V, V) /\ "mem_sync" \in Names
    BY <1>2, AskingCall DEF Asking
  <2>3. undo \in Seq(Names)
    BY UndoTyped
  <2> HIDE DEF undo, V
  <2>4. Leads(m, V, Steps(<<"mem_sync">>, undo), V)
    BY <1>2, <2>1, <2>2, <2>3, RiskyLast
  <2> QED BY <2>4 DEF undo
<1>6. Leads(m, A, Conv1dSimpleInference, V)
  <2> HIDE DEF A, V
  <2> QED BY <1>4, <1>5, LeadsJoin DEF Conv1dSimpleInference
<1>7. Leads(m, V, Conv1dSimpleOutput, BackJudged)
  <2> DEFINE first == <<"copy", "release", "compare">>
  <2>1. /\ CallTo(m, "copy", V, Reading(TRUE, 1, FALSE))
        /\ CallTo(m, "release", Reading(TRUE, 1, FALSE), Reading(FALSE, 1, FALSE))
    BY <1>1, ReadingCalls
  <2>2. CallTo(m, "compare", Reading(FALSE, 1, FALSE), Judged(FALSE, 1))
    BY <1>1, ClosingCalls
  <2>3. /\ Reading(TRUE, 1, FALSE) \in SUBSET CaseState
        /\ Reading(FALSE, 1, FALSE) \in SUBSET CaseState
        /\ Judged(FALSE, 1) \in SUBSET CaseState
    BY DEF Reading, Judged
  <2>4. "copy" \in Names \ MayFail /\ "release" \in Names \ MayFail /\ "compare" \in Names \ MayFail
    BY SureCalls DEF GiveBacks
  <2>5. Leads(m, V, Sure(first), Judged(FALSE, 1))
    BY <1>2, <2>1, <2>2, <2>3, <2>4, SureThree
  <2>6. Leads(m, Judged(FALSE, 1), Sure(destroy_output_mem), BackJudged)
    BY <1>1, UnwoundJudged, UnwoundIs
  <2>7. first \in Seq(Names)
    BY <2>4
  <2>8. Conv1dSimpleOutput = Sure(first \o destroy_output_mem)
    BY DEF Conv1dSimpleOutput
  <2> HIDE DEF first
  <2>9. Conv1dSimpleOutput = Sure(first) \o Sure(destroy_output_mem)
    BY <2>7, <2>8, UndoTyped, SureSplit
  <2> QED BY <2>5, <2>6, <2>9, LeadsJoin
<1> HIDE DEF A, V
<1>8. Leads(m, Unstarted(m), Conv1dSimpleMem \o Conv1dSimpleInference \o Conv1dSimpleOutput,
            BackJudged)
  BY <1>3, <1>6, <1>7, LeadsJoin
<1>9. Conv1dSimpleCpp.whole[n] = Conv1dSimpleMem \o Conv1dSimpleInference \o Conv1dSimpleOutput
  BY DEF Conv1dSimpleCpp, Printed, Cases, AnySize
<1> QED BY <1>8, <1>9

-----------------------------------------------------------------------------
(* matmul_api.cpp: three memories, each with a clean-up of its own.        *)
LEMMA MemsApart ==
  MatmulMems = Steps(<<"create_mem">>, unwound[0]) \o Steps(<<"create_mem">>, unwound[1])
               \o Steps(<<"create_mem">>, unwound[2])
               \o Steps(<<"mem_sync", "bind", "run", "read_mem">>, unwound[3])
<1> DEFINE q(i) == Steps(<<"create_mem">>, unwound[i])
           x(i) == Step("create_mem", unwound[i])
           all == <<x(0), x(1), x(2)>>
           more == Steps(<<"mem_sync", "bind", "run", "read_mem">>, unwound[3])
<1>1. "create_mem" \in Names
  BY DEF Names
<1>2. ASSUME NEW i \in 0..3
      PROVE  q(i) \in Seq(Calls) /\ Len(q(i)) = 1 /\ q(i)[1] = x(i) /\ x(i) \in Calls
  <2> DEFINE one == <<"create_mem">>
  <2>1. one \in Seq(Names) /\ Len(one) = 1 /\ 1 \in 1..Len(one) /\ one[1] = "create_mem"
    BY <1>1
  <2>2. unwound[i] \in Seq(Names)
    BY UndoTyped
  <2>3. x(i) \in Calls
    BY <1>1, <2>2 DEF Step, Calls
  <2> HIDE DEF one
  <2>4. Steps(one, unwound[i]) \in Scripts /\ Len(Steps(one, unwound[i])) = 1
        /\ Steps(one, unwound[i])[1] = x(i)
    BY <2>1, <2>2, StepsAre
  <2> QED BY <2>3, <2>4 DEF Scripts, one
<1>3. 0 \in 0..3 /\ 1 \in 0..3 /\ 2 \in 0..3
  OBVIOUS
<1>4. /\ q(0) \in Seq(Calls) /\ Len(q(0)) = 1 /\ q(0)[1] = x(0)
      /\ q(1) \in Seq(Calls) /\ Len(q(1)) = 1 /\ q(1)[1] = x(1)
      /\ q(2) \in Seq(Calls) /\ Len(q(2)) = 1 /\ q(2)[1] = x(2)
      /\ x(0) \in Calls /\ x(1) \in Calls /\ x(2) \in Calls
  BY <1>2, <1>3
<1> HIDE DEF q, x
<1>5. /\ all \in Seq(Calls) /\ Len(all) = 3
      /\ all[1] = x(0) /\ all[2] = x(1) /\ all[3] = x(2)
  BY <1>4
<1> HIDE DEF all
<1>6. q(0) \o q(1) \o q(2) = all
  <2>1. /\ q(0) \o q(1) \in Seq(Calls) /\ Len(q(0) \o q(1)) = 2
        /\ (q(0) \o q(1))[1] = x(0) /\ (q(0) \o q(1))[2] = x(1)
    BY <1>4, ConcatProperties
  <2> DEFINE a == q(0) \o q(1)
  <2>2. a \in Seq(Calls) /\ Len(a) = 2 /\ a[1] = x(0) /\ a[2] = x(1)
    BY <2>1
  <2> HIDE DEF a
  <2>3. /\ a \o q(2) \in Seq(Calls) /\ Len(a \o q(2)) = 3
        /\ (a \o q(2))[1] = x(0) /\ (a \o q(2))[2] = x(1) /\ (a \o q(2))[3] = x(2)
    BY <1>4, <2>2, ConcatProperties
  <2>4. \A i \in 1..3 : (a \o q(2))[i] = all[i]
    <3>1. \A i \in 1..3 : i = 1 \/ i = 2 \/ i = 3
      OBVIOUS
    <3> QED BY <1>5, <2>3, <3>1
  <2>5. Len(a \o q(2)) = Len(all)
    BY <1>5, <2>3
  <2>6. a \o q(2) = all
    BY <1>5, <2>3, <2>4, <2>5, SeqEqual
  <2> QED BY <2>6 DEF a
<1>7. MatmulMems = all \o more
  BY DEF MatmulMems, all, x
<1> HIDE DEF more
<1>8. MatmulMems = (q(0) \o q(1) \o q(2)) \o more
  BY <1>6, <1>7
<1> QED BY <1>8 DEF q, more

LEMMA MatmulMemsLead ==
  ASSUME NEW m \in Modes
  PROVE  Leads(m, Opened(m, 0, 0), MatmulMems, Visible(m, FALSE, 3, 0, FALSE))
<1>1. 0 \in 0..Many /\ 3 \in 0..3 /\ FALSE \in BOOLEAN /\ "compare" \in Compares
  BY ManyAssumption DEF Compares
<1>2. \A i \in 0..3 : Opened(m, i, 0) \in SUBSET CaseState /\ Opened(m, i, 0) \subseteq Alive(FALSE, i)
  BY DEF Opened, Alive
<1>3. ASSUME NEW i \in 0..2
      PROVE  Leads(m, Opened(m, i, 0), Steps(<<"create_mem">>, unwound[i]), Opened(m, i + 1, 0))
  <2>1. i \in 0..3 /\ i + 1 \in 0..3 /\ i < 3
    OBVIOUS
  <2>2. CallTo(m, "create_mem", Opened(m, i, 0), Opened(m, i + 1, 0))
    BY <1>1, <2>1, ClosingCalls
  <2>3. \A s \in Alive(FALSE, i) : Unwinds(m, unwound[i], s)
    BY <2>1, Undoing
  <2>4. "create_mem" \in Names
    BY DEF Names
  <2>5. unwound[i] \in Seq(Names)
    BY <2>1, UndoTyped
  <2> QED BY <1>2, <2>1, <2>2, <2>3, <2>4, <2>5, RiskyLast
<1>4. /\ Leads(m, Opened(m, 0, 0), Steps(<<"create_mem">>, unwound[0]), Opened(m, 1, 0))
      /\ Leads(m, Opened(m, 1, 0), Steps(<<"create_mem">>, unwound[1]), Opened(m, 2, 0))
      /\ Leads(m, Opened(m, 2, 0), Steps(<<"create_mem">>, unwound[2]), Opened(m, 3, 0))
  <2>1. 0 \in 0..2 /\ 1 \in 0..2 /\ 2 \in 0..2 /\ 0 + 1 = 1 /\ 1 + 1 = 2 /\ 2 + 1 = 3
    OBVIOUS
  <2> QED BY <1>3, <2>1
<1>5. Leads(m, Opened(m, 3, 0), Steps(<<"mem_sync", "bind", "run", "read_mem">>, unwound[3]),
            Visible(m, FALSE, 3, 0, FALSE))
  <2>1. /\ CallTo(m, "bind", Opened(m, 3, 0), Fed(m, 3, 0))
        /\ CallTo(m, "run", Fed(m, 3, 0), Ran(m, 3, 0))
        /\ CallTo(m, "read_mem", Ran(m, 3, 0), Visible(m, FALSE, 3, 0, FALSE))
    BY <1>1, OpeningCalls
  <2>2. CallTo(m, "mem_sync", Opened(m, 3, 0), Opened(m, 3, 0))
    BY <1>1, <1>2, AskingCall DEF Asking
  <2>3. "mem_sync" \in Names /\ "bind" \in Names /\ "run" \in Names /\ "read_mem" \in Names
    BY DEF Names
  <2>4. \A s \in Alive(FALSE, 3) : Unwinds(m, unwound[3], s)
    BY <1>1, Undoing
  <2>5. unwound[3] \in Seq(Names)
    BY <1>1, UndoTyped
  <2>6. /\ Opened(m, 3, 0) \in SUBSET CaseState /\ Fed(m, 3, 0) \in SUBSET CaseState
        /\ Ran(m, 3, 0) \in SUBSET CaseState /\ Visible(m, FALSE, 3, 0, FALSE) \in SUBSET CaseState
        /\ Opened(m, 3, 0) \subseteq Alive(FALSE, 3) /\ Fed(m, 3, 0) \subseteq Alive(FALSE, 3)
        /\ Ran(m, 3, 0) \subseteq Alive(FALSE, 3)
    BY DEF Opened, Fed, Ran, Visible, Alive
  <2> QED BY <2>1, <2>2, <2>3, <2>4, <2>5, <2>6, RiskyFour
<1> DEFINE a == Steps(<<"create_mem">>, unwound[0])
           b == Steps(<<"create_mem">>, unwound[1])
           d == Steps(<<"create_mem">>, unwound[2])
           e == Steps(<<"mem_sync", "bind", "run", "read_mem">>, unwound[3])
<1>6. MatmulMems = a \o b \o d \o e
  BY MemsApart
<1>7. /\ Leads(m, Opened(m, 0, 0), a, Opened(m, 1, 0)) /\ Leads(m, Opened(m, 1, 0), b, Opened(m, 2, 0))
      /\ Leads(m, Opened(m, 2, 0), d, Opened(m, 3, 0))
      /\ Leads(m, Opened(m, 3, 0), e, Visible(m, FALSE, 3, 0, FALSE))
  BY <1>4, <1>5
<1> HIDE DEF a, b, d, e
<1>8. Leads(m, Opened(m, 0, 0), a \o b, Opened(m, 2, 0))
  BY <1>7, LeadsJoin
<1>9. Leads(m, Opened(m, 0, 0), a \o b \o d, Opened(m, 3, 0))
  BY <1>7, <1>8, LeadsJoin
<1> QED BY <1>6, <1>7, <1>9, LeadsJoin

LEMMA InitLeads ==
  ASSUME NEW m \in Modes
  PROVE  Leads(m, Unstarted(m), Sure(<<"init">>), Opened(m, 0, 0))
<1>1. CallTo(m, "init", Unstarted(m), Opened(m, 0, 0))
  <2>1. 0 \in 0..3 /\ 0 \in 0..Many
    BY ManyAssumption
  <2> QED BY <2>1, OpeningCalls
<1>2. Unstarted(m) \subseteq Back /\ Unstarted(m) \in SUBSET CaseState
      /\ Opened(m, 0, 0) \in SUBSET CaseState
  BY DEF Unstarted, Opened, Back
<1>3. "init" \in Names
  BY DEF Names
<1>4. \A s \in Back : Unwinds(m, <<>>, s)
  BY Undoing
<1> QED BY <1>1, <1>2, <1>3, <1>4, UndoTyped, RiskyLast DEF Sure

(* The end of both kinds of case.                                          *)
LEMMA MatmulEnd ==
  ASSUME NEW m \in Modes, m.whole, NEW compare, Judgable(m, FALSE, compare)
  PROVE  Leads(m, Visible(m, FALSE, 3, 0, FALSE), Sure(<<"copy", compare>> \o unwound[3]), BackJudged)
<1> DEFINE first == <<"copy", compare>>
<1>1. 0 \in 0..Many /\ 3 \in 0..3 /\ FALSE \in BOOLEAN /\ compare \in Compares
      /\ (compare = "compare" /\ m.strict => FALSE)
  BY ManyAssumption DEF Judgable
<1>2. CallTo(m, "copy", Visible(m, FALSE, 3, 0, FALSE), Reading(FALSE, 3, FALSE))
  BY <1>1, ReadingCalls
<1>3. CallTo(m, compare, Reading(FALSE, 3, FALSE), Judged(FALSE, 3))
  BY <1>1, ClosingCalls
<1>4. /\ Visible(m, FALSE, 3, 0, FALSE) \in SUBSET CaseState
      /\ Reading(FALSE, 3, FALSE) \in SUBSET CaseState /\ Judged(FALSE, 3) \in SUBSET CaseState
  BY DEF Visible, Reading, Judged
<1>5. "copy" \in Names \ MayFail /\ compare \in Names \ MayFail
  BY <1>1, SureCalls DEF Compares
<1>6. Leads(m, Visible(m, FALSE, 3, 0, FALSE), Sure(first), Judged(FALSE, 3))
  BY <1>2, <1>3, <1>4, <1>5, SureTwo
<1>7. first \in Seq(Names) /\ unwound[3] \in Seq(Names)
  BY <1>1, <1>5, UndoTyped
<1> HIDE DEF first
<1>8. Sure(first \o unwound[3]) = Sure(first) \o Sure(unwound[3])
  BY <1>7, SureSplit
<1>9. Leads(m, Judged(FALSE, 3), Sure(unwound[3]), BackJudged)
  BY <1>1, UnwoundJudged
<1>10. Leads(m, Visible(m, FALSE, 3, 0, FALSE), Sure(first \o unwound[3]), BackJudged)
  BY <1>6, <1>8, <1>9, LeadsJoin
<1> QED BY <1>10 DEF first

LEMMA MatmulLeads ==
  ASSUME NEW m \in Modes, m.whole, NEW n \in Totals
  PROVE  /\ ~m.strict => /\ Leads(m, Unstarted(m), RunFloat16Case[n], BackJudged)
                         /\ Leads(m, Unstarted(m), RunFloat16Recreated[n], BackJudged)
         /\ Leads(m, Unstarted(m), RunInt8Case[n], BackJudged)
<1> DEFINE V == Visible(m, FALSE, 3, 0, FALSE)
           start == Sure(<<"init">>)
<1>1. Leads(m, Unstarted(m), start, Opened(m, 0, 0))
  BY InitLeads
<1>2. ASSUME ~m.strict
      PROVE  Leads(m, Unstarted(m), RunFloat16Case[n], BackJudged)
  <2>1. Leads(m, Opened(m, 0, 0), Steps(<<"convert">>, unwound[0]), Opened(m, 0, 0))
    <3>1. <<"convert">> \in Seq(Asking)
      BY DEF Asking
    <3>2. Opened(m, 0, 0) \in SUBSET Alive(FALSE, 0)
      BY DEF Opened, Alive
    <3> QED BY <3>1, <3>2, AskingLeads, UnwoundIs
  <2>2. Leads(m, V, Steps(<<"check">>, unwound[3]), V)
    <3>1. V \in SUBSET CaseState /\ V \subseteq Alive(FALSE, 3)
      BY DEF Visible, Alive
    <3>2. CallTo(m, "check", V, V) /\ "check" \in Names
      BY <3>1, AskingCall DEF Asking
    <3>3. 3 \in 0..3
      OBVIOUS
    <3>4. unwound[3] \in Seq(Names) /\ \A s \in Alive(FALSE, 3) : Unwinds(m, unwound[3], s)
      BY <3>3, Undoing, UndoTyped
    <3> HIDE DEF V
    <3> QED BY <3>1, <3>2, <3>4, RiskyLast
  <2>3. Leads(m, V, Sure(<<"copy", "compare">> \o unwound[3]), BackJudged)
    <3>1. Judgable(m, FALSE, "compare")
      BY <1>2 DEF Judgable, Compares
    <3> QED BY <3>1, MatmulEnd
  <2> DEFINE ask == Steps(<<"convert">>, unwound[0])
             look == Steps(<<"check">>, unwound[3])
             ending == Sure(<<"copy", "compare">> \o unwound[3])
  <2>4. Float16Output = look \o ending
    BY DEF Float16Output
  <2>5. RunFloat16Case[n] = start \o ask \o MatmulMems \o Float16Output
    BY DEF RunFloat16Case, AnySize
  <2>6. Leads(m, Opened(m, 0, 0), ask, Opened(m, 0, 0)) /\ Leads(m, V, look, V)
        /\ Leads(m, V, ending, BackJudged)
    BY <2>1, <2>2, <2>3
  <2>7. Leads(m, Opened(m, 0, 0), MatmulMems, V)
    BY MatmulMemsLead
  <2> HIDE DEF ask, look, ending, V, start
  <2>8. Leads(m, V, Float16Output, BackJudged)
    BY <2>4, <2>6, LeadsJoin
  <2>9. Leads(m, Unstarted(m), start \o ask, Opened(m, 0, 0))
    BY <1>1, <2>6, LeadsJoin
  <2>10. Leads(m, Unstarted(m), start \o ask \o MatmulMems, V)
    BY <2>7, <2>9, LeadsJoin
  <2>11. Leads(m, Unstarted(m), start \o ask \o MatmulMems \o Float16Output, BackJudged)
    BY <2>8, <2>10, LeadsJoin
  <2> QED BY <2>5, <2>11
<1>3. ASSUME ~m.strict
      PROVE  Leads(m, Unstarted(m), RunFloat16Recreated[n], BackJudged)
  <2> DEFINE twice == Sure(<<"init", "destroy">>)
             d == <<"destroy">>
  <2>1. "init" \in Names /\ "destroy" \in Names \ MayFail /\ d \in Seq(Names)
        /\ <<"init">> \o d = <<"init", "destroy">> /\ <<"init">> \in Seq(Names)
    BY SureCalls, TupleTwo DEF Names, GiveBacks
  <2>2. Leads(m, Opened(m, 0, 0), Sure(d), Unstarted(m))
    <3>1. 0 \in 0..3 /\ 0 \in 0..Many /\ TRUE \in BOOLEAN /\ "compare" \in Compares
      BY ManyAssumption DEF Compares
    <3>2. CallTo(m, "destroy", Opened(m, 0, 0), Unstarted(m))
      BY <3>1, ClosingCalls
    <3>3. Opened(m, 0, 0) \in SUBSET CaseState /\ Unstarted(m) \in SUBSET CaseState
      BY DEF Opened, Unstarted
    <3> QED BY <2>1, <3>2, <3>3, SureLast
  <2> HIDE DEF d
  <2>3. twice = start \o Sure(d)
    BY <2>1, SureSplit
  <2>4. RunFloat16Recreated[n] = twice \o RunFloat16Case[n]
    BY DEF RunFloat16Recreated
  <2> HIDE DEF twice, start
  <2>5. Leads(m, Unstarted(m), twice, Unstarted(m))
    BY <1>1, <2>2, <2>3, LeadsJoin
  <2> QED BY <1>2, <1>3, <2>4, <2>5, LeadsJoin
<1>4. Leads(m, Unstarted(m), RunInt8Case[n], BackJudged)
  <2> DEFINE ending == Sure(<<"copy", "compare_finite">> \o unwound[3])
  <2>1. Leads(m, V, ending, BackJudged)
    <3>1. Judgable(m, FALSE, "compare_finite")
      BY DEF Judgable, Compares
    <3> QED BY <3>1, MatmulEnd
  <2>2. RunInt8Case[n] = start \o MatmulMems \o ending
    BY DEF RunInt8Case, AnySize
  <2>3. Leads(m, Opened(m, 0, 0), MatmulMems, V)
    BY MatmulMemsLead
  <2> HIDE DEF ending, V, start
  <2>4. Leads(m, Unstarted(m), start \o MatmulMems, V)
    BY <1>1, <2>3, LeadsJoin
  <2>5. Leads(m, Unstarted(m), start \o MatmulMems \o ending, BackJudged)
    BY <2>1, <2>4, LeadsJoin
  <2> QED BY <2>2, <2>5
<1> QED BY <1>2, <1>3, <1>4

-----------------------------------------------------------------------------
(* What a program must be for its cases to come out right: each script     *)
(* leads from nothing to everything given back, and past a comparison when *)
(* the exit status reports it.                                             *)
End(p) == IF p.exit = "status" THEN BackJudged ELSE Back

Fit(p, strict) ==
  /\ p.sizes \subseteq Totals /\ p.alone \in {"ok", "failed"}
  /\ \A m \in Modes : (m.strict => strict) => \A n \in p.sizes :
       /\ m.whole => Leads(m, Unstarted(m), p.whole[n], End(p))
       /\ p.pick.generic # "no" => Leads(m, Unstarted(m), p.scalar[n], End(p))

LEMMA EndIsWeaker ==
  ASSUME NEW m, NEW A, NEW script, NEW p, Leads(m, A, script, BackJudged)
  PROVE  Leads(m, A, script, End(p))
<1>1. BackJudged \subseteq End(p) /\ A \in SUBSET A
  BY DEF End, BackJudged
<1> QED BY <1>1, LeadsWeaker

LEMMA WhichTests ==
  /\ Tests(<<>>, FALSE) /\ Tests(<<"type">>, FALSE)
  /\ Tests(<<"finite">>, TRUE) /\ Tests(<<"type", "finite">>, TRUE)
  /\ Tests(<<"type", "size", "finite">>, TRUE)
<1>1. /\ <<>> \in Seq(Asking) /\ <<"type">> \in Seq(Asking) /\ <<"type", "size">> \in Seq(Asking)
  BY DEF Asking
<1>2. Tests(<<>>, FALSE) /\ Tests(<<"type">>, FALSE)
  BY <1>1 DEF Tests
<1>3. "finite" \in Names /\ "type" \in Names /\ "size" \in Names
  BY DEF Names
<1>4. Tests(<<"finite">>, TRUE)
  <2>1. <<"finite">> \in Seq(Names)
    BY <1>3
  <2>2. <<"finite">> = <<>> \o <<"finite">>
    BY <2>1, ConcatEmptySeq
  <2> QED BY <1>1, <2>2 DEF Tests
<1>5. Tests(<<"type", "finite">>, TRUE)
  <2>1. <<"type", "finite">> = <<"type">> \o <<"finite">>
    BY <1>3, TupleTwo
  <2> QED BY <1>1, <2>1 DEF Tests
<1>6. Tests(<<"type", "size", "finite">>, TRUE)
  <2>1. <<"type", "size", "finite">> = <<"type", "size">> \o <<"finite">>
    OBVIOUS
  <2> QED BY <1>1, <2>1 DEF Tests
<1> QED BY <1>2, <1>4, <1>5, <1>6

(* The copies of add.cpp.                                                  *)
LEMMA ElementwiseFit ==
  ASSUME NEW p, NEW strict \in BOOLEAN,
         p.sizes \subseteq Totals, p.alone \in {"ok", "failed"},
         NEW checks, NEW c \in BOOLEAN, Tests(checks, c),
         NEW compare \in Compares, strict => c \/ compare = "compare_finite",
         p.whole = RunWhole(checks, compare),
         p.pick.generic # "no" =>
           \E each : Tests(each, TRUE) /\ p.scalar = RunEach(each, compare)
  PROVE  Fit(p, strict)
<1> SUFFICES ASSUME NEW m \in Modes, m.strict => strict, NEW n \in p.sizes
             PROVE  /\ m.whole => Leads(m, Unstarted(m), p.whole[n], End(p))
                    /\ p.pick.generic # "no" => Leads(m, Unstarted(m), p.scalar[n], End(p))
  BY DEF Fit
<1>1. n \in Totals
  OBVIOUS
<1>2. Judgable(m, c, compare)
  BY DEF Judgable
<1>3. ASSUME m.whole
      PROVE  Leads(m, Unstarted(m), p.whole[n], End(p))
  BY <1>1, <1>2, <1>3, RunWholeLeads, EndIsWeaker
<1>4. ASSUME p.pick.generic # "no"
      PROVE  Leads(m, Unstarted(m), p.scalar[n], End(p))
  <2>1. PICK each : Tests(each, TRUE) /\ p.scalar = RunEach(each, compare)
    BY <1>4
  <2>2. Leads(m, Unstarted(m), RunEach(each, compare)[n], BackJudged)
    BY <1>1, <2>1, RunEachLeads
  <2> QED BY <2>1, <2>2, EndIsWeaker
<1> QED BY <1>3, <1>4

(* The copies of abs.cpp and relu.cpp.                                     *)
LEMMA UnaryFit ==
  ASSUME NEW p, NEW strict \in BOOLEAN,
         p.sizes \subseteq Totals, p.alone \in {"ok", "failed"}, p.pick.generic = "no",
         NEW opening, opening \in {Opening, Queried, FormatKnown, Filled},
         NEW checks \in Seq(Asking),
         NEW compare \in Compares, strict => compare = "compare_finite",
         p.whole = CompareHeld(opening, checks, compare)
  PROVE  Fit(p, strict)
<1> SUFFICES ASSUME NEW m \in Modes, m.strict => strict, NEW n \in p.sizes, m.whole
             PROVE  Leads(m, Unstarted(m), p.whole[n], End(p))
  BY DEF Fit
<1>1. n \in Totals
  OBVIOUS
<1>2. Judgable(m, FALSE, compare)
  BY DEF Judgable
<1>3. Leads(m, Unstarted(m), opening, Opened(m, 0, 0))
  BY OpeningLeads, OpeningsLead
<1> QED BY <1>1, <1>2, <1>3, CompareHeldLeads, EndIsWeaker

LEMMA ElementwiseProgramsFit ==
  /\ Fit(AddCpp, FALSE)
  /\ Fit(MinusCpp, FALSE)
  /\ Fit(CmpneCpp, FALSE)
  /\ Fit(CmpltCpp, FALSE)
  /\ Fit(WhereCpp, FALSE)
  /\ Fit(NegCpp, TRUE)
  /\ Fit(CastCpp, TRUE)
  /\ Fit(IdivCpp, TRUE)
<1>1. {Many} \subseteq Totals /\ "compare" \in Compares /\ "compare_finite" \in Compares
  BY DEF Totals, Compares
<1>2. Fit(AddCpp, FALSE)
  <2>1. /\ AddCpp.sizes \subseteq Totals /\ AddCpp.alone \in {"ok", "failed"}
        /\ AddCpp.whole = RunWhole(<<"type">>, "compare")
        /\ AddCpp.pick.generic = "no"
    BY <1>1 DEF AddCpp, Cases, ExactOnly, ExactOrGeneric
  <2> HIDE DEF AddCpp
  <2> QED BY <1>1, <2>1, WhichTests, ElementwiseFit
<1>3. Fit(MinusCpp, FALSE)
  <2>1. /\ MinusCpp.sizes \subseteq Totals /\ MinusCpp.alone \in {"ok", "failed"}
        /\ MinusCpp.whole = RunWhole(<<"type">>, "compare")
        /\ MinusCpp.pick.generic = "no"
    BY <1>1 DEF MinusCpp, AddCpp, Cases, ExactOnly, ExactOrGeneric
  <2> HIDE DEF MinusCpp
  <2> QED BY <1>1, <2>1, WhichTests, ElementwiseFit
<1>4. Fit(CmpneCpp, FALSE)
  <2>1. /\ CmpneCpp.sizes \subseteq Totals /\ CmpneCpp.alone \in {"ok", "failed"}
        /\ CmpneCpp.whole = RunWhole(<<>>, "compare")
        /\ CmpneCpp.pick.generic = "no"
    BY <1>1 DEF CmpneCpp, Cases, ExactOnly, ExactOrGeneric
  <2> HIDE DEF CmpneCpp
  <2> QED BY <1>1, <2>1, WhichTests, ElementwiseFit
<1>5. Fit(CmpltCpp, FALSE)
  <2>1. /\ CmpltCpp.sizes \subseteq Totals /\ CmpltCpp.alone \in {"ok", "failed"}
        /\ CmpltCpp.whole = RunWhole(<<>>, "compare")
        /\ CmpltCpp.pick.generic = "no"
    BY <1>1 DEF CmpltCpp, CmpneCpp, Cases, ExactOnly, ExactOrGeneric
  <2> HIDE DEF CmpltCpp
  <2> QED BY <1>1, <2>1, WhichTests, ElementwiseFit
<1>6. Fit(WhereCpp, FALSE)
  <2>1. /\ WhereCpp.sizes \subseteq Totals /\ WhereCpp.alone \in {"ok", "failed"}
        /\ WhereCpp.whole = RunWhole(<<"type">>, "compare")
        /\ WhereCpp.pick.generic = "no"
    BY <1>1 DEF WhereCpp, AddCpp, Cases, ExactOnly, ExactOrGeneric
  <2> HIDE DEF WhereCpp
  <2> QED BY <1>1, <2>1, WhichTests, ElementwiseFit
<1>7. Fit(NegCpp, TRUE)
  <2>1. /\ NegCpp.sizes \subseteq Totals /\ NegCpp.alone \in {"ok", "failed"}
        /\ NegCpp.whole = RunWhole(<<>>, "compare_finite")
        /\ NegCpp.pick.generic = "found"
        /\ NegCpp.scalar = RunEach(<<"finite">>, "compare_finite")
    BY <1>1 DEF NegCpp, Cases, ExactOnly, ExactOrGeneric
  <2> HIDE DEF NegCpp
  <2> QED BY <1>1, <2>1, WhichTests, ElementwiseFit
<1>8. Fit(CastCpp, TRUE)
  <2>1. /\ CastCpp.sizes \subseteq Totals /\ CastCpp.alone \in {"ok", "failed"}
        /\ CastCpp.whole = RunWhole(<<"type", "size", "finite">>, "compare")
        /\ CastCpp.pick.generic = "found"
        /\ CastCpp.scalar = RunEach(<<"type", "finite">>, "compare")
    BY <1>1 DEF CastCpp, Cases, ExactOnly, ExactOrGeneric
  <2> HIDE DEF CastCpp
  <2> QED BY <1>1, <2>1, WhichTests, ElementwiseFit
<1>9. Fit(IdivCpp, TRUE)
  <2>1. /\ IdivCpp.sizes \subseteq Totals /\ IdivCpp.alone \in {"ok", "failed"}
        /\ IdivCpp.whole = RunWhole(<<"type", "size", "finite">>, "compare")
        /\ IdivCpp.pick.generic = "no"
    BY <1>1 DEF IdivCpp, Cases, ExactOnly, ExactOrGeneric
  <2> HIDE DEF IdivCpp
  <2> QED BY <1>1, <2>1, WhichTests, ElementwiseFit
<1> QED BY <1>2, <1>3, <1>4, <1>5, <1>6, <1>7, <1>8, <1>9

LEMMA UnaryProgramsFit ==
  /\ Fit(AbsCpp, TRUE)
  /\ Fit(CeilCpp, TRUE)
  /\ Fit(FloorCpp, TRUE)
  /\ Fit(RecipCpp, TRUE)
  /\ Fit(DivCpp, TRUE)
  /\ Fit(TanhCpp, FALSE)
  /\ Fit(ReluCpp, FALSE)
  /\ Fit(ActivationCpp, FALSE)
<1>1. /\ {Many} \subseteq Totals /\ "compare" \in Compares /\ "compare_finite" \in Compares
      /\ <<>> \in Seq(Asking) /\ <<"size">> \in Seq(Asking)
  BY DEF Totals, Compares, Asking
<1>2. Fit(AbsCpp, TRUE)
  <2>1. /\ AbsCpp.sizes \subseteq Totals /\ AbsCpp.alone \in {"ok", "failed"}
        /\ AbsCpp.whole = CompareHeld(Queried, <<>>, "compare_finite")
        /\ AbsCpp.pick.generic = "no"
    BY <1>1 DEF AbsCpp, Unary, Cases, ExactOnly, ExactOrOne
  <2> HIDE DEF AbsCpp
  <2> QED BY <1>1, <2>1, UnaryFit
<1>3. Fit(CeilCpp, TRUE)
  <2>1. /\ CeilCpp.sizes \subseteq Totals /\ CeilCpp.alone \in {"ok", "failed"}
        /\ CeilCpp.whole = CompareHeld(Queried, <<>>, "compare_finite")
        /\ CeilCpp.pick.generic = "no"
    BY <1>1 DEF CeilCpp, Unary, Cases, ExactOnly, ExactOrOne
  <2> HIDE DEF CeilCpp
  <2> QED BY <1>1, <2>1, UnaryFit
<1>4. Fit(FloorCpp, TRUE)
  <2>1. /\ FloorCpp.sizes \subseteq Totals /\ FloorCpp.alone \in {"ok", "failed"}
        /\ FloorCpp.whole = CompareHeld(Queried, <<>>, "compare_finite")
        /\ FloorCpp.pick.generic = "no"
    BY <1>1 DEF FloorCpp, Unary, Cases, ExactOnly, ExactOrOne
  <2> HIDE DEF FloorCpp
  <2> QED BY <1>1, <2>1, UnaryFit
<1>5. Fit(RecipCpp, TRUE)
  <2>1. /\ RecipCpp.sizes \subseteq Totals /\ RecipCpp.alone \in {"ok", "failed"}
        /\ RecipCpp.whole = CompareHeld(FormatKnown, <<>>, "compare_finite")
        /\ RecipCpp.pick.generic = "no"
    BY <1>1 DEF RecipCpp, Unary, FormatKnown, Cases, ExactOnly, ExactOrOne
  <2> HIDE DEF RecipCpp
  <2> QED BY <1>1, <2>1, UnaryFit
<1>6. Fit(DivCpp, TRUE)
  <2>1. /\ DivCpp.sizes \subseteq Totals /\ DivCpp.alone \in {"ok", "failed"}
        /\ DivCpp.whole = CompareHeld(Opening, <<>>, "compare_finite")
        /\ DivCpp.pick.generic = "no"
    BY <1>1 DEF DivCpp, Unary, Cases, ExactOnly, ExactOrOne
  <2> HIDE DEF DivCpp
  <2> QED BY <1>1, <2>1, UnaryFit
<1>7. Fit(TanhCpp, FALSE)
  <2>1. /\ TanhCpp.sizes \subseteq Totals /\ TanhCpp.alone \in {"ok", "failed"}
        /\ TanhCpp.whole = CompareHeld(FormatKnown, <<"size">>, "compare")
        /\ TanhCpp.pick.generic = "no"
    BY <1>1 DEF TanhCpp, Unary, FormatKnown, Cases, ExactOnly, ExactOrOne
  <2> HIDE DEF TanhCpp
  <2> QED BY <1>1, <2>1, UnaryFit
<1>8. Fit(ReluCpp, FALSE)
  <2>1. /\ ReluCpp.sizes \subseteq Totals /\ ReluCpp.alone \in {"ok", "failed"}
        /\ ReluCpp.whole = CompareHeld(Filled, <<>>, "compare")
        /\ ReluCpp.pick.generic = "no"
    BY <1>1 DEF ReluCpp, Printed, Cases, ExactOnly, ExactOrOne
  <2> HIDE DEF ReluCpp
  <2> QED BY <1>1, <2>1, UnaryFit
<1>9. Fit(ActivationCpp, FALSE)
  <2>1. /\ ActivationCpp.sizes \subseteq Totals /\ ActivationCpp.alone \in {"ok", "failed"}
        /\ ActivationCpp.whole = CompareHeld(Filled, <<>>, "compare")
        /\ ActivationCpp.pick.generic = "no"
    BY <1>1 DEF ActivationCpp, ReluCpp, Printed, Cases, ExactOnly, ExactOrOne
  <2> HIDE DEF ActivationCpp
  <2> QED BY <1>1, <2>1, UnaryFit
<1> QED BY <1>2, <1>3, <1>4, <1>5, <1>6, <1>7, <1>8, <1>9

LEMMA AddIntFits ==
  /\ Fit(AddIntCpp, FALSE) /\ Fit(ShiftCpp, FALSE)
<1>1. {Many} \subseteq Totals /\ "compare" \in Compares
  BY DEF Totals, Compares
<1>2. ASSUME NEW p \in {AddIntCpp, ShiftCpp}
      PROVE  /\ p.sizes \subseteq Totals /\ p.alone \in {"ok", "failed"}
             /\ p.whole = AddIntCpp.whole
             /\ p.scalar = RunEach(<<"type", "finite">>, "compare")
  BY DEF AddIntCpp, ShiftCpp, ShiftCase, Cases
<1>3. ASSUME NEW p \in {AddIntCpp, ShiftCpp}
      PROVE  Fit(p, FALSE)
  <2>1. /\ p.sizes \subseteq Totals /\ p.alone \in {"ok", "failed"}
        /\ p.whole = AddIntCpp.whole
        /\ p.scalar = RunEach(<<"type", "finite">>, "compare")
    BY <1>2
  <2> SUFFICES ASSUME NEW m \in Modes, ~m.strict, NEW n \in p.sizes
               PROVE  /\ m.whole => Leads(m, Unstarted(m), p.whole[n], End(p))
                      /\ Leads(m, Unstarted(m), p.scalar[n], End(p))
    BY <2>1 DEF Fit
  <2>2. n \in Totals
    BY <2>1
  <2>3. ASSUME m.whole PROVE Leads(m, Unstarted(m), p.whole[n], End(p))
    <3>1. Leads(m, Unstarted(m), AddIntCpp.whole[n], BackJudged)
      BY <2>2, <2>3, AddIntLeads
    <3> QED BY <2>1, <3>1, EndIsWeaker
  <2>4. Leads(m, Unstarted(m), p.scalar[n], End(p))
    <3>1. Leads(m, Unstarted(m), RunEach(<<"type", "finite">>, "compare")[n], BackJudged)
      BY <1>1, <2>2, WhichTests, RunEachLeads
    <3> QED BY <2>1, <3>1, EndIsWeaker
  <2> QED BY <2>3, <2>4
<1> QED BY <1>3

LEMMA OpsInt32Fits ==
  Fit(OpsInt32Cpp, FALSE)
<1> DEFINE p == OpsInt32Cpp
<1>1. /\ p.sizes \subseteq Totals /\ p.alone \in {"ok", "failed"} /\ p.exit = "zero"
      /\ p.scalar = p.whole
  BY DEF OpsInt32Cpp, Printed, Cases
<1>2. ASSUME NEW m \in Modes, ~m.strict, NEW n \in Totals
      PROVE  Leads(m, Unstarted(m), p.whole[n], Back)
  BY <1>2, OpsInt32Leads
<1> HIDE DEF p
<1>3. Fit(p, FALSE)
  BY <1>1, <1>2 DEF Fit, End
<1> QED BY <1>3 DEF p

(* The programs with weights.                                              *)
LEMMA WholeFits ==
  ASSUME NEW p, NEW strict \in BOOLEAN,
         p.sizes \subseteq Totals, p.alone \in {"ok", "failed"}, p.pick.generic = "no",
         \A m \in Modes : m.whole /\ (m.strict => strict) =>
           \A n \in Totals : Leads(m, Unstarted(m), p.whole[n], BackJudged)
  PROVE  Fit(p, strict)
<1> SUFFICES ASSUME NEW m \in Modes, m.strict => strict, NEW n \in p.sizes, m.whole
             PROVE  Leads(m, Unstarted(m), p.whole[n], End(p))
  BY DEF Fit
<1> QED BY EndIsWeaker

LEMMA WeightedProgramsFit ==
  /\ Fit(Conv2dMultiCpp, FALSE) /\ Fit(MatmulMultiCpp, FALSE) /\ Fit(PoolCpp, FALSE)
  /\ Fit(Conv1dSimpleCpp, FALSE) /\ Fit(MatmulApiCpp, FALSE) /\ Fit(MatmulApiRecreatedCpp, FALSE)
  /\ Fit(MatmulApiInt8Cpp, TRUE)
<1>1. {Many} \subseteq Totals
  BY DEF Totals
<1>2. Fit(Conv2dMultiCpp, FALSE)
  <2>1. /\ Conv2dMultiCpp.sizes \subseteq Totals /\ Conv2dMultiCpp.alone \in {"ok", "failed"}
        /\ Conv2dMultiCpp.pick.generic = "no"
    BY <1>1 DEF Conv2dMultiCpp, Listed, Cases, Named
  <2>2. \A m \in Modes : m.whole /\ (m.strict => FALSE) =>
          \A n \in Totals : Leads(m, Unstarted(m), Conv2dMultiCpp.whole[n], BackJudged)
    BY MultiLeads
  <2> HIDE DEF Conv2dMultiCpp
  <2> QED BY <2>1, <2>2, WholeFits
<1>3. Fit(MatmulMultiCpp, FALSE)
  <2>1. /\ MatmulMultiCpp.sizes \subseteq Totals /\ MatmulMultiCpp.alone \in {"ok", "failed"}
        /\ MatmulMultiCpp.pick.generic = "no"
    BY <1>1 DEF MatmulMultiCpp, Listed, Cases, Named
  <2>2. \A m \in Modes : m.whole /\ (m.strict => FALSE) =>
          \A n \in Totals : Leads(m, Unstarted(m), MatmulMultiCpp.whole[n], BackJudged)
    BY MultiLeads
  <2> HIDE DEF MatmulMultiCpp
  <2> QED BY <2>1, <2>2, WholeFits
<1>4. Fit(PoolCpp, FALSE)
  <2>1. /\ PoolCpp.sizes \subseteq Totals /\ PoolCpp.alone \in {"ok", "failed"}
        /\ PoolCpp.pick.generic = "no"
    BY <1>1 DEF PoolCpp, Listed, Cases, Named
  <2>2. \A m \in Modes : m.whole /\ (m.strict => FALSE) =>
          \A n \in Totals : Leads(m, Unstarted(m), PoolCpp.whole[n], BackJudged)
    BY MultiLeads
  <2> HIDE DEF PoolCpp
  <2> QED BY <2>1, <2>2, WholeFits
<1>5. Fit(Conv1dSimpleCpp, FALSE)
  <2>1. /\ Conv1dSimpleCpp.sizes \subseteq Totals /\ Conv1dSimpleCpp.alone \in {"ok", "failed"}
        /\ Conv1dSimpleCpp.pick.generic = "no"
    BY <1>1 DEF Conv1dSimpleCpp, Printed, Cases, Named
  <2>2. \A m \in Modes : m.whole /\ (m.strict => FALSE) =>
          \A n \in Totals : Leads(m, Unstarted(m), Conv1dSimpleCpp.whole[n], BackJudged)
    BY Conv1dLeads
  <2> HIDE DEF Conv1dSimpleCpp
  <2> QED BY <2>1, <2>2, WholeFits
<1>6. Fit(MatmulApiCpp, FALSE)
  <2>1. /\ MatmulApiCpp.sizes \subseteq Totals /\ MatmulApiCpp.alone \in {"ok", "failed"}
        /\ MatmulApiCpp.pick.generic = "no"
        /\ MatmulApiCpp.whole = RunFloat16Case
    BY <1>1 DEF MatmulApiCpp, Listed, Cases, Named
  <2>2. \A m \in Modes : m.whole /\ (m.strict => FALSE) =>
          \A n \in Totals : Leads(m, Unstarted(m), MatmulApiCpp.whole[n], BackJudged)
    BY <2>1, MatmulLeads
  <2> HIDE DEF MatmulApiCpp
  <2> QED BY <2>1, <2>2, WholeFits
<1>7. Fit(MatmulApiRecreatedCpp, FALSE)
  <2>1. /\ MatmulApiRecreatedCpp.sizes \subseteq Totals /\ MatmulApiRecreatedCpp.alone \in {"ok", "failed"}
        /\ MatmulApiRecreatedCpp.pick.generic = "no"
        /\ MatmulApiRecreatedCpp.whole = RunFloat16Recreated
    BY <1>1 DEF MatmulApiRecreatedCpp, Listed, Cases, Named
  <2>2. \A m \in Modes : m.whole /\ (m.strict => FALSE) =>
          \A n \in Totals : Leads(m, Unstarted(m), MatmulApiRecreatedCpp.whole[n], BackJudged)
    BY <2>1, MatmulLeads
  <2> HIDE DEF MatmulApiRecreatedCpp
  <2> QED BY <2>1, <2>2, WholeFits
<1>8. Fit(MatmulApiInt8Cpp, TRUE)
  <2>1. /\ MatmulApiInt8Cpp.sizes \subseteq Totals /\ MatmulApiInt8Cpp.alone \in {"ok", "failed"}
        /\ MatmulApiInt8Cpp.pick.generic = "no"
        /\ MatmulApiInt8Cpp.whole = RunInt8Case
    BY <1>1 DEF MatmulApiInt8Cpp, Listed, Cases, Named
  <2>2. \A m \in Modes : m.whole /\ (m.strict => TRUE) =>
          \A n \in Totals : Leads(m, Unstarted(m), MatmulApiInt8Cpp.whole[n], BackJudged)
    BY <2>1, MatmulLeads
  <2> HIDE DEF MatmulApiInt8Cpp
  <2> QED BY <2>1, <2>2, WholeFits
<1> QED BY <1>2, <1>3, <1>4, <1>5, <1>6, <1>7, <1>8

(* Each of the programs but those of Leaky and Overreading, for cases of   *)
(* any size: whichever call fails, the failing branch gives everything     *)
(* back; if none does, every call is allowed, reads stay inside the output *)
(* and the case ends with everything given back, past a comparison where   *)
(* the exit status tells how it ended.                                     *)
THEOREM ProgramsFit ==
  ASSUME NEW who \in Tidy
  PROVE  Fit(Program[who], who \in Finite)
<1>1. who \in
        {"add", "max", "min", "minus", "cmpne", "cmplt", "where", "neg", "add_int", "shift",
         "cast", "idiv", "abs", "ceil", "floor", "recip", "div", "tanh", "swiglu", "relu",
         "sigmoid", "silu", "activation", "ops_int32", "ops_int8", "conv2d_multi",
         "matmul_multi", "pool", "conv1d_simple", "matmul_api", "matmul_api_recreated",
         "matmul_api_int8"}
  BY DEF Tidy, Program, Leaky, Overreading
<1>2. /\ Program["add"] = AddCpp
      /\ Program["max"] = MaxCpp
      /\ Program["min"] = MinCpp
      /\ Program["minus"] = MinusCpp
      /\ Program["cmpne"] = CmpneCpp
      /\ Program["cmplt"] = CmpltCpp
      /\ Program["where"] = WhereCpp
      /\ Program["neg"] = NegCpp
      /\ Program["add_int"] = AddIntCpp
      /\ Program["shift"] = ShiftCpp
      /\ Program["cast"] = CastCpp
      /\ Program["idiv"] = IdivCpp
      /\ Program["abs"] = AbsCpp
      /\ Program["ceil"] = CeilCpp
      /\ Program["floor"] = FloorCpp
      /\ Program["recip"] = RecipCpp
      /\ Program["div"] = DivCpp
      /\ Program["tanh"] = TanhCpp
      /\ Program["swiglu"] = SwigluCpp
      /\ Program["relu"] = ReluCpp
      /\ Program["sigmoid"] = SigmoidCpp
      /\ Program["silu"] = SiluCpp
      /\ Program["activation"] = ActivationCpp
      /\ Program["ops_int32"] = OpsInt32Cpp
      /\ Program["ops_int8"] = OpsInt8Cpp
      /\ Program["conv2d_multi"] = Conv2dMultiCpp
      /\ Program["matmul_multi"] = MatmulMultiCpp
      /\ Program["pool"] = PoolCpp
      /\ Program["conv1d_simple"] = Conv1dSimpleCpp
      /\ Program["matmul_api"] = MatmulApiCpp
      /\ Program["matmul_api_recreated"] = MatmulApiRecreatedCpp
      /\ Program["matmul_api_int8"] = MatmulApiInt8Cpp
  BY DEF Program
<1>3. /\ MaxCpp = AddCpp
      /\ MinCpp = AddCpp
      /\ SwigluCpp = TanhCpp
      /\ SigmoidCpp = ReluCpp
      /\ SiluCpp = ReluCpp
      /\ OpsInt8Cpp = OpsInt32Cpp
  BY DEF MaxCpp, MinCpp, SwigluCpp, SigmoidCpp, SiluCpp, OpsInt8Cpp
<1>4. who \in Finite <=> who \in {"neg", "cast", "idiv", "abs", "ceil", "floor", "recip", "div",
                                   "matmul_api_int8"}
  BY DEF Finite
<1>5. CASE who \in {"add", "max", "min", "minus", "cmpne", "cmplt", "where"}
  <2>1. (who \in Finite) = FALSE
    BY <1>4, <1>5
  <2> QED BY <1>2, <1>3, <1>5, <2>1, ElementwiseProgramsFit
<1>6. CASE who \in {"neg", "cast", "idiv"}
  <2>1. (who \in Finite) = TRUE
    BY <1>4, <1>6
  <2> QED BY <1>2, <1>3, <1>6, <2>1, ElementwiseProgramsFit
<1>7. CASE who \in {"add_int", "shift"}
  <2>1. (who \in Finite) = FALSE
    BY <1>4, <1>7
  <2> QED BY <1>2, <1>3, <1>7, <2>1, AddIntFits
<1>8. CASE who \in {"tanh", "swiglu", "relu", "sigmoid", "silu", "activation"}
  <2>1. (who \in Finite) = FALSE
    BY <1>4, <1>8
  <2> QED BY <1>2, <1>3, <1>8, <2>1, UnaryProgramsFit
<1>9. CASE who \in {"abs", "ceil", "floor", "recip", "div"}
  <2>1. (who \in Finite) = TRUE
    BY <1>4, <1>9
  <2> QED BY <1>2, <1>3, <1>9, <2>1, UnaryProgramsFit
<1>10. CASE who \in {"ops_int32", "ops_int8"}
  <2>1. (who \in Finite) = FALSE
    BY <1>4, <1>10
  <2> QED BY <1>2, <1>3, <1>10, <2>1, OpsInt32Fits
<1>11. CASE who \in {"conv2d_multi", "matmul_multi", "pool", "conv1d_simple", "matmul_api",
                    "matmul_api_recreated"}
  <2>1. (who \in Finite) = FALSE
    BY <1>4, <1>11
  <2> QED BY <1>2, <1>3, <1>11, <2>1, WeightedProgramsFit
<1>12. CASE who \in {"matmul_api_int8"}
  <2>1. (who \in Finite) = TRUE
    BY <1>4, <1>12
  <2> QED BY <1>2, <1>3, <1>12, <2>1, WeightedProgramsFit
<1> QED BY <1>1, <1>5, <1>6, <1>7, <1>8, <1>9, <1>10, <1>11, <1>12
=============================================================================
