----------------------------- MODULE MinmaxBin -----------------------------
(***************************************************************************)
(* test_minmax_bin looks for the form in which algorithms 56 and 57 leave  *)
(* a comparison: each of its cases reads the output in ten ways and is     *)
(* content with any one that shows what the CPU expects. Operands are in   *)
(* quarters; RegCmd has the check of the register commands that goes       *)
(* before.                                                                 *)
(***************************************************************************)
EXTENDS Integers, Sequences, FiniteSets, Halves

CONSTANTS
    Sizes,      \* elements of a case
    Kinds,      \* words a device may write for "yes": in which of the
                \* formats that look at a slot they show, and their bits
    Precision   \* significant bits of a half: 11

(* From element 2^Precision + 3 on, or with a single bit, two operands half *)
(* a unit apart may round to the same half.                                *)
MinmaxAssumption ==
    /\ Precision \in Nat \ {0, 1}
    /\ Sizes \subseteq 4 .. TwoTo(Precision) + 3
    /\ \A v \in Kinds : "slot_any" \in v.shows /\ v.bits \subseteq 0 .. 127

VARIABLES
    size,
    device,    \* what is on the other side: "right", "deaf" or "failing"
    kind,      \* the word it writes for yes
    fixed,     \* the elements a deaf device says yes to, whatever they are
    todo,      \* the cases left
    verdicts,  \* what each case returned
    status

vars == <<size, device, kind, fixed, todo, verdicts, status>>

Elements == 0 .. size - 1

SlotFormats == {"fp16_pos", "fp16_nz", "fp32_pos", "fp32_nz", "u8_slot",
                "u16_slot", "u32_slot", "slot_any"}

Formats == SlotFormats \cup {"bitpack_lsb", "bitpack_msb"}

Case(is_min, mode) == [is_min |-> is_min, mode |-> mode]

test_minmax_bin ==
    <<Case(FALSE, "pattern"), Case(TRUE, "pattern"),
      Case(FALSE, "equal"), Case(TRUE, "equal"),
      Case(FALSE, "unequal"), Case(TRUE, "unequal")>>

----------------------------------------------------------------------------
(* The operands before they are rounded, from which the CPU's answer is.   *)
A(c, i) == i

B(c, i) ==
    CASE c.mode = "equal" -> i
      [] c.mode = "unequal" -> IF i % 2 = 0 THEN i + 2 ELSE i - 2
      [] OTHER -> IF i % 4 = 0 THEN i ELSE IF i % 2 = 0 THEN i - 2 ELSE i + 2

Yes(c, x, y) == IF c.is_min THEN x <= y ELSE x >= y

expected(c) == {i \in Elements : Yes(c, A(c, i), B(c, i))}

(* (__fp16): to the nearest of Precision bits, a tie to the even one.      *)
Rounded(m) ==
    LET e == CHOOSE e \in 0 .. m : m < TwoTo(e + Precision)
                                   /\ (e = 0 \/ m >= TwoTo(e - 1 + Precision))
        q == TwoTo(e)
        down == m \div q
        up == \/ 2 * (m % q) > q
              \/ 2 * (m % q) = q /\ down % 2 = 1
    IN  q * (down + IF up THEN 1 ELSE 0)

half(x) == IF x < 0 THEN -Rounded(-x) ELSE Rounded(x)

(* The slots a device writes its word to; the others are zero.             *)
Written(c) ==
    IF device = "deaf" THEN fixed
    ELSE {i \in Elements : Yes(c, half(A(c, i)), half(B(c, i)))}

(* How a format reads element i. The packed bits of up to 128 elements are *)
(* those of slot 0.                                                        *)
Shows(format, slots, i) ==
    CASE format = "bitpack_lsb" -> 0 \in slots /\ i \in kind.bits
      [] format = "bitpack_msb" ->
            0 \in slots /\ (8 * (i \div 8)) + 7 - (i % 8) \in kind.bits
      [] OTHER -> i \in slots /\ format \in kind.shows

mismatches(format, c) ==
    Cardinality({i \in Elements :
        Shows(format, Written(c), i) # (i \in expected(c))})

\* Mutant: the last case decides.
LastVerdict(ok) == IF ok THEN 0 ELSE -1

StatusAfter(ok) == IF ok THEN status ELSE -1

----------------------------------------------------------------------------
(* The check before the cases may have failed.                             *)
Init ==
    /\ size \in Sizes /\ kind \in Kinds
    /\ device \in {"right", "deaf", "failing"}
    /\ fixed \in IF device = "deaf" THEN SUBSET Elements ELSE {{}}
    /\ todo = test_minmax_bin /\ verdicts = <<>>
    /\ status \in {0, -1}

Closed(ok) ==
    /\ verdicts' = Append(verdicts, ok)
    /\ status' = StatusAfter(ok)
    /\ todo' = Tail(todo)
    /\ UNCHANGED <<size, device, kind, fixed>>

run_minmax_bin_case ==
    /\ todo # <<>> /\ device # "failing"
    /\ Closed(\E format \in Formats : mismatches(format, Head(todo)) = 0)

(* A buffer of the case, or the op itself, is not to be had.               *)
CaseFails ==
    /\ todo # <<>> /\ device = "failing"
    /\ Closed(FALSE)

Next == run_minmax_bin_case \/ CaseFails

Spec == Init /\ [][Next]_vars

Done == todo = <<>>

----------------------------------------------------------------------------
(* A case returns once.                                                    *)
TypeOK ==
    /\ size \in Sizes /\ kind \in Kinds /\ fixed \subseteq Elements
    /\ Len(todo) + Len(verdicts) = Len(test_minmax_bin)
    /\ status \in {0, -1}
    /\ \A n \in DOMAIN verdicts : verdicts[n] \in BOOLEAN

(* A device that compares what it is given, the rounded operands, has      *)
(* every case say yes, whatever it writes for a yes.                       *)
RightIsAccepted ==
    device = "right" => \A n \in DOMAIN verdicts : verdicts[n]

(* The six cases together are not content with an output that does not     *)
(* depend on the operands, though single ones are and each may settle for  *)
(* another format.                                                         *)
DeafIsCaught ==
    Done /\ device = "deaf" => \E n \in DOMAIN verdicts : ~verdicts[n]

(* A failed case is not forgotten.                                         *)
FailureIsKept ==
    (\E n \in DOMAIN verdicts : ~verdicts[n]) => status = -1
=============================================================================
