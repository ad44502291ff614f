------------------------------- MODULE Halves -------------------------------
(***************************************************************************)
(* The powers of two that a half-precision number is made of and rounded   *)
(* with, as a recursive function.                                          *)
(***************************************************************************)
EXTENDS Integers

TwoTo(e) ==
    LET power[n \in 0 .. e] == IF n = 0 THEN 1 ELSE 2 * power[n - 1]
    IN  power[e]
=============================================================================
