------------------------------- MODULE IoPoint -------------------------------
(***************************************************************************)
(* The setters of STInput and STOutput (lib/input.c and lib/output.c, which *)
(* are the same code).  A point is a record; a setter returns the point it *)
(* leaves behind, which is the point itself when the code returns an error.*)
(* The code emits "changed" exactly when a setter leaves another point.    *)
(*                                                                         *)
(* Values are multiples of a common unit, so integers: rounding is exact   *)
(* and nearly_equal is equality.  Steps are positive.  Name, description   *)
(* and unit are left out: nothing depends on them and no setter checks     *)
(* them.                                                                   *)
(***************************************************************************)
EXTENDS Integers

IoPoints(bounds, steps, flags) ==
    [min : bounds, max : bounds, step : steps, val : bounds, flags : SUBSET flags]

\* round (value / step) * step: to the nearest multiple, halves away from zero.
RoundToStep(value, step) ==
    IF value >= 0 THEN ((2 * value + step) \div (2 * step)) * step
                  ELSE -(((step - 2 * value) \div (2 * step)) * step)

SetMin(p, min) ==
    LET snapped == RoundToStep(min, p.step)
    IN  IF snapped <= p.val THEN [p EXCEPT !.min = snapped] ELSE p

\* Mutant: the maximum is not checked against the value.
SetMaxUnchecked(p, max) == [p EXCEPT !.max = RoundToStep(max, p.step)]

SetMax(p, max) ==
    LET snapped == RoundToStep(max, p.step)
    IN  IF snapped >= p.val THEN [p EXCEPT !.max = snapped] ELSE p

\* A change of step rounds all three to the new step.
SetStep(p, step) ==
    LET min == RoundToStep(p.min, step)
        max == RoundToStep(p.max, step)
        val == RoundToStep(p.val, step)
    IN  IF step # 0 /\ min <= val /\ val <= max
        THEN [p EXCEPT !.min = min, !.max = max, !.val = val, !.step = step]
        ELSE p

AcceptsVal(p, val) ==
    LET snapped == RoundToStep(val, p.step) IN p.min <= snapped /\ snapped <= p.max

SetVal(p, val) ==
    IF AcceptsVal(p, val) THEN [p EXCEPT !.val = RoundToStep(val, p.step)] ELSE p

SetFlags(p, flags) == [p EXCEPT !.flags = flags]

\* What st_input_new and st_output_new assert of a point, and that all of it is
\* on the point's step.
WellFormed(p) ==
    /\ p.min <= p.val
    /\ p.val <= p.max
    /\ \A v \in {p.min, p.val, p.max} : v % p.step = 0
=============================================================================
