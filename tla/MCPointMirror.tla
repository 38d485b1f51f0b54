---------------------------- MODULE MCPointMirror ----------------------------
(***************************************************************************)
(* Small instances of PointMirror for TLC.                                 *)
(***************************************************************************)
EXTENDS PointMirror

\* The service starts with the widest range and the finest step.
MCInitialPoints ==
    {p \in IoPoints(Values, {1}, {}) : \A v \in Values : p.min <= v /\ v <= p.max}
=============================================================================
