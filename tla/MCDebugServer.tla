---------------------------- MODULE MCDebugServer ----------------------------
(***************************************************************************)
(* A small instance of DebugServer for TLC: one peer with one point.       *)
(***************************************************************************)
EXTENDS DebugServer, TLC

CONSTANTS n1, p1, d1, d2, v2

OwnerOfPoint == [p \in {p1} |-> n1]

Sets(kind) == [do |-> "add", kind |-> kind, id |-> p1]

\* Two debuggers add points until the counter comes round; one removes any point.
Handing ==
    [uses |-> (d1 :> {Sets("breakpoint")})
           @@ (d2 :> {Sets("watchpoint")}
                     \cup [do : {"remove"}, kind : Kinds, handle : 0 .. HandleMod - 1]),
     adds |-> HandleMod,
     news |-> 0]

\* One sets a point and may let the Core go on, the other looks on and sets values.
Watching ==
    [uses |-> (d1 :> {Sets("watchpoint")})
           @@ (d2 :> {[do |-> "peers"], [do |-> "points"]}
                     \cup [do : {"set"}, id : {p1}, to : {v2}]),
     adds |-> 1,
     news |-> 1]

AllSessions == {Handing, Watching}
=============================================================================
