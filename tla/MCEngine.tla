------------------------------ MODULE MCEngine ------------------------------
(***************************************************************************)
(* Small rules.conf files for Engine.  x is an input, v and w are          *)
(* variables, o is an output.                                              *)
(***************************************************************************)
EXTENDS Engine, TLC

CONSTANTS x, v, w, o

True == Lit(1)

\* The output follows an input by way of a variable; a trigger sees the variable too.
MCChain == <<
    Label(v, <<Entry(Lit(1), Is(x, 1)), Entry(Lit(0), True)>>),
    Label(o, <<Entry(Ref(v), True)>>),
    Trigger(Is(v, 1), <<Set(w, Lit(1))>>)>>

\* A block and a trigger that disagree on v; o follows the input at once.
MCRivals == <<
    Label(o, <<Entry(Ref(x), True)>>),
    Label(v, <<Entry(Lit(1), Ref(x)), Entry(Lit(0), True)>>),
    Trigger(Ref(x), <<Set(v, Lit(0)), Set(w, Ref(x))>>)>>

\* A block whose condition a later block changes, inside the pass that set it.
MCLatch == <<
    Label(v, <<Entry(Lit(1), Is(w, 1)), Entry(Lit(0), True)>>),
    Label(w, <<Entry(Lit(1), Is(x, 1)), Entry(Lit(1), Is(v, 1)), Entry(Lit(0), True)>>),
    Label(o, <<Entry(Ref(w), Is(v, 1)), Entry(Lit(0), True)>>)>>

\* Variables that come to refer to one another.
MCCircle == <<
    Label(v, <<Entry(Ref(w), Is(x, 1))>>),
    Trigger(Ref(x), <<Set(w, Plus(v, 1))>>)>>

\* Two blocks that undo one another for ever.
MCSeesaw == <<
    Label(v, <<Entry(Lit(1), Is(w, 0)), Entry(Lit(0), True)>>),
    Label(w, <<Entry(Lit(1), Is(v, 1)), Entry(Lit(0), True)>>)>>

\* The output follows an input through the name a variable gives to a condition.
MCAlias == <<
    Label(o, <<Entry(Lit(1), Ref(v)), Entry(Lit(0), True)>>)>>

\* Variables declared in a circle.
MCLoop == <<
    Label(o, <<Entry(Ref(v), Is(x, 1))>>)>>

Declaring(expr, files) == {[rules |-> f, vars |-> expr] : f \in files}

Zero == [i \in Vars |-> Lit(0)]
Alias == (v :> Is(x, 1)) @@ (w :> Lit(0))
Circle == (v :> Ref(w)) @@ (w :> Ref(v))

MCConfs ==
    Declaring(Zero, {MCChain, MCRivals, MCLatch, MCCircle, MCSeesaw})
        \cup Declaring(Alias, {MCAlias}) \cup Declaring(Circle, {MCLoop})
=============================================================================
