-------------------------- MODULE MCRuleFunctions --------------------------
(***************************************************************************)
(* Small rules.conf files for RuleFunctions.  x and y are inputs, vv is a  *)
(* variable, o and p are outputs.                                          *)
(***************************************************************************)
EXTENDS RuleFunctions, TLC

CONSTANTS x, y, vv, o, p

True == Lit(1)

\* Rules for changes; one is reached early, by the pass of the variable it uses.
MCChanges == [
    rules |-> <<
        <<Entry(Ref(x), vv, Ref(y)), Entry(True, vv, Lit(0))>>,
        <<Entry(Changed(2, y), p, Ref(vv)), Entry(Flag(x), p, Ref(y))>>,
        Trigger(Changed(1, x), <<Set(o, Ref(vv)), Set(vv, Lit(1))>>)>>,
    vars |-> (vv :> Lit(0))]

\* A variable that is assigned an EVAL again and again.
MCFreeze == [
    rules |-> <<
        <<Entry(Ref(vv), o, Ref(vv)), Entry(True, o, Lit(0))>>,
        Trigger(Ref(x), <<Set(vv, Eval(1, x))>>),
        Trigger(Ref(y), <<Set(vv, Eval(2, x)), Set(vv, Lit(0))>>)>>,
    vars |-> (vv :> Lit(0))]

\* EVAL in a declaration, used where the block does not always look, and by two blocks.
MCBoot == [
    rules |-> <<
        <<Entry(Ref(y), o, Lit(0)), Entry(True, o, Ref(vv))>>,
        <<Entry(Ref(vv), p, Lit(1)), Entry(True, p, Lit(0))>>>>,
    vars |-> (vv :> Eval(1, x))]

\* EVAL and FLAG in conditions and values.
MCDirect == [
    rules |-> <<
        <<Entry(Flag(x), o, Eval(1, x)), Entry(True, o, Eval(2, y))>>,
        <<Entry(Eval(3, y), p, Ref(x)), Entry(True, p, Lit(0))>>>>,
    vars |-> (vv :> Lit(0))]

MCConfs == {MCChanges, MCFreeze, MCBoot, MCDirect}
=============================================================================
