------------------------------- MODULE Engine -------------------------------
(***************************************************************************)
(* The rule engine of the Core (engine.c, var.c, the references of expr.c) *)
(* with what sets it off: changes of mirrored points and of variables      *)
(* (main.c), peers that become ready, and the debugger, which can stop it  *)
(* (debug-server.c).                                                       *)
(*                                                                         *)
(* A pass walks the label blocks and then the triggers, and applies those  *)
(* that refer to the id that changed; without an id, all of them.  Setting *)
(* a variable changes it, which makes a pass of its own inside the one     *)
(* under way: the passes form a stack.  Setting an output is a call to its *)
(* service, which reports the change back through the queue of the main    *)
(* loop; until then the Core's mirror of the output is behind.             *)
(*                                                                         *)
(* An expression refers to at most one id.  FLAG rules, the functions and  *)
(* the history are left out; PointMirror has the writes of one point in    *)
(* full.                                                                   *)
(***************************************************************************)
EXTENDS Integers, Sequences, FiniteSets

CONSTANTS
    Inputs, Outputs,   \* ids of points, each of a peer of its own
    Vars,              \* ids of variables
    Values,            \* values of points
    Confs,             \* the rules.conf files considered: [rules, vars]
    Debuggable,        \* ids the debugger sets break- and watchpoints on
    WritesFail,        \* a call to a service may fail
    None,
    Undefined,         \* outcome of evaluation at an id that nothing defines
    Endless,           \* and at variables that refer to one another in a circle
    MaxEvents,         \* bound on changes on the way to the Core
    MaxDepth           \* passes the stack of the process has room for

Points == Inputs \cup Outputs
Ids == Points \cup Vars

\* What the parser makes of expressions, label blocks and triggers.
Expressions ==
    [op : {"lit"}, ref : {None}, val : Int]
        \cup [op : {"ref", "is", "plus"}, ref : Ids \cup {None}, val : Int]

Rules ==
    [kind : {"label"}, target : Ids, entries : Seq([cond : Expressions, rval : Expressions])]
        \cup [kind : {"trigger"}, cond : Expressions,
              sets : Seq([target : Ids, rval : Expressions])]

\* The parser keeps label blocks and triggers apart; an id is of one kind.
ASSUME EngineAssumption ==
    /\ Inputs \cap Outputs = {} /\ (Inputs \cup Outputs) \cap Vars = {}
    /\ None \notin Inputs \cup Outputs \cup Vars \cup Int
    /\ {Undefined, Endless} \cap Int = {} /\ Undefined # Endless
    /\ IsFiniteSet(Vars) /\ Values \subseteq Int
    /\ Debuggable \subseteq Inputs \cup Outputs \cup Vars
    /\ WritesFail \in BOOLEAN
    /\ MaxEvents \in Nat /\ MaxDepth \in Nat
    /\ \A c \in Confs :
          /\ c.vars \in [Vars -> Expressions]
          /\ c.rules \in Seq(Rules)
          /\ \A i, j \in DOMAIN c.rules :
                c.rules[i].kind = "label" /\ c.rules[j].kind = "trigger" => i < j

VARIABLES
    conf,      \* the rules.conf in use
    overridden,  \* outputs under manual override, the same for a whole behaviour
    alive,     \* the Core process is alive
    actual,    \* the value a point has in its service
    events,    \* changes on their way to the Core
    mirror,    \* all_inputs and all_outputs: the value a point has in the Core,
               \* None unless its peer is registered
    vars,      \* the expression a variable holds
    stack,     \* the passes under way, outermost first
    paused,    \* the debugger holds evaluation
    stops,     \* ids with a breakpoint or watchpoint
    missed,    \* (history) ids whose last change was not evaluated, and None
               \* when nothing has been evaluated yet
    astray     \* (history) why an output may not be what its rule last gave

\* Label blocks, then triggers.
rules == conf.rules

setup == <<conf, overridden>>
coreVars == <<setup, alive, mirror, vars, paused, stops, missed>>
allVars == <<actual, events, stack, astray, coreVars>>

-----------------------------------------------------------------------------
(***************************************************************************)
(* Expressions                                                             *)
(***************************************************************************)
Lit(v) == [op |-> "lit", ref |-> None, val |-> v]
Ref(i) == [op |-> "ref", ref |-> i, val |-> 0]
Is(i, v) == [op |-> "is", ref |-> i, val |-> v]
Plus(i, v) == [op |-> "plus", ref |-> i, val |-> v]

Compute(e, x) ==
    IF x \in {Undefined, Endless} THEN x
    ELSE CASE e.op = "is"   -> IF x = e.val THEN 1 ELSE 0
           [] e.op = "plus" -> x + e.val
           [] OTHER         -> x

Present == {p \in Points : mirror[p] # None}

PointValue(m, p) == IF m[p] # None THEN m[p] ELSE Undefined

\* An expression's value, with the points as in m and the variables worth values.
ValueOf(e, m, values) ==
    CASE e.op = "lit"     -> e.val
      [] e.ref \in Points -> Compute(e, PointValue(m, e.ref))
      [] e.ref \in Vars   -> Compute(e, values[e.ref])
      [] OTHER            -> Undefined

\* What variables holding vs are worth when references to variables are followed n
\* deep.
Chain(vs, m) ==
    LET chain[n \in 0..Cardinality(Vars)] ==
            [v \in Vars |->
                ValueOf(vs[v], m, IF n = 0 THEN [u \in Vars |-> Endless] ELSE chain[n - 1])]
    IN  chain

\* The values of all variables: a chain of references that visits more variables
\* than there are is a circle.
VarValues == Chain(vars, mirror)[Cardinality(Vars)]

\* expr_eval
Eval(e) == ValueOf(e, mirror, VarValues)

\* Mutant: the variables an expression refers to are not followed.
DirectRef(e) == {e.ref}

\* The ids an expression refers to, when those of the variables are refs.
RefsVia(e, refs) == {e.ref} \cup (IF e.ref \in Vars THEN refs[e.ref] ELSE {})

\* Those of each variable, n references deep.
Reach(vs) ==
    LET reach[n \in 0..Cardinality(Vars)] ==
            [v \in Vars |->
                RefsVia(vs[v], IF n = 0 THEN [u \in Vars |-> {}] ELSE reach[n - 1])]
    IN  reach

\* ref_expr_have_ref_to, for an id of this set
RefsOf(e) == RefsVia(e, Reach(vars)[Cardinality(Vars)])

-----------------------------------------------------------------------------
(***************************************************************************)
(* Rules                                                                   *)
(***************************************************************************)
Label(target, entries) == [kind |-> "label", target |-> target, entries |-> entries]
Trigger(cond, sets) == [kind |-> "trigger", cond |-> cond, sets |-> sets]
Entry(rval, cond) == [cond |-> cond, rval |-> rval]
Set(target, rval) == [target |-> target, rval |-> rval]

\* The expressions of a rule in the order label_block_have_ref_to and
\* trigger_have_ref_to look at them: the targets are not among them.
Exprs(rule) ==
    IF rule.kind = "label"
    THEN [i \in 1..2 * Len(rule.entries) |->
             IF i % 2 = 1 THEN rule.entries[(i + 1) \div 2].cond
                          ELSE rule.entries[i \div 2].rval]
    ELSE <<rule.cond>> \o [i \in DOMAIN rule.sets |-> rule.sets[i].rval]

\* Mutant: the id is not searched for.
AnyRule(rule, id) == TRUE

\* The expressions at which the search for id in a rule ends: one that refers to
\* it, or one that goes round in a circle without it.
EndsSearch(rule, id) ==
    {i \in DOMAIN Exprs(rule) :
        id \in RefsOf(Exprs(rule)[i]) \/ Eval(Exprs(rule)[i]) = Endless}

First(S) == CHOOSE i \in S : \A j \in S : i <= j

\* label_block_have_ref_to, trigger_have_ref_to
Concerns(rule, id) ==
    \/ id = None
    \/ /\ EndsSearch(rule, id) # {}
       /\ id \in RefsOf(Exprs(rule)[First(EndsSearch(rule, id))])

\* The entries at which label_block_apply stops: the first that is true, or whose
\* condition has no value.
Decisive(rule) == {i \in DOMAIN rule.entries : Eval(rule.entries[i].cond) # 0}

\* The conditions a pass for id evaluates in a rule, up to the decisive one.
Conditions(rule) ==
    IF rule.kind = "trigger" THEN {rule.cond}
    ELSE {rule.entries[i].cond :
             i \in {j \in DOMAIN rule.entries : \A d \in Decisive(rule) : j <= d}}

\* The search for id, or the evaluation of a condition, recurs without end.
Overflows(rule, id) ==
    \/ /\ id # None
       /\ EndsSearch(rule, id) # {}
       /\ ~Concerns(rule, id)
    \/ Concerns(rule, id) /\ \E cond \in Conditions(rule) : Eval(cond) = Endless

\* Mutant: every entry that is true is applied.
AllTrue(rule) ==
    IF rule.kind = "trigger"
    THEN IF Eval(rule.cond) \in {0, Undefined} THEN <<>> ELSE rule.sets
    ELSE LET hits == SelectSeq(rule.entries, LAMBDA e : Eval(e.cond) \notin {0, Undefined})
         IN  [i \in DOMAIN hits |-> Set(rule.target, hits[i].rval)]

\* The assignments a rule makes: the first true entry of a label block, all of a
\* trigger's; none when a condition is undefined.
Fired(rule) ==
    IF rule.kind = "trigger"
    THEN IF Eval(rule.cond) \in {0, Undefined} THEN <<>> ELSE rule.sets
    ELSE IF Decisive(rule) = {} THEN <<>>
         ELSE LET e == rule.entries[First(Decisive(rule))]
              IN  IF Eval(e.cond) = Undefined THEN <<>> ELSE <<Set(rule.target, e.rval)>>

-----------------------------------------------------------------------------
(***************************************************************************)
(* Passes                                                                  *)
(***************************************************************************)
Pass(id) == [id |-> id, rule |-> 1, left |-> <<>>]

Top == stack[Len(stack)]
Below == SubSeq(stack, 1, Len(stack) - 1)
Idle == alive /\ stack = <<>>

Init ==
    /\ conf \in Confs
    /\ overridden \in SUBSET Outputs
    /\ alive = TRUE
    /\ actual \in [Points -> Values]
    /\ events = <<>>
    /\ mirror = [p \in Points |-> None]
    /\ vars = conf.vars
    /\ stack = <<>>
    /\ paused = FALSE
    /\ stops = {}
    /\ missed = {None} \cup Ids
    /\ astray = [o \in Outputs |-> "no"]

Dies ==
    /\ alive' = FALSE
    /\ UNCHANGED <<setup, actual, events, stack, astray, mirror, vars, paused, stops, missed>>

\* st_core_debug_intercept_change
Held(id) == paused \/ id \in stops

\* The change callbacks of main.c: a pass for id on top of the passes under way,
\* unless the debugger holds it.
Notice(id, under) ==
    IF Held(id)
    THEN /\ paused' = TRUE
         /\ stack' = under
         /\ missed' = missed \cup {id}
    ELSE /\ stack' = Append(under, Pass(id))
         /\ missed' = missed \ {id}
         /\ UNCHANGED paused

\* engine_apply comes to the next rule.
ConsiderRule ==
    /\ alive
    /\ stack # <<>>
    /\ Top.left = <<>>
    /\ Top.rule <= Len(rules)
    /\ LET rule == rules[Top.rule]
       IN  \/ /\ Overflows(rule, Top.id)
              /\ Dies
           \/ /\ ~Overflows(rule, Top.id)
              /\ stack' = Append(Below, [Top EXCEPT !.rule = @ + 1,
                              !.left = IF Concerns(rule, Top.id) THEN Fired(rule) ELSE <<>>])
              /\ UNCHANGED <<actual, events, astray, coreVars>>

\* The stack of passes once the assignment at hand is done.
Assigned == Append(Below, [Top EXCEPT !.left = Tail(@)])

Assigning(target) ==
    /\ alive
    /\ stack # <<>>
    /\ Top.left # <<>>
    /\ Head(Top.left).target = target

\* st_client_set_output: the service takes the value and reports the change.
WriteOutput(o, v) ==
    /\ actual' = [actual EXCEPT ![o] = v]
    /\ events' = IF actual[o] = v THEN events ELSE Append(events, [id |-> o, val |-> v])
    /\ astray' = [astray EXCEPT ![o] = "no"]

WriteFails(o) ==
    /\ astray' = [astray EXCEPT ![o] = "failed"]
    /\ UNCHANGED <<actual, events>>

NoWrite == UNCHANGED <<actual, events, astray>>

\* assign_apply does not call the service: the mirror has the value already, though
\* the service may not.
AlreadyThere(o, v) ==
    /\ astray' = [astray EXCEPT ![o] = IF actual[o] = v THEN "no"
                                       ELSE IF @ = "no" THEN "stale" ELSE @]
    /\ UNCHANGED <<actual, events>>

\* assign_apply to an output.
SetOutput(o) ==
    /\ Assigning(o)
    /\ o \in Present
    /\ LET val == Eval(Head(Top.left).rval)
       IN  \/ val = Endless /\ Dies
           \/ /\ val # Endless
              /\ stack' = Assigned
              /\ UNCHANGED coreVars
              /\ \/ val = mirror[o] /\ AlreadyThere(o, val)
                 \/ val = Undefined /\ NoWrite
                 \/ /\ val \notin {Undefined, mirror[o]}
                    /\ \/ o \in overridden /\ NoWrite
                       \/ o \notin overridden /\ WriteOutput(o, val)
                       \/ o \notin overridden /\ WritesFail /\ WriteFails(o)

\* expr_equal
HasAlready(v, rval) == vars[v] = rval

\* assign_apply to a variable: it takes the expression, not its value.  The debug
\* server evaluates it before the rules see it.
SetVariable(v) ==
    /\ Assigning(v)
    /\ LET rval == Head(Top.left).rval
       IN  \/ /\ HasAlready(v, rval)
              /\ stack' = Assigned
              /\ UNCHANGED <<actual, events, astray, coreVars>>
           \/ /\ ~HasAlready(v, rval)
              /\ vars' = [vars EXCEPT ![v] = rval]
              /\ UNCHANGED <<setup, actual, events, astray, mirror, stops>>
              /\ IF VarValues'[v] = Endless \/ Len(stack) = MaxDepth
                 THEN alive' = FALSE /\ UNCHANGED <<stack, paused, missed>>
                 ELSE Notice(v, Assigned) /\ UNCHANGED alive

\* assign_apply to an id that is no output or variable: an error, and the next
\* assignment.
SetNothing(id) ==
    /\ Assigning(id)
    /\ id \notin (Present \cap Outputs) \cup Vars
    /\ stack' = Assigned
    /\ UNCHANGED <<actual, events, astray, coreVars>>

EndPass ==
    /\ alive
    /\ stack # <<>>
    /\ Top.left = <<>>
    /\ Top.rule > Len(rules)
    /\ stack' = Below
    /\ UNCHANGED <<actual, events, astray, coreVars>>

PassStep ==
    \/ ConsiderRule
    \/ \E o \in Outputs : SetOutput(o)
    \/ \E v \in Vars : SetVariable(v)
    \/ \E id \in Points : SetNothing(id)
    \/ EndPass

-----------------------------------------------------------------------------
(***************************************************************************)
(* Services                                                                *)
(***************************************************************************)

\* A service, or an operator there, changes a point.
PointChanges(p, v) ==
    /\ alive
    /\ Len(events) < MaxEvents
    /\ actual[p] # v
    /\ actual' = [actual EXCEPT ![p] = v]
    /\ events' = IF p \in Present THEN Append(events, [id |-> p, val |-> v]) ELSE events
    /\ astray' = IF p \in Outputs THEN [astray EXCEPT ![p] = "operator"] ELSE astray
    /\ UNCHANGED <<stack, coreVars>>

\* The change handler of the client, for a change that is due: always one, since a
\* peer is registered with the values it has.
OnChange ==
    /\ Idle
    /\ events # <<>>
    /\ events' = Tail(events)
    /\ LET e == Head(events)
       IN  /\ mirror' = [mirror EXCEPT ![e.id] = e.val]
           /\ Notice(e.id, <<>>)
    /\ UNCHANGED <<setup, actual, astray, alive, vars, stops>>

\* register_ready_client of the point's peer, with the full pass.
PeerReady(p) ==
    /\ Idle
    /\ p \notin Present
    /\ mirror' = [mirror EXCEPT ![p] = actual[p]]
    /\ IF paused
       THEN missed' = missed \cup {p} /\ UNCHANGED stack
       ELSE missed' = {} /\ stack' = <<Pass(None)>>
    /\ UNCHANGED <<setup, actual, events, astray, alive, vars, paused, stops>>

\* Mutant: the handlers of a lost peer stay connected.
AllEvents(p) == events

\* The client of p is gone, and its handlers with it.
EventsWithout(p) ==
    LET kept[n \in 0..Len(events)] ==
            IF n = 0 THEN <<>>
            ELSE IF events[n].id = p THEN kept[n - 1]
            ELSE Append(kept[n - 1], events[n])
    IN  kept[Len(events)]

\* on_mdns_service_removed: the tables lose the point, and no rule is evaluated.
PeerLost(p) ==
    /\ Idle
    /\ p \in Present
    /\ mirror' = [mirror EXCEPT ![p] = None]
    /\ events' = EventsWithout(p)
    /\ UNCHANGED <<setup, actual, stack, astray, alive, vars, paused, stops, missed>>

-----------------------------------------------------------------------------
(***************************************************************************)
(* The debugger                                                            *)
(***************************************************************************)
AddPoint(id) ==
    /\ Idle
    /\ stops' = stops \cup {id}
    /\ UNCHANGED <<setup, actual, events, stack, astray, alive, mirror, vars,
                   paused, missed>>

RemovePoint(id) ==
    /\ Idle
    /\ stops' = stops \ {id}
    /\ UNCHANGED <<setup, actual, events, stack, astray, alive, mirror, vars,
                   paused, missed>>

\* Continue evaluates nothing.
Continue ==
    /\ Idle
    /\ paused' = FALSE
    /\ UNCHANGED <<setup, actual, events, stack, astray, alive, mirror, vars,
                   stops, missed>>

Next ==
    \/ PassStep
    \/ \E p \in Points, v \in Values : PointChanges(p, v)
    \/ OnChange
    \/ \E p \in Points : PeerReady(p)
    \/ \E p \in Points : PeerLost(p)
    \/ \E id \in Debuggable : AddPoint(id)
    \/ \E id \in Debuggable : RemovePoint(id)
    \/ Continue

Spec == Init /\ [][Next]_allVars

\* A pass runs within a callback: nothing holds it up but its calls to services,
\* which end with an answer or a timeout.
FairSpec == Spec /\ WF_allVars(PassStep)

-----------------------------------------------------------------------------
(***************************************************************************)
(* Properties                                                              *)
(***************************************************************************)

TypeOK ==
    /\ conf \in Confs
    /\ overridden \subseteq Outputs
    /\ alive \in BOOLEAN
    /\ actual \in [Points -> Int]
    /\ mirror \in [Points -> Int \cup {None}]
    /\ events \in Seq([id : Present, val : Int])
    /\ vars \in [Vars -> Expressions]
    /\ stack \in Seq([id : Ids \cup {None}, rule : 1..Len(rules) + 1,
                      left : Seq([target : Ids, rval : Expressions])])
    /\ paused \in BOOLEAN
    /\ stops \subseteq Debuggable
    /\ missed \subseteq Ids \cup {None}
    /\ astray \in [Outputs -> {"no", "operator", "failed", "stale"}]

Targets(rule) ==
    IF rule.kind = "label" THEN {rule.target}
    ELSE {rule.sets[i].target : i \in DOMAIN rule.sets}

\* The ids a rule mentions, its targets apart.
Mentions(rule) == {Exprs(rule)[i].ref : i \in DOMAIN Exprs(rule)}

\* The label blocks that alone decide a target in T, and whose last inputs have all
\* been evaluated: none of what they refer to, or the target, has a change that the
\* debugger held back.
Settled(T) ==
    {i \in DOMAIN rules :
        /\ rules[i].kind = "label"
        /\ rules[i].target \in T
        /\ \A j \in DOMAIN rules \ {i} : rules[i].target \notin Targets(rules[j])
        /\ LET e == Exprs(rules[i])
           IN  missed \cap ({None, rules[i].target} \cup UNION {RefsOf(e[k]) : k \in DOMAIN e})
                   = {}
        /\ Fired(rules[i]) # <<>>}

\* What the first true entry of block i gives its target.
Given(i) == Fired(rules[i])[1].rval

(* Between two callbacks, a variable that one label block decides has the
   expression of the block's first true entry, whatever changed before: also when
   the change that makes another entry true came up inside the pass that
   evaluated the block (engine.c:454, var.c:100). *)
VariablesSettled ==
    Idle => \A i \in Settled(Vars) : vars[rules[i].target] = Given(i)

\* The outputs in O have, in their services, the values their blocks give them.
OutputsAre(O) ==
    \A i \in Settled(O \cap Present) :
        Eval(Given(i)) \notin {Undefined, Endless}
            => actual[rules[i].target] = Eval(Given(i))

(* The same for an output, in the service itself, unless an operator changed it, the
   call failed, or the block found the mirror's value right when the service's
   was not (engine.c:225). *)
OutputsSettled == Idle => OutputsAre({o \in Outputs \ overridden : astray[o] = "no"})

\* Rules without feedback: the variables have an order in which everything a
\* variable depends on comes before it.
FeedbackFree ==
    \E rank \in [Vars -> 1..Cardinality(Vars)] :
        /\ \A i \in DOMAIN rules : \A v \in Targets(rules[i]) \cap Vars :
              \A u \in Mentions(rules[i]) \cap Vars : rank[u] < rank[v]
        /\ \A v \in Vars : conf.vars[v].ref \in Vars => rank[conf.vars[v].ref] < rank[v]

(* Passes nest: a variable set in a pass makes a pass of its own, on the stack of
   the process, and an expression follows the variables it refers to (engine.c:291,
   main.c:208, expr.c:254).  Rules without feedback cannot exhaust the stack, also
   when two of them set a variable to different values: a pass goes on only to
   variables that come later, so there are never more than one for each variable
   and the one that began it. *)
FeedbackFreeSurvives ==
    FeedbackFree => alive /\ Len(stack) <= Cardinality(Vars) + 1

(* Rules without feedback come to an end whatever the services do meanwhile. *)
PassesEnd == FeedbackFree => (stack # <<>> ~> Idle)
=============================================================================
