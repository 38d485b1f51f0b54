---------------------------- MODULE RuleFunctions ----------------------------
(***************************************************************************)
(* EVAL, CHANGED and FLAG in rules (expr.c, with engine.c, var.c           *)
(* and main.c where they bear on them).  An EVAL or CHANGED is a node of   *)
(* the parsed rules that remembers something from one evaluation to the    *)
(* next, so it matters which passes reach it, and in which order; FLAG     *)
(* reads what no pass follows.                                             *)
(*                                                                         *)
(* Passes are those of Engine, nested in the same way.  What a rule gives  *)
(* an output counts as given (Engine has calls, reports and overrides);    *)
(* circles of variables, and why the debugger holds a change, are Engine's *)
(* too.  Arguments are inputs.                                             *)
(***************************************************************************)
EXTENDS Integers, Sequences, Functions

CONSTANTS
    Inputs, Outputs, Vars,
    Values,      \* values of inputs
    Nodes,       \* the EVALs and CHANGEDs of the rules
    Confs,       \* the rules.conf files considered: [rules, vars]
    None,
    Undefined,   \* evaluation fails: the id is not there
    Fresh        \* a node that was not evaluated yet

-----------------------------------------------------------------------------
(***************************************************************************)
(* What the parser makes                                                   *)
(***************************************************************************)

\* Literals refer to nothing, functions are nodes of their own; arguments are inputs.
Expressions ==
    {e \in [op : {"lit", "ref", "flag", "eval", "changed"},
            node : Nodes \cup {None}, ref : Inputs \cup Vars \cup {None}, val : Int] :
        /\ e.node # None <=> e.op \in {"eval", "changed"}
        /\ e.ref = None <=> e.op = "lit"
        /\ e.ref \in Vars => e.op = "ref"
        /\ e.op # "lit" => e.val = 0}

\* Chains of variables are Engine's.
Holdable == {e \in Expressions : e.ref \notin Vars}

Assignments ==
    {s \in [target : Outputs \cup Vars, rval : Expressions] :
        s.target \in Vars => s.rval \in Holdable}

\* Label blocks and triggers.
Rules == Seq([cond : Expressions, sets : Seq(Assignments) \ {<<>>}]) \ {<<>>}

Conditions(rule) == {e.cond : e \in Range(rule)}
Given(rule) == UNION {{s.rval : s \in Range(e.sets)} : e \in Range(rule)}
Targets(rule) == UNION {{s.target : s \in Range(e.sets)} : e \in Range(rule)}

\* Every expression of a rules.conf, with its place.
Written(c) ==
    {[expr |-> c.vars[v], at |-> <<v>>] : v \in Vars} \cup
    UNION {UNION {{[expr |-> c.rules[q][k].cond, at |-> <<q, k>>]} \cup
                  {[expr |-> c.rules[q][k].sets[m].rval, at |-> <<q, k, m>>] :
                      m \in DOMAIN c.rules[q][k].sets} :
                  k \in DOMAIN c.rules[q]} : q \in DOMAIN c.rules}

\* Each occurrence of a function is parsed into a node of its own.
OwnNodes(c) ==
    \A a, b \in Written(c) :
        a.expr.node # None /\ a.expr.node = b.expr.node => a = b

\* What the Core has of an input.
Mirrored == [val : Values, flag : {0, 1}]

ASSUME FunctionsAssumption ==
    /\ Inputs \cap Outputs = {} /\ (Inputs \cup Outputs) \cap Vars = {}
    /\ None \notin Inputs \cup Vars \cup Nodes \cup Int \cup Mirrored
    /\ Values \subseteq Int /\ {Fresh, Undefined} \cap Int = {}
    /\ \A c \in Confs :
          c.vars \in [Vars -> Holdable] /\ c.rules \in Seq(Rules) /\ OwnNodes(c)

VARIABLES
    conf,      \* the rules.conf in use
    mirror,    \* value and flag of an input in the Core, None if its peer is unknown
    memory,    \* EVAL: the result it keeps; CHANGED: the value it saw last
    vars,      \* the expression a variable holds
    given,     \* what the rules gave an output last
    stack,     \* the passes under way, outermost first
    later,     \* the flags the change handler has still to set
    stale,     \* (history) ids with a change no pass followed, None for the start
    unclear,   \* (history) outputs of rules with an EVAL that was met for the first time
    last,      \* (history) the last value the Core had of an input
    owed       \* (history) whether a CHANGED has a change to report

history == <<stale, unclear, last, owed>>
allVars == <<conf, mirror, memory, vars, given, stack, later, history>>

rules == conf.rules

-----------------------------------------------------------------------------
(***************************************************************************)
(* Expressions                                                             *)
(***************************************************************************)
Node(op, n, i) == [op |-> op, node |-> n, ref |-> i, val |-> 0]

Lit(v) == [op |-> "lit", node |-> None, ref |-> None, val |-> v]
Ref(i) == Node("ref", None, i)
Flag(i) == Node("flag", None, i)
Eval(n, i) == Node("eval", n, i)
Changed(n, i) == Node("changed", n, i)

\* A variable stands for the expression it holds.
Resolved(e) == IF e.op = "ref" /\ e.ref \in Vars THEN vars[e.ref] ELSE e

Frozen(e) == e.op = "eval" /\ memory[e.node] # Fresh

Now(e) == IF e.ref = None \/ mirror[e.ref] = None THEN Undefined ELSE mirror[e.ref].val

\* eval_func_expr_eval returns nothing and stores no result when it freezes its
\* argument: the caller goes on with any value, or with a failure.
NotReturned == Values \cup {Undefined}

\* Mutant: CHANGED does not keep what it saw.
RemembersEval(f) ==
    IF f.op = "changed" THEN memory ELSE [memory EXCEPT ![f.node] = Now(f)]

\* What the nodes remember once f was evaluated.
Remembers(f) == [memory EXCEPT ![f.node] = Now(f)]

\* expr_eval: the results there may be, each with what the nodes remember then.
Outcomes(e) ==
    LET f == Resolved(e)
        Gives(r) == [val |-> r, memory |-> memory]
        Keeps(r) == [val |-> r, memory |-> Remembers(f)]
    IN  IF f.op = "lit" THEN {Gives(f.val)}
        ELSE IF Frozen(f) THEN {Gives(memory[f.node])}
        ELSE IF Now(f) = Undefined THEN {Gives(Undefined)}
        ELSE CASE f.op = "ref"     -> {Gives(Now(f))}
               [] f.op = "flag"    -> {Gives(mirror[f.ref].flag)}
               [] f.op = "changed" -> {Keeps(IF Now(f) = memory[f.node] THEN 0 ELSE 1)}
               [] f.op = "eval"    -> {Keeps(r) : r \in NotReturned}

\* The ids an expression depends on: a frozen EVAL on none.
DirectRefs(e) == IF e.op = "lit" \/ Frozen(e) THEN {} ELSE {e.ref}

RefsOf(e) == DirectRefs(e) \cup DirectRefs(Resolved(e))

\* expr_equal, which compares what the nodes hold now.
Argument(e) ==
    CASE e.op = "changed" -> <<e.ref, memory[e.node]>>
      [] Frozen(e)        -> <<"is", memory[e.node]>>
      [] OTHER            -> <<e.ref, e.val>>

SameExpr(a, b) == a.op = b.op /\ Argument(a) = Argument(b)

-----------------------------------------------------------------------------
(***************************************************************************)
(* Rules                                                                   *)
(***************************************************************************)
Set(target, rval) == [target |-> target, rval |-> rval]
Entry(cond, target, rval) == [cond |-> cond, sets |-> <<Set(target, rval)>>]

\* A trigger is a rule of one entry, with any number of assignments.
Trigger(cond, sets) == <<[cond |-> cond, sets |-> sets]>>

\* Mutant: only conditions are searched for the id.
ConcernsCondition(rule, id) ==
    id = None \/ \E e \in Conditions(rule) : id \in RefsOf(e)

\* label_block_have_ref_to, trigger_have_ref_to
Concerns(rule, id) ==
    id = None \/ \E e \in Conditions(rule) \cup Given(rule) : id \in RefsOf(e)

-----------------------------------------------------------------------------
(***************************************************************************)
(* Passes                                                                  *)
(***************************************************************************)
Pass(id) == [id |-> id, rule |-> 1, entry |-> 1, left |-> <<>>]

Top == stack[Len(stack)]
Below == SubSeq(stack, 1, Len(stack) - 1)
OnTop(p) == Append(Below, p)

\* Mutant: the next rule is not begun at its first entry.
MidRule(sets) == OnTop([Top EXCEPT !.rule = @ + 1, !.left = sets])

NextRule(sets) == OnTop([Top EXCEPT !.rule = @ + 1, !.entry = 1, !.left = sets])

Idle == stack = <<>> /\ later = None

Init ==
    /\ conf \in Confs
    /\ mirror = [i \in Inputs |-> None]
    /\ memory = [n \in Nodes |-> Fresh]
    /\ vars = conf.vars
    /\ given = [o \in Outputs |-> None]
    /\ stack = <<>>
    /\ later = None
    /\ stale = {None} \cup Inputs \cup Vars
    /\ unclear = {}
    /\ last = [i \in Inputs |-> None]
    /\ owed = [n \in Nodes |-> "no"]

\* A change is followed by a pass, on top of those under way, unless the debugger
\* holds it; id None is a peer that becomes ready, with a full pass.
Notice(id, under, held) ==
    stack' = IF held THEN under ELSE Append(under, Pass(id))

FollowedOf(id, held, what) ==
    IF held THEN stale \cup {what} ELSE IF id = None THEN {} ELSE stale \ {id}

\* An EVAL that is about to be evaluated for the first time.
FirstTime(e) == Resolved(e).op = "eval" /\ ~Frozen(Resolved(e)) /\ Now(Resolved(e)) # Undefined

\* The outputs of rules with that EVAL, which it is not going to concern any more.
Affected(e) ==
    IF ~FirstTime(e) THEN {}
    ELSE UNION {Targets(r) \cap Outputs : r \in {r \in Range(rules) :
            \E f \in Conditions(r) \cup Given(r) : Resolved(f).node = Resolved(e).node}}

\* A CHANGED that is true reports its change, once.
Reported(e, val) ==
    [n \in Nodes |->
        IF e.op = "changed" /\ e.node = n /\ val = 1 /\ owed[n] # "held"
        THEN IF owed[n] = "yes" THEN "no" ELSE "twice"
        ELSE owed[n]]

\* engine_apply: a rule that does not depend on the id is passed over.
SkipRule ==
    /\ stack # <<>> /\ Top.left = <<>> /\ Top.rule <= Len(rules)
    /\ Top.entry = 1
    /\ ~Concerns(rules[Top.rule], Top.id)
    /\ stack' = NextRule(<<>>)
    /\ UNCHANGED <<conf, mirror, memory, vars, given, later, history>>

\* label_block_apply, trigger_apply: the conditions in order, up to the first that
\* is true, or fails.
ConsiderEntry ==
    /\ stack # <<>> /\ Top.left = <<>> /\ Top.rule <= Len(rules)
    /\ LET rule == rules[Top.rule]
           entry == rule[Top.entry]
       IN  /\ Top.entry > 1 \/ Concerns(rule, Top.id)
           /\ \E r \in Outcomes(entry.cond) :
                 /\ memory' = r.memory
                 /\ owed' = Reported(entry.cond, r.val)
                 /\ stack' = IF r.val = 0 /\ Top.entry < Len(rule)
                             THEN OnTop([Top EXCEPT !.entry = @ + 1])
                             ELSE NextRule(IF r.val \in {0, Undefined} THEN <<>> ELSE entry.sets)
           /\ unclear' = (IF Top.entry = 1 THEN unclear \ Targets(rule) ELSE unclear)
                            \cup Affected(entry.cond)
    /\ UNCHANGED <<conf, mirror, vars, given, later, stale, last>>

\* The assignment at hand, and the passes once it is done.
Assigning == stack # <<>> /\ Top.left # <<>>
Done == OnTop([Top EXCEPT !.left = Tail(@)])

\* assign_apply to an output.
SetOutput ==
    /\ Assigning
    /\ LET s == Head(Top.left)
       IN  /\ s.target \in Outputs
           /\ \E r \in Outcomes(s.rval) :
                 /\ memory' = r.memory
                 /\ given' = IF r.val = Undefined THEN given
                             ELSE [given EXCEPT ![s.target] = r.val]
           /\ unclear' = unclear \cup Affected(s.rval)
    /\ stack' = Done
    /\ UNCHANGED <<conf, mirror, vars, later, stale, last, owed>>

\* st_core_var_changed_callback: the debug server evaluates the new expression and
\* drops the result.
DebuggerLooks(e) == \E r \in Outcomes(e) : memory' = r.memory

\* assign_apply to a variable: it takes the node itself, whatever it remembers.
SetVariable(held) ==
    /\ Assigning
    /\ LET s == Head(Top.left)
       IN  /\ s.target \in Vars
           /\ \/ /\ SameExpr(vars[s.target], s.rval)
                 /\ stack' = Done
                 /\ UNCHANGED <<vars, memory, stale>>
              \/ /\ ~SameExpr(vars[s.target], s.rval)
                 /\ vars' = [vars EXCEPT ![s.target] = s.rval]
                 /\ DebuggerLooks(s.rval)
                 /\ Notice(s.target, Done, held)
                 /\ stale' = FollowedOf(s.target, held, s.target)
    /\ UNCHANGED <<conf, mirror, given, later, unclear, last, owed>>

EndPass ==
    /\ stack # <<>> /\ Top.left = <<>> /\ Top.rule > Len(rules)
    /\ stack' = Below
    /\ UNCHANGED <<conf, mirror, memory, vars, given, later, history>>

-----------------------------------------------------------------------------
(***************************************************************************)
(* Inputs                                                                  *)
(***************************************************************************)

\* The CHANGEDs of input i, when its value becomes val.
Owing(i, val, held) ==
    [n \in Nodes |->
        IF Changed(n, i) \notin UNION {Conditions(r) : r \in Range(rules)} THEN owed[n]
        ELSE IF held \/ owed[n] = "held" THEN "held"
        ELSE IF val = last[i] THEN owed[n]
        ELSE IF owed[n] = "no" THEN "yes" ELSE "twice"]

\* The change handler sets the value; the rules run; then it sets the flags.
ValueChanges(i, val, flag, held) ==
    /\ Idle /\ mirror[i] # None /\ mirror[i].val # val
    /\ mirror' = [mirror EXCEPT ![i].val = val]
    /\ later' = IF flag = mirror[i].flag THEN None ELSE [id |-> i, flag |-> flag]
    /\ Notice(i, <<>>, held)
    /\ stale' = FollowedOf(i, held, i)
    /\ owed' = Owing(i, val, held)
    /\ last' = [last EXCEPT ![i] = val]
    /\ UNCHANGED <<conf, memory, vars, given, unclear>>

FlagSet(i, flag) ==
    /\ mirror' = [mirror EXCEPT ![i].flag = flag]
    /\ stale' = stale \cup {i}
    /\ UNCHANGED <<conf, memory, vars, given, stack, unclear, last, owed>>

\* The rest of the handler.  Nothing is connected to a change of the flags.
FlagFollows ==
    /\ stack = <<>> /\ later # None
    /\ FlagSet(later.id, later.flag)
    /\ later' = None

FlagChanges(i) ==
    /\ Idle /\ mirror[i] # None
    /\ FlagSet(i, 1 - mirror[i].flag)
    /\ UNCHANGED later

\* register_ready_client
PeerReady(i, val, flag, held) ==
    /\ Idle /\ mirror[i] = None
    /\ mirror' = [mirror EXCEPT ![i] = [val |-> val, flag |-> flag]]
    /\ Notice(None, <<>>, held)
    /\ stale' = FollowedOf(None, held, i)
    /\ owed' = Owing(i, val, held)
    /\ last' = [last EXCEPT ![i] = val]
    /\ UNCHANGED <<conf, memory, vars, given, later, unclear>>

PeerLost(i) ==
    /\ Idle /\ mirror[i] # None
    /\ mirror' = [mirror EXCEPT ![i] = None]
    /\ UNCHANGED <<conf, memory, vars, given, stack, later, history>>

Next ==
    \/ SkipRule
    \/ ConsiderEntry
    \/ SetOutput
    \/ \E held \in BOOLEAN : SetVariable(held)
    \/ EndPass
    \/ \E i \in Inputs, val \in Values, flag \in {0, 1}, held \in BOOLEAN :
          ValueChanges(i, val, flag, held)
    \/ FlagFollows
    \/ \E i \in Inputs : FlagChanges(i)
    \/ \E i \in Inputs, val \in Values, flag \in {0, 1}, held \in BOOLEAN :
          PeerReady(i, val, flag, held)
    \/ \E i \in Inputs : PeerLost(i)

Spec == Init /\ [][Next]_allVars

-----------------------------------------------------------------------------
(***************************************************************************)
(* Properties                                                              *)
(***************************************************************************)

TypeOK ==
    /\ conf \in Confs
    /\ mirror \in [Inputs -> Mirrored \cup {None}]
    /\ memory \in [Nodes -> Values \cup {Fresh}]
    /\ vars \in [Vars -> Holdable]
    /\ given \in [Outputs -> Int \cup {None}]
    /\ stack \in Seq([id : Inputs \cup Vars \cup {None}, rule : 1 .. Len(rules) + 1,
                      entry : Nat \ {0}, left : Seq(Assignments)])
    /\ \A k \in DOMAIN stack :
          stack[k].rule <= Len(rules) => stack[k].entry \in DOMAIN rules[stack[k].rule]
    /\ \/ later = None
       \/ /\ later \in [id : Inputs, flag : {0, 1}]
          /\ mirror[later.id] # None /\ later.flag # mirror[later.id].flag
    /\ unclear \subseteq Outputs
    /\ last \in [Inputs -> Values \cup {None}]
    /\ owed \in [Nodes -> {"no", "yes", "held", "twice"}]

(* A rule whose first condition is CHANGED(id) runs exactly once for each change of the
   id, in whichever pass comes to it first: the pass of the id, one of a variable set
   before the pass gets there, or a full one; also when a peer goes and comes
   back (expr.c:560).  Only a change the debugger held may be lost. *)
ChangeReportedOnce ==
    Idle => \A r \in Range(rules) :
               r[1].cond.op = "changed" => owed[r[1].cond.node] \in {"no", "held"}

\* The value of an expression that does not depend on when it is evaluated.
Value(e) ==
    LET f == Resolved(e)
    IN  IF f.op = "lit" THEN f.val
        ELSE IF Frozen(f) THEN memory[f.node]
        ELSE IF Now(f) = Undefined THEN Undefined
        ELSE IF f.op = "flag" THEN mirror[f.ref].flag
        ELSE Now(f)

\* The entry that decides: the first that is not false, if it does not fail.
Decides(rule, k) ==
    /\ Value(rule[k].cond) \notin {0, Undefined}
    /\ \A j \in 1 .. k - 1 : Value(rule[j].cond) = 0

\* No assignment after it is to the same target.
IsLast(sets, m) == \A j \in m + 1 .. Len(sets) : sets[j].target # sets[m].target

\* The rules that alone decide outputs, without CHANGED, and every change of what
\* they depend on was followed by a pass.
Settled ==
    {q \in DOMAIN rules :
        /\ Targets(rules[q]) \subseteq Outputs
        /\ \A r \in DOMAIN rules \ {q} : Targets(rules[r]) \cap Targets(rules[q]) = {}
        /\ None \notin stale
        /\ \A e \in Conditions(rules[q]) \cup Given(rules[q]) :
              Resolved(e).op # "changed" /\ RefsOf(e) \cap stale = {}}

\* An output that does not have what the rule gives it.
Wrong(q, k, m) ==
    LET s == rules[q][k].sets[m]
    IN  /\ Decides(rules[q], k) /\ IsLast(rules[q][k].sets, m)
        /\ s.target \notin unclear /\ Value(s.rval) # Undefined
        /\ given[s.target] # Value(s.rval)

(* An output has what the first true entry of its rule gives, though a frozen EVAL
   has taken the input out of what the rule depends on (expr.c:512): unless an EVAL
   of the rule was met for the first time, by this rule or another that shares it through a
   variable, or something the rule depends on changed and no pass followed, which is a
   flag alone (mdns.c:89) or a change the debugger held. *)
BlocksSettled ==
    Idle => \A q \in Settled : \A k \in DOMAIN rules[q] :
               \A m \in DOMAIN rules[q][k].sets : ~Wrong(q, k, m)
=============================================================================
