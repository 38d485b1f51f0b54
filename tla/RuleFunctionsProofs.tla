------------------------- MODULE RuleFunctionsProofs -------------------------
(***************************************************************************)
(* Proofs about RuleFunctions, for any rule files the parser can make, any *)
(* inputs, outputs, variables and values.                                  *)
(***************************************************************************)
EXTENDS RuleFunctions, SequenceTheorems, TLAPS

-----------------------------------------------------------------------------
(***************************************************************************)
(* The invariant                                                           *)
(***************************************************************************)

\* A variable holds what it was declared with or what a rule assigns to it.
OriginOK ==
    \A v \in Vars :
        \/ vars[v] = conf.vars[v]
        \/ \E q \in DOMAIN rules : \E k \in DOMAIN rules[q] : \E m \in DOMAIN rules[q][k].sets :
              rules[q][k].sets[m] = Set(v, vars[v])

\* Rules of outputs, without CHANGED.
Plain(q) ==
    /\ Targets(rules[q]) \subseteq Outputs
    /\ \A e \in Conditions(rules[q]) \cup Given(rules[q]) : Resolved(e).op # "changed"

\* The last assignments of sets.
Rest(left, sets) ==
    /\ Len(left) <= Len(sets)
    /\ \A j \in 1 .. Len(left) : left[j] = sets[Len(sets) - Len(left) + j]

\* What a pass has still to assign is the rest of an entry of the rule before the one
\* it is at.  If that rule is plain, nothing came between.
LeftOf(p) ==
    stack[p].left # <<>> =>
        LET q == stack[p].rule - 1
        IN  /\ q >= 1
            /\ \E k \in DOMAIN rules[q] :
                  /\ Rest(stack[p].left, rules[q][k].sets)
                  /\ Plain(q) => Decides(rules[q], k) \/ Targets(rules[q]) \subseteq unclear
            /\ Targets(rules[q]) \subseteq Outputs => p = Len(stack)

\* The entries a pass has seen of the rule it is at are false.
SeenOf(p) ==
    stack[p].entry > 1 =>
        /\ p = Len(stack) /\ stack[p].left = <<>>
        /\ stack[p].rule <= Len(rules)
        /\ Plain(stack[p].rule) =>
              \/ \A j \in 1 .. stack[p].entry - 1 : Value(rules[stack[p].rule][j].cond) = 0
              \/ Targets(rules[stack[p].rule]) \subseteq unclear

\* The pass at p will come to rule q, is at it, or has still to make the assignment m of
\* its entry k.
WillCome(p, q) == stack[p].rule < q \/ (stack[p].rule = q /\ stack[p].entry = 1)

DueAt(p, q, k, m) ==
    \/ Concerns(rules[q], stack[p].id) /\ WillCome(p, q)
    \/ stack[p].rule = q /\ stack[p].entry > 1
    \/ stack[p].rule = q + 1 /\ Len(stack[p].left) > Len(rules[q][k].sets) - m

OwedOK ==
    \A q \in Settled : \A k \in DOMAIN rules[q] : \A m \in DOMAIN rules[q][k].sets :
        Wrong(q, k, m) => \E p \in DOMAIN stack : DueAt(p, q, k, m)

\* What the CHANGED that rule q begins with has to report.
ReportOf(q) ==
    LET n == rules[q][1].cond.node
        i == rules[q][1].cond.ref
    IN  /\ owed[n] # "twice"
        /\ owed[n] = "no" => memory[n] = last[i] \/ (memory[n] = Fresh /\ last[i] = None)
        /\ owed[n] = "yes" =>
              /\ memory[n] # last[i] /\ mirror[i] # None
              /\ stack # <<>> /\ stack[1].id \in {i, None} /\ WillCome(1, q)

ReportsOK ==
    \A q \in DOMAIN rules : rules[q][1].cond.op = "changed" => ReportOf(q)

LastOK == \A i \in Inputs : mirror[i] # None => mirror[i].val = last[i]

PassesOK == \A p \in DOMAIN stack : LeftOf(p) /\ SeenOf(p)

IInv == TypeOK /\ OriginOK /\ LastOK /\ ReportsOK /\ PassesOK /\ OwedOK

-----------------------------------------------------------------------------
(***************************************************************************)
(* Rule files                                                              *)
(***************************************************************************)

Entries == [cond : Expressions, sets : Seq(Assignments) \ {<<>>}]

\* The expressions of a rule.
Exprs(rule) == Conditions(rule) \cup Given(rule)

\* What the assumption on rule files says of the one in use.
LEMMA ConfTyped ==
    ASSUME TypeOK
    PROVE  /\ conf.vars \in [Vars -> Holdable] /\ OwnNodes(conf)
           /\ rules \in Seq(Rules) /\ Len(rules) \in Nat /\ DOMAIN rules = 1 .. Len(rules)
           /\ \A q \in DOMAIN rules : rules[q] \in Rules
<1>1. conf.vars \in [Vars -> Holdable] /\ OwnNodes(conf) /\ rules \in Seq(Rules)
  BY FunctionsAssumption DEF TypeOK, rules
<1>2. Len(rules) \in Nat /\ DOMAIN rules = 1 .. Len(rules)
  BY <1>1
<1> QED BY <1>1, <1>2, ElementOfSeq

\* The parts of a rule.
LEMMA RuleTyped ==
    ASSUME NEW rule \in Rules
    PROVE  /\ Len(rule) \in Nat /\ Len(rule) >= 1 /\ DOMAIN rule = 1 .. Len(rule)
           /\ 1 \in DOMAIN rule
           /\ \A k \in DOMAIN rule :
                 /\ rule[k] \in Entries
                 /\ rule[k].cond \in Expressions /\ rule[k].cond \in Exprs(rule)
                 /\ rule[k].sets \in Seq(Assignments) /\ rule[k].sets # <<>>
                 /\ Len(rule[k].sets) \in Nat /\ Len(rule[k].sets) >= 1
                 /\ DOMAIN rule[k].sets = 1 .. Len(rule[k].sets)
                 /\ \A m \in DOMAIN rule[k].sets :
                       /\ rule[k].sets[m] \in Assignments
                       /\ rule[k].sets[m].target \in Targets(rule)
                       /\ rule[k].sets[m].rval \in Expressions
                       /\ rule[k].sets[m].rval \in Exprs(rule)
<1>1. rule \in Seq(Entries) /\ rule # <<>>
  BY DEF Rules, Entries
<1>2. /\ Len(rule) \in Nat /\ Len(rule) >= 1 /\ DOMAIN rule = 1 .. Len(rule)
      /\ 1 \in DOMAIN rule
  BY <1>1, EmptySeq
<1>3. ASSUME NEW k \in DOMAIN rule
      PROVE  /\ rule[k] \in Entries
             /\ rule[k].cond \in Expressions /\ rule[k].cond \in Exprs(rule)
             /\ rule[k].sets \in Seq(Assignments) /\ rule[k].sets # <<>>
  <2>1. rule[k] \in Entries
    BY <1>1, <1>2, ElementOfSeq
  <2>2. rule[k].cond \in Exprs(rule)
    BY DEF Exprs, Conditions, Range
  <2> QED BY <2>1, <2>2 DEF Entries
<1>4. ASSUME NEW k \in DOMAIN rule
      PROVE  /\ Len(rule[k].sets) \in Nat /\ Len(rule[k].sets) >= 1
             /\ DOMAIN rule[k].sets = 1 .. Len(rule[k].sets)
  BY <1>3, EmptySeq
<1>5. ASSUME NEW k \in DOMAIN rule, NEW m \in DOMAIN rule[k].sets
      PROVE  /\ rule[k].sets[m] \in Assignments
             /\ rule[k].sets[m].target \in Targets(rule)
             /\ rule[k].sets[m].rval \in Expressions
             /\ rule[k].sets[m].rval \in Exprs(rule)
  <2>1. rule[k].sets[m] \in Assignments
    BY <1>3, <1>4, ElementOfSeq
  <2>2. rule[k].sets[m] \in Range(rule[k].sets) /\ rule[k] \in Range(rule)
    BY DEF Range
  <2>3. rule[k].sets[m].target \in Targets(rule) /\ rule[k].sets[m].rval \in Given(rule)
    BY <2>2 DEF Targets, Given
  <2> QED BY <2>1, <2>3 DEF Assignments, Exprs
<1> QED BY <1>2, <1>3, <1>4, <1>5

\* Each expression of a rule is a condition or a value assigned.
LEMMA ExprPlace ==
    ASSUME NEW rule \in Rules, NEW e \in Exprs(rule)
    PROVE  /\ e \in Expressions
           /\ \E k \in DOMAIN rule :
                 \/ e = rule[k].cond
                 \/ \E m \in DOMAIN rule[k].sets : e = rule[k].sets[m].rval
<1>1. \E k \in DOMAIN rule :
         \/ e = rule[k].cond
         \/ \E m \in DOMAIN rule[k].sets : e = rule[k].sets[m].rval
  BY DEF Exprs, Conditions, Given, Range
<1> QED BY <1>1, RuleTyped

-----------------------------------------------------------------------------
(***************************************************************************)
(* Nodes: an occurrence of a function shares its node with no other        *)
(***************************************************************************)

\* Where the expressions of a rule file are written.
LEMMA WrittenPlaces ==
    ASSUME NEW c
    PROVE  /\ \A v \in Vars : [expr |-> c.vars[v], at |-> <<v>>] \in Written(c)
           /\ \A q \in DOMAIN c.rules : \A k \in DOMAIN c.rules[q] :
                 /\ [expr |-> c.rules[q][k].cond, at |-> <<q, k>>] \in Written(c)
                 /\ \A m \in DOMAIN c.rules[q][k].sets :
                       [expr |-> c.rules[q][k].sets[m].rval, at |-> <<q, k, m>>] \in Written(c)
<1> DEFINE Conds(q, k) == [expr |-> c.rules[q][k].cond, at |-> <<q, k>>]
           Rvals(q, k) == {[expr |-> c.rules[q][k].sets[m].rval, at |-> <<q, k, m>>] :
                              m \in DOMAIN c.rules[q][k].sets}
           EntryAt(q, k) == {Conds(q, k)} \cup Rvals(q, k)
           Decls == {[expr |-> c.vars[v], at |-> <<v>>] : v \in Vars}
           All == UNION {UNION {EntryAt(q, k) : k \in DOMAIN c.rules[q]} : q \in DOMAIN c.rules}
<1>1. Written(c) = Decls \cup All
  BY DEF Written
<1>2. \A v \in Vars : [expr |-> c.vars[v], at |-> <<v>>] \in Decls
  OBVIOUS
<1>3. ASSUME NEW q \in DOMAIN c.rules, NEW k \in DOMAIN c.rules[q]
      PROVE  EntryAt(q, k) \subseteq All
  <2> HIDE DEF EntryAt
  <2> QED OBVIOUS
<1>4. ASSUME NEW q \in DOMAIN c.rules, NEW k \in DOMAIN c.rules[q]
      PROVE  /\ Conds(q, k) \in EntryAt(q, k)
             /\ \A m \in DOMAIN c.rules[q][k].sets :
                   [expr |-> c.rules[q][k].sets[m].rval, at |-> <<q, k, m>>] \in EntryAt(q, k)
  OBVIOUS
<1>5. ASSUME NEW q \in DOMAIN c.rules, NEW k \in DOMAIN c.rules[q]
      PROVE  /\ Conds(q, k) \in All
             /\ \A m \in DOMAIN c.rules[q][k].sets :
                   [expr |-> c.rules[q][k].sets[m].rval, at |-> <<q, k, m>>] \in All
  <2> HIDE DEF All, EntryAt, Conds
  <2> QED BY <1>3, <1>4
<1> HIDE DEF All, Decls, Rvals, EntryAt
<1> QED BY <1>1, <1>2, <1>5

\* Two places with one node are one place.
LEMMA OnePlace ==
    ASSUME TypeOK, NEW e, NEW s, NEW f, NEW t,
           [expr |-> e, at |-> s] \in Written(conf), [expr |-> f, at |-> t] \in Written(conf),
           e.node # None, e.node = f.node
    PROVE  e = f /\ s = t
<1>1. OwnNodes(conf)
  BY ConfTyped
<1>2. [expr |-> e, at |-> s] = [expr |-> f, at |-> t]
  BY <1>1 DEF OwnNodes
<1> QED BY <1>2

\* Places of different kinds differ.
LEMMA Lengths ==
    ASSUME NEW v, NEW q, NEW k, NEW r, NEW j, NEW m
    PROVE  <<v>> # <<q, k>> /\ <<q, k>> # <<r, j, m>> /\ <<v>> # <<r, j, m>>
<1>1. Len(<<v>>) = 1 /\ Len(<<q, k>>) = 2 /\ Len(<<r, j, m>>) = 3
  OBVIOUS
<1> QED BY <1>1

\* The node of a condition is in no other condition, nor assigned, nor in a variable.
LEMMA CondNode ==
    ASSUME TypeOK, OriginOK,
           NEW q \in DOMAIN rules, NEW k \in DOMAIN rules[q], rules[q][k].cond.node # None
    PROVE  /\ \A r \in DOMAIN rules : \A j \in DOMAIN rules[r] :
                 /\ rules[r][j].cond.node = rules[q][k].cond.node => r = q /\ j = k
                 /\ \A m \in DOMAIN rules[r][j].sets :
                       rules[r][j].sets[m].rval.node # rules[q][k].cond.node
           /\ \A v \in Vars : vars[v].node # rules[q][k].cond.node
<1>1. [expr |-> rules[q][k].cond, at |-> <<q, k>>] \in Written(conf)
  BY WrittenPlaces DEF rules
<1>2. ASSUME NEW r \in DOMAIN rules, NEW j \in DOMAIN rules[r],
             rules[r][j].cond.node = rules[q][k].cond.node
      PROVE  r = q /\ j = k
  <2>1. [expr |-> rules[r][j].cond, at |-> <<r, j>>] \in Written(conf)
    BY WrittenPlaces DEF rules
  <2>2. <<q, k>> = <<r, j>>
    BY <1>1, <1>2, <2>1, OnePlace
  <2> QED BY <2>2
<1>3. ASSUME NEW r \in DOMAIN rules, NEW j \in DOMAIN rules[r], NEW m \in DOMAIN rules[r][j].sets,
             rules[r][j].sets[m].rval.node = rules[q][k].cond.node
      PROVE  FALSE
  <2>1. [expr |-> rules[r][j].sets[m].rval, at |-> <<r, j, m>>] \in Written(conf)
    BY WrittenPlaces DEF rules
  <2>2. <<q, k>> = <<r, j, m>>
    BY <1>1, <1>3, <2>1, OnePlace
  <2> QED BY <2>2, Lengths
<1>4. ASSUME NEW v \in Vars, vars[v].node = rules[q][k].cond.node
      PROVE  FALSE
  <2>1. CASE vars[v] = conf.vars[v]
    <3>1. [expr |-> conf.vars[v], at |-> <<v>>] \in Written(conf)
      BY WrittenPlaces
    <3>2. <<q, k>> = <<v>>
      BY <1>1, <1>4, <2>1, <3>1, OnePlace
    <3> QED BY <3>2, Lengths
  <2>2. CASE vars[v] # conf.vars[v]
    <3>1. PICK r \in DOMAIN rules : \E j \in DOMAIN rules[r] :
             \E m \in DOMAIN rules[r][j].sets : rules[r][j].sets[m] = Set(v, vars[v])
      BY <2>2 DEF OriginOK
    <3>2. PICK j \in DOMAIN rules[r] :
             \E m \in DOMAIN rules[r][j].sets : rules[r][j].sets[m] = Set(v, vars[v])
      BY <3>1
    <3>3. PICK m \in DOMAIN rules[r][j].sets : rules[r][j].sets[m] = Set(v, vars[v])
      BY <3>2
    <3>4. rules[r][j].sets[m].rval = vars[v]
      BY <3>3 DEF Set
    <3> QED BY <1>3, <1>4, <3>4
  <2> QED BY <2>1, <2>2
<1> QED BY <1>2, <1>3, <1>4

\* A value assigned shares its node with no other expression of a rule, and no variable
\* but its target.
LEMMA RvalNode ==
    ASSUME TypeOK, OriginOK,
           NEW q \in DOMAIN rules, NEW k \in DOMAIN rules[q],
           NEW m \in DOMAIN rules[q][k].sets, rules[q][k].sets[m].rval.node # None
    PROVE  /\ \A r \in DOMAIN rules : \A j \in DOMAIN rules[r] : \A l \in DOMAIN rules[r][j].sets :
                 rules[r][j].sets[l].rval.node = rules[q][k].sets[m].rval.node
                    => r = q /\ j = k /\ l = m
           /\ \A v \in Vars : vars[v].node = rules[q][k].sets[m].rval.node
                                 => v = rules[q][k].sets[m].target
<1>1. [expr |-> rules[q][k].sets[m].rval, at |-> <<q, k, m>>] \in Written(conf)
  BY WrittenPlaces DEF rules
<1>2. ASSUME NEW r \in DOMAIN rules, NEW j \in DOMAIN rules[r], NEW l \in DOMAIN rules[r][j].sets,
             rules[r][j].sets[l].rval.node = rules[q][k].sets[m].rval.node
      PROVE  r = q /\ j = k /\ l = m
  <2>1. [expr |-> rules[r][j].sets[l].rval, at |-> <<r, j, l>>] \in Written(conf)
    BY WrittenPlaces DEF rules
  <2>2. <<q, k, m>> = <<r, j, l>>
    BY <1>1, <1>2, <2>1, OnePlace
  <2> QED BY <2>2
<1>3. ASSUME NEW v \in Vars, vars[v].node = rules[q][k].sets[m].rval.node
      PROVE  v = rules[q][k].sets[m].target
  <2>1. CASE vars[v] = conf.vars[v]
    <3>1. [expr |-> conf.vars[v], at |-> <<v>>] \in Written(conf)
      BY WrittenPlaces
    <3>2. <<q, k, m>> = <<v>>
      BY <1>1, <1>3, <2>1, <3>1, OnePlace
    <3> QED BY <3>2, Lengths
  <2>2. CASE vars[v] # conf.vars[v]
    <3>1. PICK r \in DOMAIN rules : \E j \in DOMAIN rules[r] :
             \E l \in DOMAIN rules[r][j].sets : rules[r][j].sets[l] = Set(v, vars[v])
      BY <2>2 DEF OriginOK
    <3>2. PICK j \in DOMAIN rules[r] :
             \E l \in DOMAIN rules[r][j].sets : rules[r][j].sets[l] = Set(v, vars[v])
      BY <3>1
    <3>3. PICK l \in DOMAIN rules[r][j].sets : rules[r][j].sets[l] = Set(v, vars[v])
      BY <3>2
    <3>4. rules[r][j].sets[l].rval = vars[v] /\ rules[r][j].sets[l].target = v
      BY <3>3 DEF Set
    <3> QED BY <1>2, <1>3, <3>4
  <2> QED BY <2>1, <2>2
<1> QED BY <1>2, <1>3

-----------------------------------------------------------------------------
(***************************************************************************)
(* Evaluation                                                              *)
(***************************************************************************)

\* A variable stands for an expression that refers to no variable.
LEMMA ResolvedTyped ==
    ASSUME TypeOK, NEW e \in Expressions
    PROVE  /\ Resolved(e) \in Holdable
           /\ e.ref \in Vars => e.op = "ref" /\ Resolved(e) = vars[e.ref]
           /\ e.ref \notin Vars => Resolved(e) = e
BY DEF TypeOK, Resolved, Holdable, Expressions

\* The value of an argument is that of an input the Core knows.
LEMMA NowTyped ==
    ASSUME TypeOK, NEW f \in Holdable
    PROVE  /\ Now(f) \in Values \cup {Undefined}
           /\ Now(f) # Undefined =>
                 /\ f.ref \in Inputs /\ mirror[f.ref] \in Mirrored /\ mirror[f.ref] # None
                 /\ Now(f) = mirror[f.ref].val /\ mirror[f.ref].flag \in {0, 1}
<1>1. f.ref \in Inputs \cup {None}
  BY DEF Holdable, Expressions
<1>2. ASSUME f.ref # None, mirror[f.ref] # None
      PROVE  f.ref \in Inputs /\ mirror[f.ref] \in Mirrored /\ Now(f) = mirror[f.ref].val
  BY <1>1, <1>2 DEF TypeOK, Now
<1> QED BY <1>2 DEF Now, Mirrored

\* What the nodes remember once f was evaluated.
LEMMA RemembersTyped ==
    ASSUME TypeOK, NEW f \in Holdable, Now(f) # Undefined
    PROVE  /\ Remembers(f) \in [Nodes -> Values \cup {Fresh}]
           /\ \A n \in Nodes : Remembers(f)[n] = IF n = f.node THEN Now(f) ELSE memory[n]
BY NowTyped DEF TypeOK, Remembers

\* What an evaluation may give: the value, unless it depends on the moment.
LEMMA OutcomeTyped ==
    ASSUME TypeOK, NEW e \in Expressions, NEW r \in Outcomes(e)
    PROVE  /\ r.val \in Int \cup {Undefined}
           /\ \/ r.memory = memory
              \/ /\ Resolved(e).op \in {"eval", "changed"} /\ Resolved(e).node \in Nodes
                 /\ Now(Resolved(e)) # Undefined /\ ~Frozen(Resolved(e))
                 /\ r.memory = Remembers(Resolved(e))
           /\ r.memory \in [Nodes -> Values \cup {Fresh}]
           /\ Resolved(e).op # "changed" /\ ~FirstTime(e) => r.val = Value(e)
           /\ Resolved(e).op = "changed" =>
                 IF Now(Resolved(e)) = Undefined
                 THEN r.val = Undefined /\ r.memory = memory
                 ELSE /\ r.memory = Remembers(Resolved(e))
                      /\ r.val = IF Now(Resolved(e)) = memory[Resolved(e).node] THEN 0 ELSE 1
<1> DEFINE f == Resolved(e)
<1>1. f \in Holdable
  BY ResolvedTyped
<1>2. /\ f.op \in {"lit", "ref", "flag", "eval", "changed"} /\ f.val \in Int
      /\ f.op \in {"eval", "changed"} => f.node \in Nodes
      /\ f.node \in Nodes \cup {None}
  BY <1>1, FunctionsAssumption DEF Holdable, Expressions
<1>3. /\ Now(f) \in Values \cup {Undefined} /\ Values \subseteq Int
      /\ Now(f) # Undefined => mirror[f.ref].flag \in {0, 1}
  BY <1>1, NowTyped, FunctionsAssumption
<1>4. /\ memory \in [Nodes -> Values \cup {Fresh}]
      /\ Now(f) # Undefined => Remembers(f) \in [Nodes -> Values \cup {Fresh}]
  BY <1>1, RemembersTyped DEF TypeOK
<1>5. ASSUME f.op = "lit"
      PROVE  r = [val |-> f.val, memory |-> memory] /\ Value(e) = f.val
  BY <1>5 DEF Outcomes, Value
<1>6. ASSUME f.op = "eval", Frozen(f)
      PROVE  /\ r = [val |-> memory[f.node], memory |-> memory]
             /\ Value(e) = memory[f.node] /\ memory[f.node] \in Int
  <2>1. memory[f.node] \in Values
    BY <1>2, <1>4, <1>6 DEF Frozen
  <2>2. r = [val |-> memory[f.node], memory |-> memory] /\ Value(e) = memory[f.node]
    BY <1>6 DEF Outcomes, Value
  <2> QED BY <1>3, <2>1, <2>2
<1>7. ASSUME f.op # "lit", ~Frozen(f), Now(f) = Undefined
      PROVE  r = [val |-> Undefined, memory |-> memory] /\ Value(e) = Undefined
  BY <1>7 DEF Outcomes, Value
<1>8. ASSUME ~Frozen(f), Now(f) # Undefined
      PROVE  /\ f.op = "ref" => r = [val |-> Now(f), memory |-> memory] /\ Value(e) = Now(f)
             /\ f.op = "flag" => r = [val |-> mirror[f.ref].flag, memory |-> memory]
                                 /\ Value(e) = mirror[f.ref].flag
             /\ f.op = "changed" =>
                   r = [val |-> IF Now(f) = memory[f.node] THEN 0 ELSE 1, memory |-> Remembers(f)]
             /\ f.op = "eval" =>
                   /\ \E v \in NotReturned : r = [val |-> v, memory |-> Remembers(f)]
                   /\ FirstTime(e)
  <2>1. CASE f.op = "ref"
    BY <1>8, <2>1 DEF Outcomes, Value
  <2>2. CASE f.op = "flag"
    BY <1>8, <2>2 DEF Outcomes, Value
  <2>3. CASE f.op = "changed"
    BY <1>8, <2>3 DEF Outcomes
  <2>4. CASE f.op = "eval"
    BY <1>8, <2>4 DEF Outcomes, FirstTime
  <2> QED BY <2>1, <2>2, <2>3, <2>4
<1>9. Frozen(f) => f.op = "eval"
  BY DEF Frozen
<1>10. NotReturned \subseteq Int \cup {Undefined}
  BY <1>3 DEF NotReturned
<1>11. CASE f.op = "lit"
  BY <1>2, <1>4, <1>5, <1>11
<1>12. CASE Frozen(f)
  BY <1>4, <1>6, <1>9, <1>12
<1>13. CASE f.op # "lit" /\ ~Frozen(f) /\ Now(f) = Undefined
  BY <1>4, <1>7, <1>13
<1>14. CASE f.op # "lit" /\ ~Frozen(f) /\ Now(f) # Undefined
  <2>1. CASE f.op = "ref"
    <3>1. r = [val |-> Now(f), memory |-> memory] /\ Value(e) = Now(f)
      BY <1>8, <1>14, <2>1
    <3>2. r.val = Value(e) /\ r.val \in Int /\ r.memory = memory
      BY <1>3, <1>14, <3>1
    <3> QED BY <1>4, <2>1, <3>2
  <2>2. CASE f.op = "flag"
    <3>1. r = [val |-> mirror[f.ref].flag, memory |-> memory] /\ Value(e) = mirror[f.ref].flag
      BY <1>8, <1>14, <2>2
    <3>2. r.val = Value(e) /\ r.val \in Int /\ r.memory = memory
      BY <1>3, <1>14, <3>1
    <3> QED BY <1>4, <2>2, <3>2
  <2>3. CASE f.op = "changed"
    BY <1>2, <1>4, <1>8, <1>14, <2>3
  <2>4. CASE f.op = "eval"
    BY <1>2, <1>4, <1>8, <1>10, <1>14, <2>4
  <2> QED BY <1>2, <1>14, <2>1, <2>2, <2>3, <2>4
<1> QED BY <1>11, <1>12, <1>13, <1>14

\* What an expression of a rule stands for is written somewhere.
LEMMA Source ==
    ASSUME TypeOK, OriginOK, NEW q \in DOMAIN rules, NEW e \in Exprs(rules[q])
    PROVE  \E s : [expr |-> Resolved(e), at |-> s] \in Written(conf)
<1>1. rules[q] \in Rules /\ e \in Expressions
  BY ConfTyped, ExprPlace
<1>2. CASE e.ref \notin Vars
  <2>1. Resolved(e) = e
    BY <1>1, <1>2, ResolvedTyped
  <2>2. PICK k \in DOMAIN rules[q] :
           \/ e = rules[q][k].cond
           \/ \E m \in DOMAIN rules[q][k].sets : e = rules[q][k].sets[m].rval
    BY <1>1, ExprPlace
  <2> QED BY <2>1, <2>2, WrittenPlaces DEF rules
<1>3. CASE e.ref \in Vars
  <2>1. Resolved(e) = vars[e.ref]
    BY <1>1, <1>3, ResolvedTyped
  <2>2. CASE vars[e.ref] = conf.vars[e.ref]
    BY <1>3, <2>1, <2>2, WrittenPlaces
  <2>3. CASE vars[e.ref] # conf.vars[e.ref]
    <3>1. PICK r \in DOMAIN rules : \E j \in DOMAIN rules[r] :
             \E m \in DOMAIN rules[r][j].sets : rules[r][j].sets[m] = Set(e.ref, vars[e.ref])
      BY <1>3, <2>3 DEF OriginOK
    <3>2. PICK j \in DOMAIN rules[r] :
             \E m \in DOMAIN rules[r][j].sets : rules[r][j].sets[m] = Set(e.ref, vars[e.ref])
      BY <3>1
    <3>3. PICK m \in DOMAIN rules[r][j].sets : rules[r][j].sets[m] = Set(e.ref, vars[e.ref])
      BY <3>2
    <3>4. rules[r][j].sets[m].rval = vars[e.ref]
      BY <3>3 DEF Set
    <3> QED BY <2>1, <3>4, WrittenPlaces DEF rules
  <2> QED BY <2>2, <2>3
<1> QED BY <1>2, <1>3

\* So two that have the node in common stand for the same.
LEMMA SameNode ==
    ASSUME TypeOK, OriginOK, NEW q \in DOMAIN rules, NEW e \in Exprs(rules[q]),
           NEW r \in DOMAIN rules, NEW d \in Exprs(rules[r]),
           Resolved(e).node # None, Resolved(e).node = Resolved(d).node
    PROVE  Resolved(e) = Resolved(d)
BY Source, OnePlace

-----------------------------------------------------------------------------
(***************************************************************************)
(* Types                                                                   *)
(***************************************************************************)

Passes ==
    {p \in [id : Inputs \cup Vars \cup {None}, rule : 1 .. Len(rules) + 1,
            entry : Nat \ {0}, left : Seq(Assignments)] :
        p.rule <= Len(rules) => p.entry \in DOMAIN rules[p.rule]}

\* A sequence s with its last element replaced by t.
LEMMA TopReplaced ==
    ASSUME NEW T, NEW s \in Seq(T), s # <<>>, NEW t \in T
    PROVE  /\ Len(s) \in Nat /\ Len(s) >= 1 /\ s[Len(s)] \in T
           /\ DOMAIN s = 1 .. Len(s)
           /\ SubSeq(s, 1, Len(s) - 1) \in Seq(T)
           /\ Len(SubSeq(s, 1, Len(s) - 1)) = Len(s) - 1
           /\ DOMAIN SubSeq(s, 1, Len(s) - 1) = 1 .. Len(s) - 1
           /\ \A k \in 1 .. Len(s) - 1 : SubSeq(s, 1, Len(s) - 1)[k] = s[k]
           /\ Append(SubSeq(s, 1, Len(s) - 1), t) \in Seq(T)
           /\ Len(Append(SubSeq(s, 1, Len(s) - 1), t)) = Len(s)
           /\ DOMAIN Append(SubSeq(s, 1, Len(s) - 1), t) = 1 .. Len(s)
           /\ Append(SubSeq(s, 1, Len(s) - 1), t)[Len(s)] = t
           /\ \A k \in 1 .. Len(s) - 1 : Append(SubSeq(s, 1, Len(s) - 1), t)[k] = s[k]
<1> DEFINE n == Len(s)
           b == SubSeq(s, 1, n - 1)
<1>1. n \in Nat /\ n >= 1 /\ DOMAIN s = 1 .. n
  BY EmptySeq
<1>2. s[n] \in T
  BY <1>1, ElementOfSeq
<1>3. b = [k \in 1 .. n - 1 |-> s[k]] /\ b \in Seq(T) /\ Len(b) = n - 1
  BY <1>1
<1> HIDE DEF b
<1>4. /\ Append(b, t) \in Seq(T) /\ Len(Append(b, t)) = n
      /\ Append(b, t)[n] = t /\ \A k \in 1 .. n - 1 : Append(b, t)[k] = b[k]
  BY <1>1, <1>3
<1>5. \A k \in 1 .. n - 1 : b[k] = s[k]
  BY <1>3
<1>6. DOMAIN b = 1 .. n - 1 /\ DOMAIN Append(b, t) = 1 .. n
  BY <1>1, <1>3, <1>4
<1> HIDE DEF n
<1> QED BY <1>1, <1>2, <1>3, <1>4, <1>5, <1>6 DEF b, n

\* A sequence all of whose elements are in a set is one over it.
LEMMA SeqOfThese ==
    ASSUME NEW R, NEW T, NEW s \in Seq(R), \A k \in DOMAIN s : s[k] \in T
    PROVE  s \in Seq(T)
<1>1. Len(s) \in Nat /\ DOMAIN s = 1 .. Len(s) /\ s = [k \in 1 .. Len(s) |-> s[k]]
  OBVIOUS
<1>2. s \in [1 .. Len(s) -> T]
  BY <1>1
<1> QED BY <1>1, <1>2

\* Passes are at a rule and one of its entries.
LEMMA StackTyped ==
    ASSUME TypeOK
    PROVE  /\ stack \in Seq(Passes) /\ Len(stack) \in Nat /\ DOMAIN stack = 1 .. Len(stack)
           /\ \A p \in DOMAIN stack : stack[p] \in Passes
<1> DEFINE R == [id : Inputs \cup Vars \cup {None}, rule : 1 .. Len(rules) + 1,
                 entry : Nat \ {0}, left : Seq(Assignments)]
<1>1. stack \in Seq(R)
  BY DEF TypeOK
<1>2. \A p \in DOMAIN stack : stack[p].rule <= Len(rules) =>
                                 stack[p].entry \in DOMAIN rules[stack[p].rule]
  BY DEF TypeOK
<1>3. Len(stack) \in Nat /\ DOMAIN stack = 1 .. Len(stack)
  BY <1>1
<1>4. \A p \in DOMAIN stack : stack[p] \in R
  <2> HIDE DEF R
  <2> QED BY <1>1, <1>3, ElementOfSeq
<1>5. \A p \in DOMAIN stack : stack[p] \in Passes
  BY <1>2, <1>4 DEF Passes
<1>6. stack \in Seq(Passes)
  <2> HIDE DEF R
  <2> QED BY <1>1, <1>5, SeqOfThese
<1> QED BY <1>3, <1>5, <1>6

\* What TypeOK says of the stack.
LEMMA StackOK ==
    ASSUME NEW s \in Seq(Passes)
    PROVE  /\ s \in Seq([id : Inputs \cup Vars \cup {None}, rule : 1 .. Len(rules) + 1,
                         entry : Nat \ {0}, left : Seq(Assignments)])
           /\ \A k \in DOMAIN s :
                 s[k].rule <= Len(rules) => s[k].entry \in DOMAIN rules[s[k].rule]
<1> DEFINE R == [id : Inputs \cup Vars \cup {None}, rule : 1 .. Len(rules) + 1,
                 entry : Nat \ {0}, left : Seq(Assignments)]
<1>1. \A k \in DOMAIN s : s[k] \in Passes
  <2>1. DOMAIN s = 1 .. Len(s) /\ Len(s) \in Nat
    OBVIOUS
  <2> QED BY <2>1, ElementOfSeq
<1>2. \A k \in DOMAIN s : /\ s[k] \in R
                          /\ s[k].rule <= Len(rules) => s[k].entry \in DOMAIN rules[s[k].rule]
  BY <1>1 DEF Passes
<1>3. s \in Seq(R)
  <2> HIDE DEF R
  <2> QED BY <1>2, SeqOfThese
<1> QED BY <1>2, <1>3

\* The pass on top and those below it.
LEMMA TopTyped ==
    ASSUME TypeOK, stack # <<>>
    PROVE  /\ stack \in Seq(Passes)
           /\ Len(stack) \in Nat /\ Len(stack) >= 1 /\ DOMAIN stack = 1 .. Len(stack)
           /\ Top \in Passes /\ Top = stack[Len(stack)]
           /\ Below \in Seq(Passes) /\ Len(Below) = Len(stack) - 1
           /\ DOMAIN Below = 1 .. Len(stack) - 1
           /\ \A p \in 1 .. Len(stack) - 1 : Below[p] = stack[p]
<1>1. Top = stack[Len(stack)]
  BY DEF Top
<1>2. stack \in Seq(Passes) /\ Len(stack) \in DOMAIN stack /\ Top \in Passes
  BY <1>1, StackTyped, EmptySeq
<1> QED BY <1>1, <1>2, TopReplaced DEF Below

\* The passes when the top one is replaced.
LEMMA OnTopTyped ==
    ASSUME TypeOK, stack # <<>>, NEW t \in Passes
    PROVE  /\ OnTop(t) \in Seq(Passes) /\ Len(OnTop(t)) = Len(stack)
           /\ DOMAIN OnTop(t) = 1 .. Len(stack)
           /\ OnTop(t)[Len(stack)] = t
           /\ \A p \in 1 .. Len(stack) - 1 : OnTop(t)[p] = stack[p]
<1>1. stack \in Seq(Passes)
  BY TopTyped
<1> QED BY <1>1, TopReplaced DEF OnTop, Below

\* The top pass at the next rule, or the next entry, or with its next assignment.
LEMMA MovedTyped ==
    ASSUME TypeOK, stack # <<>>
    PROVE  /\ \A sets \in Seq(Assignments) : Top.rule <= Len(rules) =>
                 [Top EXCEPT !.rule = @ + 1, !.entry = 1, !.left = sets] \in Passes
           /\ Top.rule <= Len(rules) /\ Top.entry < Len(rules[Top.rule]) =>
                 [Top EXCEPT !.entry = @ + 1] \in Passes
           /\ Top.left # <<>> =>
                 /\ [Top EXCEPT !.left = Tail(@)] \in Passes
                 /\ Head(Top.left) \in Assignments
                 /\ Head(Top.left) = Top.left[1] /\ 1 \in DOMAIN Top.left
                 /\ Len(Top.left) \in Nat /\ Len(Top.left) >= 1
                 /\ Len(Tail(Top.left)) = Len(Top.left) - 1
                 /\ \A j \in 1 .. Len(Top.left) - 1 : Tail(Top.left)[j] = Top.left[j + 1]
<1>1. Top \in Passes
  BY TopTyped
<1>2. /\ Top.id \in Inputs \cup Vars \cup {None} /\ Top.rule \in 1 .. Len(rules) + 1
      /\ Top.entry \in Nat \ {0} /\ Top.left \in Seq(Assignments)
      /\ Top.rule <= Len(rules) => Top.entry \in DOMAIN rules[Top.rule]
      /\ Top = [id |-> Top.id, rule |-> Top.rule, entry |-> Top.entry, left |-> Top.left]
  BY <1>1 DEF Passes
<1>3. Len(rules) \in Nat /\ DOMAIN rules = 1 .. Len(rules)
  BY ConfTyped
<1>4. ASSUME NEW q \in DOMAIN rules
      PROVE  1 \in DOMAIN rules[q] /\ Len(rules[q]) \in Nat /\ DOMAIN rules[q] = 1 .. Len(rules[q])
  BY ConfTyped, RuleTyped
<1>5. ASSUME NEW sets \in Seq(Assignments), Top.rule <= Len(rules)
      PROVE  [Top EXCEPT !.rule = @ + 1, !.entry = 1, !.left = sets] \in Passes
  <2>1. Top.rule + 1 \in 1 .. Len(rules) + 1
    BY <1>2, <1>3, <1>5
  <2>2. Top.rule + 1 <= Len(rules) => 1 \in DOMAIN rules[Top.rule + 1]
    BY <1>2, <1>3, <1>4
  <2> DEFINE t == [Top EXCEPT !.rule = @ + 1, !.entry = 1, !.left = sets]
             R == [id : Inputs \cup Vars \cup {None}, rule : 1 .. Len(rules) + 1,
                   entry : Nat \ {0}, left : Seq(Assignments)]
  <2>3. Top \in R /\ 1 \in Nat \ {0}
    BY <1>1 DEF Passes
  <2>4. t \in R /\ t.rule = Top.rule + 1 /\ t.entry = 1
    BY <2>1, <2>3
  <2>5. t \in Passes
    <3> HIDE DEF t
    <3> QED BY <2>2, <2>4 DEF Passes
  <2> QED BY <2>5
<1>6. ASSUME Top.rule <= Len(rules), Top.entry < Len(rules[Top.rule])
      PROVE  [Top EXCEPT !.entry = @ + 1] \in Passes
  <2>1. Top.entry + 1 \in DOMAIN rules[Top.rule] /\ Top.entry + 1 \in Nat \ {0}
    BY <1>2, <1>3, <1>4, <1>6
  <2> QED BY <1>2, <2>1 DEF Passes
<1>7. ASSUME Top.left # <<>>
      PROVE  /\ [Top EXCEPT !.left = Tail(@)] \in Passes
             /\ Head(Top.left) \in Assignments
             /\ Head(Top.left) = Top.left[1] /\ 1 \in DOMAIN Top.left
             /\ Len(Top.left) \in Nat /\ Len(Top.left) >= 1
             /\ Len(Tail(Top.left)) = Len(Top.left) - 1
             /\ \A j \in 1 .. Len(Top.left) - 1 : Tail(Top.left)[j] = Top.left[j + 1]
  <2>1. /\ Head(Top.left) \in Assignments /\ Tail(Top.left) \in Seq(Assignments)
        /\ Len(Top.left) \in Nat /\ Len(Top.left) >= 1
        /\ Len(Tail(Top.left)) = Len(Top.left) - 1
    BY <1>2, <1>7, HeadTailProperties, EmptySeq
  <2>2. Head(Top.left) = Top.left[1] /\ 1 \in DOMAIN Top.left
    BY <1>2, <2>1
  <2>3. \A j \in 1 .. Len(Top.left) - 1 : Tail(Top.left)[j] = Top.left[j + 1]
    BY <1>2, <2>1
  <2>4. [Top EXCEPT !.left = Tail(@)] \in Passes
    BY <1>2, <2>1 DEF Passes
  <2> QED BY <2>1, <2>2, <2>3, <2>4
<1> QED BY <1>5, <1>6, <1>7

\* A new pass begins at the first entry of the first rule.
LEMMA PassTyped ==
    ASSUME TypeOK, NEW id \in Inputs \cup Vars \cup {None}
    PROVE  /\ Pass(id) \in Passes /\ Pass(id).id = id /\ Pass(id).rule = 1 /\ Pass(id).entry = 1
           /\ Pass(id).left = <<>>
<1>1. 1 \in 1 .. Len(rules) + 1 /\ (1 <= Len(rules) => 1 \in DOMAIN rules[1])
  BY ConfTyped, RuleTyped
<1>2. <<>> \in Seq(Assignments)
  OBVIOUS
<1> QED BY <1>1, <1>2 DEF Pass, Passes

\* A pass begins on top of those of s, unless the debugger holds it.
LEMMA NoticeTyped ==
    ASSUME TypeOK, NEW id \in Inputs \cup Vars \cup {None}, NEW s \in Seq(Passes),
           NEW held \in BOOLEAN, Notice(id, s, held)
    PROVE  /\ stack' \in Seq(Passes)
           /\ \A p \in 1 .. Len(s) : stack'[p] = s[p]
           /\ held => stack' = s
           /\ ~held => /\ DOMAIN stack' = 1 .. Len(s) + 1 /\ Len(stack') = Len(s) + 1
                       /\ stack'[Len(s) + 1] = Pass(id)
<1>1. Pass(id) \in Passes
  BY PassTyped
<1>2. /\ Append(s, Pass(id)) \in Seq(Passes) /\ Len(Append(s, Pass(id))) = Len(s) + 1
      /\ Append(s, Pass(id))[Len(s) + 1] = Pass(id)
      /\ DOMAIN Append(s, Pass(id)) = 1 .. Len(s) + 1
      /\ \A p \in 1 .. Len(s) : Append(s, Pass(id))[p] = s[p]
  BY <1>1, AppendProperties
<1> QED BY <1>2 DEF Notice

\* What the moved passes are.
LEMMA MovedFields ==
    ASSUME TypeOK, stack # <<>>
    PROVE  /\ \A sets : LET t == [Top EXCEPT !.rule = @ + 1, !.entry = 1, !.left = sets]
                        IN  /\ t.id = Top.id /\ t.rule = Top.rule + 1
                            /\ t.entry = 1 /\ t.left = sets
           /\ LET t == [Top EXCEPT !.entry = @ + 1]
              IN  /\ t.id = Top.id /\ t.rule = Top.rule
                  /\ t.entry = Top.entry + 1 /\ t.left = Top.left
           /\ LET t == [Top EXCEPT !.left = Tail(@)]
              IN  /\ t.id = Top.id /\ t.rule = Top.rule
                  /\ t.entry = Top.entry /\ t.left = Tail(Top.left)
           /\ Top.id \in Inputs \cup Vars \cup {None} /\ Top.rule \in 1 .. Len(rules) + 1
           /\ Top.entry \in Nat \ {0} /\ Top.left \in Seq(Assignments)
           /\ Top.rule <= Len(rules) => Top.entry \in DOMAIN rules[Top.rule]
           /\ Top.rule <= Len(rules) => Top.rule \in DOMAIN rules
<1>1. Top \in Passes /\ DOMAIN rules = 1 .. Len(rules) /\ Len(rules) \in Nat
  BY TopTyped, ConfTyped
<1> QED BY <1>1 DEF Passes

\* What a step leaves of the types when it does not touch what they are about.
LEMMA SameConf ==
    ASSUME TypeOK, conf' = conf, stack' \in Seq(Passes),
           mirror' \in [Inputs -> Mirrored \cup {None}],
           memory' \in [Nodes -> Values \cup {Fresh}],
           vars' \in [Vars -> Holdable],
           given' \in [Outputs -> Int \cup {None}],
           \/ later' = None
           \/ /\ later' \in [id : Inputs, flag : {0, 1}]
              /\ mirror'[later'.id] # None /\ later'.flag # mirror'[later'.id].flag,
           unclear' \subseteq Outputs,
           last' \in [Inputs -> Values \cup {None}],
           owed' \in [Nodes -> {"no", "yes", "held", "twice"}]
    PROVE  TypeOK'
<1>1. rules' = rules
  BY DEF rules
<1>2. /\ stack' \in Seq([id : Inputs \cup Vars \cup {None}, rule : 1 .. Len(rules) + 1,
                         entry : Nat \ {0}, left : Seq(Assignments)])
      /\ \A k \in DOMAIN stack' :
            stack'[k].rule <= Len(rules) => stack'[k].entry \in DOMAIN rules[stack'[k].rule]
  BY StackOK
<1> QED BY <1>1, <1>2 DEF TypeOK

\* The types hold at the start, and each operation keeps them.
LEMMA InitTyped ==
    ASSUME Init
    PROVE  TypeOK
<1>1. conf \in Confs /\ vars \in [Vars -> Holdable]
  BY FunctionsAssumption DEF Init
<1>2. stack \in Seq([id : Inputs \cup Vars \cup {None}, rule : 1 .. Len(rules) + 1,
                     entry : Nat \ {0}, left : Seq(Assignments)])
  BY DEF Init
<1> QED BY <1>1, <1>2 DEF Init, TypeOK

LEMMA SkipTyped ==
    ASSUME TypeOK, SkipRule
    PROVE  TypeOK'
<1>1. <<>> \in Seq(Assignments)
  OBVIOUS
<1>2. stack' \in Seq(Passes)
  BY <1>1, MovedTyped, OnTopTyped DEF SkipRule, NextRule
<1> QED BY <1>2, SameConf DEF SkipRule, TypeOK, history

\* The rule a pass is at, and the entry.
LEMMA AtEntry ==
    ASSUME TypeOK, stack # <<>>, Top.rule <= Len(rules)
    PROVE  /\ Top.rule \in DOMAIN rules /\ rules[Top.rule] \in Rules
           /\ Top.entry \in DOMAIN rules[Top.rule]
           /\ rules[Top.rule][Top.entry].cond \in Expressions
           /\ rules[Top.rule][Top.entry].cond \in Exprs(rules[Top.rule])
           /\ rules[Top.rule][Top.entry].sets \in Seq(Assignments)
<1>1. Top \in Passes /\ Top.rule \in DOMAIN rules
  BY TopTyped, ConfTyped DEF Passes
<1> QED BY <1>1, ConfTyped, RuleTyped DEF Passes

LEMMA ReportedTyped ==
    ASSUME TypeOK, NEW e, NEW val
    PROVE  Reported(e, val) \in [Nodes -> {"no", "yes", "held", "twice"}]
BY DEF TypeOK, Reported

\* Only outputs become unclear.
LEMMA AffectedTyped == ASSUME NEW e PROVE Affected(e) \subseteq Outputs
BY DEF Affected

LEMMA ConsiderTyped ==
    ASSUME TypeOK, ConsiderEntry
    PROVE  TypeOK'
<1> DEFINE rule == rules[Top.rule]
           entry == rule[Top.entry]
<1>1. /\ stack # <<>> /\ Top.rule <= Len(rules)
      /\ UNCHANGED <<conf, mirror, vars, given, later, stale, last>>
      /\ unclear' = (IF Top.entry = 1 THEN unclear \ Targets(rule) ELSE unclear)
                       \cup Affected(entry.cond)
  BY DEF ConsiderEntry
<1>2. PICK r \in Outcomes(entry.cond) :
         /\ memory' = r.memory
         /\ owed' = Reported(entry.cond, r.val)
         /\ stack' = IF r.val = 0 /\ Top.entry < Len(rule)
                     THEN OnTop([Top EXCEPT !.entry = @ + 1])
                     ELSE NextRule(IF r.val \in {0, Undefined} THEN <<>> ELSE entry.sets)
  BY DEF ConsiderEntry
<1>3. entry.cond \in Expressions /\ entry.sets \in Seq(Assignments)
  BY <1>1, AtEntry
<1>4. memory' \in [Nodes -> Values \cup {Fresh}]
  BY <1>2, <1>3, OutcomeTyped
<1>5. owed' \in [Nodes -> {"no", "yes", "held", "twice"}]
  BY <1>2, ReportedTyped
<1>6. stack' \in Seq(Passes)
  <2>1. ASSUME NEW sets \in Seq(Assignments) PROVE NextRule(sets) \in Seq(Passes)
    BY <1>1, <2>1, MovedTyped, OnTopTyped DEF NextRule
  <2>2. Top.entry < Len(rule) => OnTop([Top EXCEPT !.entry = @ + 1]) \in Seq(Passes)
    BY <1>1, MovedTyped, OnTopTyped
  <2>3. (IF r.val \in {0, Undefined} THEN <<>> ELSE entry.sets) \in Seq(Assignments)
    <3>1. <<>> \in Seq(Assignments)
      OBVIOUS
    <3> QED BY <1>3, <3>1
  <2> QED BY <1>2, <2>1, <2>2, <2>3
<1>7. unclear' \subseteq Outputs
  BY <1>1, AffectedTyped DEF TypeOK
<1> QED BY <1>1, <1>4, <1>5, <1>6, <1>7, SameConf DEF TypeOK

\* The assignment at hand.
LEMMA AtHand ==
    ASSUME TypeOK, Assigning
    PROVE  /\ stack # <<>> /\ Top.left # <<>> /\ Head(Top.left) \in Assignments
           /\ Head(Top.left).target \in Outputs \cup Vars
           /\ Head(Top.left).rval \in Expressions
           /\ Head(Top.left).target \in Vars => Head(Top.left).rval \in Holdable
           /\ Done \in Seq(Passes)
           /\ Len(Done) = Len(stack) /\ DOMAIN Done = 1 .. Len(stack)
           /\ Done[Len(stack)] = [Top EXCEPT !.left = Tail(@)]
           /\ \A p \in 1 .. Len(stack) - 1 : Done[p] = stack[p]
<1>1. stack # <<>> /\ Top.left # <<>>
  BY DEF Assigning
<1>2. Head(Top.left) \in Assignments /\ [Top EXCEPT !.left = Tail(@)] \in Passes
  BY <1>1, MovedTyped
<1>3. /\ Done \in Seq(Passes) /\ Len(Done) = Len(stack) /\ DOMAIN Done = 1 .. Len(stack)
      /\ Done[Len(stack)] = [Top EXCEPT !.left = Tail(@)]
      /\ \A p \in 1 .. Len(stack) - 1 : Done[p] = stack[p]
  BY <1>1, <1>2, OnTopTyped DEF Done
<1> QED BY <1>1, <1>2, <1>3 DEF Assignments

LEMMA SetOutputTyped ==
    ASSUME TypeOK, SetOutput
    PROVE  TypeOK'
<1> DEFINE s == Head(Top.left)
<1>1. /\ s.target \in Outputs /\ stack' = Done /\ unclear' = unclear \cup Affected(s.rval)
      /\ UNCHANGED <<conf, mirror, vars, later, stale, last, owed>>
  BY DEF SetOutput
<1>2. PICK r \in Outcomes(s.rval) :
         /\ memory' = r.memory
         /\ given' = IF r.val = Undefined THEN given ELSE [given EXCEPT ![s.target] = r.val]
  BY DEF SetOutput
<1>3. s.rval \in Expressions /\ stack' \in Seq(Passes)
  BY <1>1, AtHand DEF SetOutput
<1>4. memory' \in [Nodes -> Values \cup {Fresh}] /\ r.val \in Int \cup {Undefined}
  BY <1>2, <1>3, OutcomeTyped
<1>5. given' \in [Outputs -> Int \cup {None}]
  BY <1>2, <1>4 DEF TypeOK
<1>6. unclear' \subseteq Outputs
  BY <1>1, AffectedTyped DEF TypeOK
<1> QED BY <1>1, <1>3, <1>4, <1>5, <1>6, SameConf DEF TypeOK

LEMMA SetVariableTyped ==
    ASSUME TypeOK, NEW held \in BOOLEAN, SetVariable(held)
    PROVE  TypeOK'
<1> DEFINE s == Head(Top.left)
<1>1. s.target \in Vars /\ UNCHANGED <<conf, mirror, given, later, unclear, last, owed>>
  BY DEF SetVariable
<1>2. s.rval \in Holdable /\ Done \in Seq(Passes) /\ s.rval \in Expressions
  BY <1>1, AtHand DEF SetVariable
<1>3. CASE stack' = Done /\ UNCHANGED <<vars, memory, stale>>
  BY <1>1, <1>2, <1>3, SameConf DEF TypeOK
<1>4. CASE vars' = [vars EXCEPT ![s.target] = s.rval] /\ DebuggerLooks(s.rval)
           /\ Notice(s.target, Done, held)
  <2>1. memory' \in [Nodes -> Values \cup {Fresh}]
    BY <1>2, <1>4, OutcomeTyped DEF DebuggerLooks
  <2>2. vars' \in [Vars -> Holdable]
    BY <1>2, <1>4 DEF TypeOK
  <2>3. stack' \in Seq(Passes)
    BY <1>1, <1>2, <1>4, NoticeTyped
  <2> QED BY <1>1, <2>1, <2>2, <2>3, SameConf DEF TypeOK
<1> QED BY <1>3, <1>4 DEF SetVariable

LEMMA EndPassTyped ==
    ASSUME TypeOK, EndPass
    PROVE  TypeOK'
<1>1. stack' \in Seq(Passes)
  BY TopTyped DEF EndPass
<1> QED BY <1>1, SameConf DEF EndPass, TypeOK, history

LEMMA OwingTyped ==
    ASSUME TypeOK, NEW i, NEW val, NEW held
    PROVE  Owing(i, val, held) \in [Nodes -> {"no", "yes", "held", "twice"}]
BY DEF TypeOK, Owing

LEMMA MirrorTyped ==
    ASSUME TypeOK, NEW i \in Inputs
    PROVE  /\ mirror[i] # None => mirror[i] \in Mirrored /\ mirror[i].val \in Values
                                  /\ mirror[i].flag \in {0, 1}
           /\ \A m \in Mirrored : m # None
BY FunctionsAssumption DEF TypeOK, Mirrored

LEMMA ValueChangesTyped ==
    ASSUME TypeOK, NEW i \in Inputs, NEW val \in Values, NEW flag \in {0, 1},
           NEW held \in BOOLEAN, ValueChanges(i, val, flag, held)
    PROVE  TypeOK'
<1>1. /\ mirror[i] # None /\ mirror' = [mirror EXCEPT ![i].val = val]
      /\ later' = IF flag = mirror[i].flag THEN None ELSE [id |-> i, flag |-> flag]
      /\ Notice(i, <<>>, held) /\ owed' = Owing(i, val, held)
      /\ last' = [last EXCEPT ![i] = val]
      /\ UNCHANGED <<conf, memory, vars, given, unclear>>
  BY DEF ValueChanges
<1>2. /\ mirror' \in [Inputs -> Mirrored \cup {None}] /\ mirror'[i] \in Mirrored
      /\ mirror'[i].flag = mirror[i].flag
  BY <1>1, MirrorTyped DEF TypeOK, Mirrored
<1>3. \/ later' = None
      \/ /\ later' \in [id : Inputs, flag : {0, 1}]
         /\ mirror'[later'.id] # None /\ later'.flag # mirror'[later'.id].flag
  BY <1>1, <1>2, MirrorTyped
<1>4. stack' \in Seq(Passes)
  <2>1. <<>> \in Seq(Passes)
    OBVIOUS
  <2> QED BY <1>1, <2>1, NoticeTyped
<1>5. last' \in [Inputs -> Values \cup {None}]
  BY <1>1 DEF TypeOK
<1> QED BY <1>1, <1>2, <1>3, <1>4, <1>5, OwingTyped, SameConf DEF TypeOK

LEMMA FlagTyped ==
    ASSUME TypeOK, NEW i \in Inputs, NEW flag \in {0, 1}, mirror[i] # None, FlagSet(i, flag),
           later' = None
    PROVE  TypeOK'
<1>1. /\ mirror' = [mirror EXCEPT ![i].flag = flag]
      /\ UNCHANGED <<conf, memory, vars, given, stack, unclear, last, owed>>
  BY DEF FlagSet
<1>2. mirror' \in [Inputs -> Mirrored \cup {None}]
  BY <1>1, MirrorTyped DEF TypeOK, Mirrored
<1> QED BY <1>1, <1>2, StackTyped, SameConf DEF TypeOK

LEMMA PeerReadyTyped ==
    ASSUME TypeOK, NEW i \in Inputs, NEW val \in Values, NEW flag \in {0, 1},
           NEW held \in BOOLEAN, PeerReady(i, val, flag, held)
    PROVE  TypeOK'
<1>1. /\ mirror' = [mirror EXCEPT ![i] = [val |-> val, flag |-> flag]]
      /\ Notice(None, <<>>, held) /\ owed' = Owing(i, val, held)
      /\ last' = [last EXCEPT ![i] = val] /\ later = None
      /\ UNCHANGED <<conf, memory, vars, given, later, unclear>>
  BY DEF PeerReady, Idle
<1>2. mirror' \in [Inputs -> Mirrored \cup {None}]
  BY <1>1 DEF TypeOK, Mirrored
<1>3. stack' \in Seq(Passes)
  <2>1. <<>> \in Seq(Passes)
    OBVIOUS
  <2> QED BY <1>1, <2>1, NoticeTyped
<1>4. last' \in [Inputs -> Values \cup {None}]
  BY <1>1 DEF TypeOK
<1> QED BY <1>1, <1>2, <1>3, <1>4, OwingTyped, SameConf DEF TypeOK

LEMMA PeerLostTyped ==
    ASSUME TypeOK, NEW i \in Inputs, PeerLost(i)
    PROVE  TypeOK'
<1>1. /\ mirror' = [mirror EXCEPT ![i] = None] /\ later = None
      /\ UNCHANGED <<conf, memory, vars, given, stack, later, history>>
  BY DEF PeerLost, Idle
<1>2. mirror' \in [Inputs -> Mirrored \cup {None}]
  BY <1>1 DEF TypeOK
<1> QED BY <1>1, <1>2, StackTyped, SameConf DEF TypeOK, history

\* Every step keeps the types.
LEMMA TypeStep ==
    ASSUME TypeOK, [Next]_allVars
    PROVE  TypeOK'
<1>1. CASE SkipRule
  BY <1>1, SkipTyped
<1>2. CASE ConsiderEntry
  BY <1>2, ConsiderTyped
<1>3. CASE SetOutput
  BY <1>3, SetOutputTyped
<1>4. CASE \E held \in BOOLEAN : SetVariable(held)
  BY <1>4, SetVariableTyped
<1>5. CASE EndPass
  BY <1>5, EndPassTyped
<1>6. CASE \E i \in Inputs, val \in Values, flag \in {0, 1}, held \in BOOLEAN :
              ValueChanges(i, val, flag, held)
  BY <1>6, ValueChangesTyped
<1>7. CASE FlagFollows
  <2>1. /\ later # None /\ later' = None /\ FlagSet(later.id, later.flag)
        /\ later.id \in Inputs /\ later.flag \in {0, 1} /\ mirror[later.id] # None
    BY <1>7 DEF FlagFollows, TypeOK
  <2> QED BY <2>1, FlagTyped
<1>8. CASE \E i \in Inputs : FlagChanges(i)
  <2>1. PICK i \in Inputs : FlagChanges(i)
    BY <1>8
  <2>2. /\ mirror[i] # None /\ FlagSet(i, 1 - mirror[i].flag) /\ later' = None
    BY <2>1 DEF FlagChanges, Idle
  <2>3. 1 - mirror[i].flag \in {0, 1}
    BY <2>2, MirrorTyped
  <2> QED BY <2>2, <2>3, FlagTyped
<1>9. CASE \E i \in Inputs, val \in Values, flag \in {0, 1}, held \in BOOLEAN :
              PeerReady(i, val, flag, held)
  BY <1>9, PeerReadyTyped
<1>10. CASE \E i \in Inputs : PeerLost(i)
  BY <1>10, PeerLostTyped
<1>11. CASE UNCHANGED allVars
  BY <1>11, StackTyped, SameConf DEF allVars, history, TypeOK
<1> QED BY <1>1, <1>2, <1>3, <1>4, <1>5, <1>6, <1>7, <1>8, <1>9, <1>10, <1>11 DEF Next

(* Passes are at rules and entries there are, what the debugger's flags wait for is a
   point that is there, and values, nodes and variables are what they can be. *)
THEOREM TypeOKHolds == Spec => []TypeOK
<1>1. Init => TypeOK
  BY InitTyped
<1>2. TypeOK /\ [Next]_allVars => TypeOK'
  BY TypeStep
<1> QED BY <1>1, <1>2, PTL DEF Spec

-----------------------------------------------------------------------------
(***************************************************************************)
(* What a step leaves as it was                                            *)
(***************************************************************************)

\* Value and references of an expression depend on what it stands for, on its node
\* and, unless it is frozen, on the input it refers to.
LEMMA ValueLocal ==
    ASSUME TypeOK, NEW e \in Expressions, Resolved(e)' = Resolved(e),
           Resolved(e).node # None => memory'[Resolved(e).node] = memory[Resolved(e).node],
           Resolved(e).ref \notin RefsOf(e) \/ Resolved(e).ref = None
              \/ mirror'[Resolved(e).ref] = mirror[Resolved(e).ref]
    PROVE  Value(e)' = Value(e) /\ RefsOf(e)' = RefsOf(e)
<1>1. PICK f : f = Resolved(e)
  OBVIOUS
<1>2. f \in Holdable /\ Resolved(e)' = f
  BY <1>1, ResolvedTyped
<1>3. /\ f.op = "eval" => f.node # None
      /\ f.ref = None <=> f.op = "lit"
      /\ e.op = "eval" => e.ref \notin Vars
      /\ e.ref = None <=> e.op = "lit"
  BY <1>2, FunctionsAssumption DEF Holdable, Expressions
<1>4. Frozen(f)' = Frozen(f) /\ (Frozen(f) => memory'[f.node] = memory[f.node])
  BY <1>1, <1>3 DEF Frozen
<1>5. f.ref \notin RefsOf(e) => Frozen(f) \/ f.op = "lit"
  BY <1>1 DEF RefsOf, DirectRefs
<1>6. Frozen(f) \/ f.op = "lit" \/ (Now(f)' = Now(f) /\ mirror'[f.ref] = mirror[f.ref])
  BY <1>1, <1>3, <1>5 DEF Now
<1>7. Value(e)' = Value(e)
  <2>1. CASE f.op = "lit"
    BY <1>1, <1>2, <2>1 DEF Value
  <2>2. CASE Frozen(f)
    <3>1. Value(e) = memory[f.node]
      BY <1>1, <2>2 DEF Value, Frozen
    <3>2. Value(e)' = memory'[f.node]
      BY <1>2, <1>4, <2>2 DEF Value, Frozen
    <3> QED BY <1>4, <2>2, <3>1, <3>2
  <2>3. CASE ~Frozen(f) /\ f.op # "lit"
    <3>1. Value(e) = IF Now(f) = Undefined THEN Undefined
                     ELSE IF f.op = "flag" THEN mirror[f.ref].flag ELSE Now(f)
      BY <1>1, <2>3 DEF Value
    <3>2. Value(e)' = IF Now(f)' = Undefined THEN Undefined
                      ELSE IF f.op = "flag" THEN mirror'[f.ref].flag ELSE Now(f)'
      BY <1>2, <1>4, <2>3 DEF Value, Frozen, Now
    <3> QED BY <1>6, <2>3, <3>1, <3>2
  <2> QED BY <2>1, <2>2, <2>3
<1>8. RefsOf(e)' = RefsOf(e)
  <2>1. DirectRefs(f)' = DirectRefs(f)
    BY <1>4 DEF DirectRefs
  <2>2. Frozen(e)' = Frozen(e)
    <3>1. e.op = "eval" => e = f
      BY <1>1, <1>3, ResolvedTyped
    <3> QED BY <1>4, <3>1 DEF Frozen
  <2>3. DirectRefs(e)' = DirectRefs(e)
    BY <2>2 DEF DirectRefs
  <2>4. RefsOf(e)' = DirectRefs(e)' \cup DirectRefs(f)'
    BY <1>2 DEF RefsOf, DirectRefs, Frozen
  <2> QED BY <1>1, <2>1, <2>3, <2>4 DEF RefsOf
<1> QED BY <1>7, <1>8

\* An evaluation changes no value, and takes away references only from rules with an
\* EVAL it met for the first time.
LEMMA Evaluated ==
    ASSUME TypeOK, OriginOK, UNCHANGED <<vars, mirror>>,
           NEW r \in DOMAIN rules, NEW d \in Exprs(rules[r]),
           NEW o \in Outcomes(d), memory' = o.memory,
           NEW q \in DOMAIN rules, NEW e \in Exprs(rules[q]), Resolved(e).op # "changed"
    PROVE  /\ Resolved(e)' = Resolved(e) /\ Value(e)' = Value(e)
           /\ RefsOf(e)' = RefsOf(e) \/ Targets(rules[q]) \cap Outputs \subseteq Affected(d)
<1>1. PICK f, g : f = Resolved(e) /\ g = Resolved(d)
  OBVIOUS
<1>2. Resolved(e)' = f
  BY <1>1 DEF Resolved
<1>3. e \in Expressions /\ d \in Expressions
  BY ConfTyped, ExprPlace
<1>4. f \in Holdable /\ g \in Holdable
  BY <1>1, <1>3, ResolvedTyped
<1>5. /\ f.node \in Nodes \cup {None}
      /\ None \notin Nodes /\ None \notin Inputs
  BY <1>4, FunctionsAssumption DEF Holdable, Expressions
<1>6. CASE f.node = None \/ memory'[f.node] = memory[f.node]
  BY <1>1, <1>2, <1>3, <1>6, ValueLocal
<1>7. CASE f.node # None /\ memory'[f.node] # memory[f.node]
  <2>1. /\ g.op \in {"eval", "changed"} /\ g.node \in Nodes /\ Now(g) # Undefined /\ ~Frozen(g)
        /\ memory' = Remembers(g)
    BY <1>1, <1>3, <1>7, OutcomeTyped
  <2>2. \A n \in Nodes : memory'[n] = IF n = g.node THEN Now(g) ELSE memory[n]
    BY <1>4, <2>1, RemembersTyped
  <2>3. f.node = g.node
    BY <1>5, <1>7, <2>2
  <2>4. f = g
    BY <1>1, <1>7, <2>3, SameNode
  <2>5. f.op = "eval"
    BY <1>1, <2>1, <2>4
  <2>6. FirstTime(d)
    BY <1>1, <2>1, <2>4, <2>5 DEF FirstTime
  <2>7. Targets(rules[q]) \cap Outputs \subseteq Affected(d)
    <3>1. rules[q] \in Range(rules)
      BY DEF Range
    <3> QED BY <1>1, <2>3, <2>6, <3>1 DEF Affected, Exprs
  <2>8. memory'[f.node] = Now(f) /\ Now(f) # Fresh
    <3>1. Now(f) \in Values \cup {Undefined}
      BY <1>4, NowTyped
    <3> QED BY <2>1, <2>2, <2>3, <2>4, <3>1, FunctionsAssumption
  <2>9. Value(e) = Now(f)
    BY <1>1, <2>1, <2>4, <2>5 DEF Value
  <2>10. Value(e)' = memory'[f.node]
    BY <1>2, <2>5, <2>8 DEF Value, Frozen
  <2> QED BY <1>1, <1>2, <2>7, <2>8, <2>9, <2>10
<1> QED BY <1>6, <1>7

-----------------------------------------------------------------------------
(***************************************************************************)
(* Where assignments and the expressions of variables come from            *)
(***************************************************************************)

\* The assignment at hand is one of the rule before the one the pass is at.
LEMMA HeadFrom ==
    ASSUME TypeOK, PassesOK, Assigning
    PROVE  /\ Top.rule - 1 \in DOMAIN rules
           /\ \E k \in DOMAIN rules[Top.rule - 1] :
                 LET sets == rules[Top.rule - 1][k].sets
                     m == Len(sets) - Len(Top.left) + 1
                 IN  /\ Rest(Top.left, sets) /\ m \in DOMAIN sets
                     /\ Head(Top.left) = sets[m]
                     /\ Plain(Top.rule - 1) =>
                           \/ Decides(rules[Top.rule - 1], k)
                           \/ Targets(rules[Top.rule - 1]) \subseteq unclear
<1>1. stack # <<>> /\ Top.left # <<>>
  BY DEF Assigning
<1>2. /\ Top = stack[Len(stack)] /\ Len(stack) \in DOMAIN stack
      /\ Top.rule \in 1 .. Len(rules) + 1 /\ Len(rules) \in Nat /\ DOMAIN rules = 1 .. Len(rules)
  BY <1>1, TopTyped, MovedFields, ConfTyped
<1>3. Top.rule - 1 \in DOMAIN rules
  BY <1>1, <1>2 DEF PassesOK, LeftOf
<1>4. PICK k \in DOMAIN rules[Top.rule - 1] :
         /\ Rest(Top.left, rules[Top.rule - 1][k].sets)
         /\ Plain(Top.rule - 1) =>
               \/ Decides(rules[Top.rule - 1], k)
               \/ Targets(rules[Top.rule - 1]) \subseteq unclear
  BY <1>1, <1>2 DEF PassesOK, LeftOf
<1>5. PICK sets : sets = rules[Top.rule - 1][k].sets
  OBVIOUS
<1>6. Len(sets) \in Nat /\ DOMAIN sets = 1 .. Len(sets)
  BY <1>3, <1>5, ConfTyped, RuleTyped
<1>7. Head(Top.left) = Top.left[1] /\ Len(Top.left) \in Nat /\ Len(Top.left) >= 1
  BY <1>1, MovedTyped
<1>8. PICK l : l = Len(Top.left)
  OBVIOUS
<1>9. l <= Len(sets) /\ \A j \in 1 .. l : Top.left[j] = sets[Len(sets) - l + j]
  BY <1>4, <1>5, <1>8 DEF Rest
<1>10. Len(sets) - l + 1 \in DOMAIN sets /\ Head(Top.left) = sets[Len(sets) - l + 1]
  <2>1. l \in Nat /\ l >= 1 /\ 1 \in 1 .. l
    BY <1>7, <1>8
  <2>2. Top.left[1] = sets[Len(sets) - l + 1]
    BY <1>9, <2>1
  <2> QED BY <1>6, <1>7, <1>9, <2>1, <2>2
<1> QED BY <1>3, <1>4, <1>5, <1>8, <1>10

\* Every step keeps where the expressions of variables come from.
LEMMA OriginStep ==
    ASSUME TypeOK, OriginOK, PassesOK, [Next]_allVars
    PROVE  OriginOK'
<1>1. ASSUME UNCHANGED <<conf, vars>> PROVE OriginOK'
  BY <1>1 DEF OriginOK, rules
<1>2. ASSUME NEW held \in BOOLEAN, SetVariable(held) PROVE OriginOK'
  <2>1. Assigning /\ conf' = conf
    BY <1>2 DEF SetVariable
  <2>2. CASE vars' = vars
    BY <1>1, <2>1, <2>2
  <2>3. CASE vars' = [vars EXCEPT ![Head(Top.left).target] = Head(Top.left).rval]
    <3>1. PICK q, k : q \in DOMAIN rules /\ k \in DOMAIN rules[q] /\
             \E m \in DOMAIN rules[q][k].sets : Head(Top.left) = rules[q][k].sets[m]
      BY <2>1, HeadFrom
    <3>2. PICK m \in DOMAIN rules[q][k].sets : Head(Top.left) = rules[q][k].sets[m]
      BY <3>1
    <3>3. PICK t, e : t = Head(Top.left).target /\ e = Head(Top.left).rval
      OBVIOUS
    <3>4. Head(Top.left) = Set(t, e)
      BY <2>1, <3>3, AtHand DEF Assignments, Set
    <3> SUFFICES ASSUME NEW v \in Vars
                 PROVE  \/ vars'[v] = conf.vars[v]
                        \/ \E r \in DOMAIN rules : \E j \in DOMAIN rules[r] :
                              \E l \in DOMAIN rules[r][j].sets :
                                 rules[r][j].sets[l] = Set(v, vars'[v])
      BY <2>1 DEF OriginOK, rules
    <3>5. CASE v = t
      <4>1. vars'[v] = e
        BY <2>3, <3>3, <3>5 DEF TypeOK
      <4> QED BY <3>1, <3>2, <3>4, <3>5, <4>1
    <3>6. CASE v # t
      <4>1. vars'[v] = vars[v]
        BY <2>3, <3>3, <3>6 DEF TypeOK
      <4> QED BY <4>1 DEF OriginOK
    <3> QED BY <3>5, <3>6
  <2> QED BY <1>2, <2>2, <2>3 DEF SetVariable
<1>3. CASE SkipRule
  BY <1>1, <1>3 DEF SkipRule
<1>4. CASE ConsiderEntry
  BY <1>1, <1>4 DEF ConsiderEntry
<1>5. CASE SetOutput
  BY <1>1, <1>5 DEF SetOutput
<1>6. CASE EndPass
  BY <1>1, <1>6 DEF EndPass
<1>7. CASE \E i \in Inputs, val \in Values, flag \in {0, 1}, held \in BOOLEAN :
              ValueChanges(i, val, flag, held)
  BY <1>1, <1>7 DEF ValueChanges
<1>8. CASE FlagFollows
  BY <1>1, <1>8 DEF FlagFollows, FlagSet
<1>9. CASE \E i \in Inputs : FlagChanges(i)
  BY <1>1, <1>9 DEF FlagChanges, FlagSet
<1>10. CASE \E i \in Inputs, val \in Values, flag \in {0, 1}, held \in BOOLEAN :
              PeerReady(i, val, flag, held)
  BY <1>1, <1>10 DEF PeerReady
<1>11. CASE \E i \in Inputs : PeerLost(i)
  BY <1>1, <1>11 DEF PeerLost
<1>12. CASE UNCHANGED allVars
  BY <1>1, <1>12 DEF allVars
<1> QED BY <1>2, <1>3, <1>4, <1>5, <1>6, <1>7, <1>8, <1>9, <1>10, <1>11, <1>12 DEF Next

-----------------------------------------------------------------------------
(***************************************************************************)
(* CHANGED                                                                 *)
(***************************************************************************)

\* Every step keeps last the value of a known input.
LEMMA LastStep ==
    ASSUME TypeOK, LastOK, [Next]_allVars
    PROVE  LastOK'
<1>1. ASSUME UNCHANGED <<mirror, last>> PROVE LastOK'
  BY <1>1 DEF LastOK
<1>2. ASSUME NEW i \in Inputs, NEW val \in Values, NEW flag \in {0, 1}, NEW held \in BOOLEAN,
             ValueChanges(i, val, flag, held)
      PROVE  LastOK'
  <2>1. /\ mirror' = [mirror EXCEPT ![i].val = val] /\ mirror[i] # None
        /\ last' = [last EXCEPT ![i] = val]
    BY <1>2 DEF ValueChanges
  <2>2. mirror'[i].val = val /\ \A j \in Inputs \ {i} : mirror'[j] = mirror[j]
    BY <2>1, MirrorTyped DEF TypeOK, Mirrored
  <2> QED BY <2>1, <2>2 DEF LastOK, TypeOK
<1>3. ASSUME NEW i \in Inputs, NEW flag, mirror[i] # None, FlagSet(i, flag)
      PROVE  LastOK'
  <2>1. mirror' = [mirror EXCEPT ![i].flag = flag] /\ last' = last
    BY <1>3 DEF FlagSet
  <2>2. mirror'[i].val = mirror[i].val /\ \A j \in Inputs \ {i} : mirror'[j] = mirror[j]
    BY <1>3, <2>1, MirrorTyped DEF TypeOK, Mirrored
  <2> QED BY <1>3, <2>1, <2>2 DEF LastOK, TypeOK
<1>4. ASSUME NEW i \in Inputs, NEW val \in Values, NEW flag \in {0, 1}, NEW held \in BOOLEAN,
             PeerReady(i, val, flag, held)
      PROVE  LastOK'
  BY <1>4 DEF PeerReady, LastOK, TypeOK
<1>5. ASSUME NEW i \in Inputs, PeerLost(i) PROVE LastOK'
  BY <1>5 DEF PeerLost, LastOK, TypeOK, history
<1>6. CASE SkipRule
  BY <1>1, <1>6 DEF SkipRule, history
<1>7. CASE ConsiderEntry
  BY <1>1, <1>7 DEF ConsiderEntry
<1>8. CASE SetOutput
  BY <1>1, <1>8 DEF SetOutput
<1>9. CASE \E held \in BOOLEAN : SetVariable(held)
  BY <1>1, <1>9 DEF SetVariable
<1>10. CASE EndPass
  BY <1>1, <1>10 DEF EndPass, history
<1>11. CASE FlagFollows
  BY <1>3, <1>11 DEF FlagFollows, TypeOK
<1>12. CASE \E i \in Inputs : FlagChanges(i)
  BY <1>3, <1>12 DEF FlagChanges
<1>13. CASE UNCHANGED allVars
  BY <1>1, <1>13 DEF allVars, history
<1> QED BY <1>2, <1>4, <1>5, <1>6, <1>7, <1>8, <1>9, <1>10, <1>11, <1>12, <1>13 DEF Next

LEMMA NotEmpty == ASSUME NEW s, 1 \in DOMAIN s PROVE s # <<>>
OBVIOUS

LEMMA OneOrMore == ASSUME NEW n \in Nat, n >= 1 PROVE n > 1 \/ n = 1
OBVIOUS

\* The CHANGED a rule begins with.
LEMMA Reporter ==
    ASSUME TypeOK, NEW q \in DOMAIN rules, rules[q][1].cond.op = "changed"
    PROVE  /\ rules[q] \in Rules /\ 1 \in DOMAIN rules[q]
           /\ rules[q][1].cond \in Expressions /\ rules[q][1].cond \in Holdable
           /\ rules[q][1].cond.node \in Nodes /\ rules[q][1].cond.node # None
           /\ rules[q][1].cond.ref \in Inputs
           /\ rules[q][1].cond = Changed(rules[q][1].cond.node, rules[q][1].cond.ref)
           /\ Resolved(rules[q][1].cond) = rules[q][1].cond
           /\ \A id \in {rules[q][1].cond.ref, None} : Concerns(rules[q], id)
<1>1. PICK e : e = rules[q][1].cond
  OBVIOUS
<1>2. rules[q] \in Rules /\ 1 \in DOMAIN rules[q] /\ e \in Expressions /\ e \in Exprs(rules[q])
  BY <1>1, ConfTyped, RuleTyped
<1>3. /\ e.node \in Nodes /\ e.node # None /\ e.ref \in Inputs /\ e \in Holdable
      /\ e.ref \notin Vars
  BY <1>1, <1>2, FunctionsAssumption DEF Expressions, Holdable
<1>4. e = Changed(e.node, e.ref)
  BY <1>1, <1>2 DEF Expressions, Changed, Node
<1>5. Resolved(e) = e
  BY <1>2, <1>3, ResolvedTyped
<1>6. e.ref \in RefsOf(e)
  BY <1>1 DEF RefsOf, DirectRefs, Frozen
<1>7. \A id \in {e.ref, None} : Concerns(rules[q], id)
  BY <1>2, <1>6 DEF Concerns, Exprs
<1> QED BY <1>1, <1>2, <1>3, <1>4, <1>5, <1>7

\* What it has to report stays when nothing of it changes and the first pass only goes
\* on towards the rule.
LEMMA ReportKept ==
    ASSUME TypeOK, NEW q \in DOMAIN rules, rules[q][1].cond.op = "changed", ReportOf(q),
           conf' = conf, last' = last,
           owed'[rules[q][1].cond.node] = owed[rules[q][1].cond.node],
           memory'[rules[q][1].cond.node] = memory[rules[q][1].cond.node],
           mirror[rules[q][1].cond.ref] # None => mirror'[rules[q][1].cond.ref] # None,
           \/ owed[rules[q][1].cond.node] # "yes"
           \/ stack' # <<>> /\ stack'[1].id = stack[1].id /\ WillCome(1, q)'
    PROVE  ReportOf(q)'
<1>1. PICK n, i : n = rules[q][1].cond.node /\ i = rules[q][1].cond.ref
  OBVIOUS
<1>2. rules'[q][1].cond.node = n /\ rules'[q][1].cond.ref = i
  BY <1>1 DEF rules
<1> QED BY <1>1, <1>2 DEF ReportOf

\* An evaluation elsewhere does not touch its node.
LEMMA ElsewhereKept ==
    ASSUME TypeOK, OriginOK, NEW q \in DOMAIN rules, rules[q][1].cond.op = "changed",
           NEW d \in Expressions, NEW o \in Outcomes(d), memory' = o.memory,
           d.node # rules[q][1].cond.node
    PROVE  memory'[rules[q][1].cond.node] = memory[rules[q][1].cond.node]
<1>1. PICK n : n = rules[q][1].cond.node
  OBVIOUS
<1>2. n \in Nodes /\ n # None /\ 1 \in DOMAIN rules[q]
  BY <1>1, Reporter
<1>3. \A v \in Vars : vars[v].node # n
  BY <1>1, <1>2, CondNode
<1>4. Resolved(d).node # n
  BY <1>1, <1>3, ResolvedTyped
<1>5. Resolved(d) \in Holdable
  BY ResolvedTyped
<1>6. memory' = memory \/ (memory' = Remembers(Resolved(d)) /\ Now(Resolved(d)) # Undefined)
  BY OutcomeTyped
<1>7. memory'[n] = memory[n]
  BY <1>2, <1>4, <1>5, <1>6, RemembersTyped
<1> QED BY <1>1, <1>7

\* A rule that begins with a CHANGED of the input is not passed over.
LEMMA ReportsSkip ==
    ASSUME TypeOK, ReportsOK, SkipRule, NEW q \in DOMAIN rules, rules[q][1].cond.op = "changed"
    PROVE  ReportOf(q)'
<1>1. /\ stack # <<>> /\ Top.left = <<>> /\ Top.rule <= Len(rules) /\ Top.entry = 1
      /\ ~Concerns(rules[Top.rule], Top.id) /\ stack' = NextRule(<<>>)
      /\ UNCHANGED <<conf, mirror, memory, vars, given, later, history>>
  BY DEF SkipRule
<1>2. PICK t : t = [Top EXCEPT !.rule = @ + 1, !.entry = 1, !.left = <<>>]
  OBVIOUS
<1>3. t \in Passes /\ t.id = Top.id /\ t.rule = Top.rule + 1 /\ t.entry = 1
  <2>1. <<>> \in Seq(Assignments)
    OBVIOUS
  <2> QED BY <1>1, <1>2, <2>1, MovedTyped, MovedFields
<1>4. /\ DOMAIN stack' = 1 .. Len(stack) /\ Len(stack) >= 1 /\ Len(stack) \in Nat
      /\ stack'[Len(stack)] = t
      /\ \A p \in 1 .. Len(stack) - 1 : stack'[p] = stack[p]
      /\ Top = stack[Len(stack)] /\ Top.rule \in Nat
  <2>1. stack' = OnTop(t)
    BY <1>1, <1>2 DEF NextRule
  <2>2. Len(stack) >= 1 /\ Len(stack) \in Nat /\ Top = stack[Len(stack)] /\ Top.rule \in Nat
    BY <1>1, TopTyped, MovedFields
  <2> QED BY <1>1, <1>3, <2>1, <2>2, OnTopTyped
<1>5. ReportOf(q)
  BY DEF ReportsOK
<1>6. q \in Nat
  BY ConfTyped
<1>7. ASSUME owed[rules[q][1].cond.node] = "yes"
      PROVE  stack' # <<>> /\ stack'[1].id = stack[1].id /\ WillCome(1, q)'
  <2>1. stack[1].id \in {rules[q][1].cond.ref, None} /\ WillCome(1, q)
    BY <1>5, <1>7 DEF ReportOf
  <2>2. CASE Len(stack) > 1
    <3>1. stack'[1] = stack[1] /\ 1 \in DOMAIN stack'
      BY <1>4, <2>2
    <3> QED BY <2>1, <3>1, NotEmpty DEF WillCome
  <2>3. CASE Len(stack) = 1
    <3>1. Concerns(rules[q], Top.id)
      BY <1>4, <2>1, <2>3, Reporter
    <3>2. Top.rule < q
      BY <1>1, <1>4, <2>1, <2>3, <3>1 DEF WillCome
    <3>3. stack'[1] = t /\ 1 \in DOMAIN stack'
      BY <1>4, <2>3
    <3> QED BY <1>3, <1>4, <1>6, <2>3, <3>2, <3>3, NotEmpty DEF WillCome
  <2>4. Len(stack) > 1 \/ Len(stack) = 1
    BY <1>4, OneOrMore
  <2> QED BY <2>2, <2>3, <2>4
<1> QED BY <1>1, <1>5, <1>7, ReportKept DEF history

\* The CHANGED is evaluated as its rule is come to, and nowhere else.
LEMMA ReportsConsider ==
    ASSUME TypeOK, OriginOK, LastOK, ReportsOK, ConsiderEntry,
           NEW q \in DOMAIN rules, rules[q][1].cond.op = "changed"
    PROVE  ReportOf(q)'
<1>1. /\ stack # <<>> /\ Top.rule <= Len(rules)
      /\ UNCHANGED <<conf, mirror, vars, given, later, stale, last>>
  BY DEF ConsiderEntry
<1>2. PICK d : d = rules[Top.rule][Top.entry].cond
  OBVIOUS
<1>3. PICK sets : sets = rules[Top.rule][Top.entry].sets
  OBVIOUS
<1>4. PICK o \in Outcomes(d) :
         /\ memory' = o.memory
         /\ owed' = Reported(d, o.val)
         /\ stack' = IF o.val = 0 /\ Top.entry < Len(rules[Top.rule])
                     THEN OnTop([Top EXCEPT !.entry = @ + 1])
                     ELSE NextRule(IF o.val \in {0, Undefined} THEN <<>> ELSE sets)
  BY <1>2, <1>3 DEF ConsiderEntry
<1>5. /\ Top.rule \in DOMAIN rules /\ Top.entry \in DOMAIN rules[Top.rule]
      /\ d \in Expressions /\ sets \in Seq(Assignments)
  BY <1>1, <1>2, <1>3, AtEntry
<1>6. PICK n, i : n = rules[q][1].cond.node /\ i = rules[q][1].cond.ref
  OBVIOUS
<1>7. /\ n \in Nodes /\ n # None /\ i \in Inputs /\ 1 \in DOMAIN rules[q] /\ q \in Nat
      /\ Top.rule \in Nat /\ Len(stack) \in Nat /\ Len(stack) >= 1
      /\ Top = stack[Len(stack)] /\ Top.entry \in Nat
  BY <1>1, <1>6, Reporter, ConfTyped, TopTyped, MovedFields
<1>8. ReportOf(q)
  BY DEF ReportsOK
<1>9. /\ \A p \in 1 .. Len(stack) - 1 : stack'[p] = stack[p]
      /\ DOMAIN stack' = 1 .. Len(stack)
      /\ stack'[Len(stack)].id = Top.id
      /\ \/ stack'[Len(stack)].rule = Top.rule
         \/ stack'[Len(stack)].rule = Top.rule + 1 /\ stack'[Len(stack)].entry = 1
  <2>1. CASE stack' = OnTop([Top EXCEPT !.entry = @ + 1])
             /\ Top.entry < Len(rules[Top.rule])
    <3>1. PICK t : t = [Top EXCEPT !.entry = @ + 1]
      OBVIOUS
    <3>2. t \in Passes /\ t.id = Top.id /\ t.rule = Top.rule
      BY <1>1, <2>1, <3>1, MovedTyped, MovedFields
    <3> QED BY <1>1, <2>1, <3>1, <3>2, OnTopTyped
  <2>2. ASSUME NEW s \in Seq(Assignments), stack' = NextRule(s)
        PROVE  /\ \A p \in 1 .. Len(stack) - 1 : stack'[p] = stack[p]
               /\ DOMAIN stack' = 1 .. Len(stack)
               /\ stack'[Len(stack)].id = Top.id
               /\ stack'[Len(stack)].rule = Top.rule + 1 /\ stack'[Len(stack)].entry = 1
    <3>1. PICK t : t = [Top EXCEPT !.rule = @ + 1, !.entry = 1, !.left = s]
      OBVIOUS
    <3>2. t \in Passes /\ t.id = Top.id /\ t.rule = Top.rule + 1 /\ t.entry = 1
      BY <1>1, <3>1, MovedTyped, MovedFields
    <3> QED BY <1>1, <2>2, <3>1, <3>2, OnTopTyped DEF NextRule
  <2>3. <<>> \in Seq(Assignments)
    OBVIOUS
  <2> QED BY <1>4, <1>5, <2>1, <2>2, <2>3
<1>10. CASE Top.rule = q /\ Top.entry = 1
  <2>1. d = rules[q][1].cond /\ d.op = "changed" /\ Resolved(d) = d /\ d.node = n /\ d.ref = i
    BY <1>2, <1>6, <1>10, Reporter
  <2>2. Now(d) = IF mirror[i] = None THEN Undefined ELSE mirror[i].val
    BY <1>7, <2>1, FunctionsAssumption DEF Now
  <2>3. rules'[q][1].cond.node = n /\ rules'[q][1].cond.ref = i
    BY <1>1, <1>6 DEF rules
  <2>4. /\ owed[n] # "twice"
        /\ owed[n] = "no" => memory[n] = last[i] \/ (memory[n] = Fresh /\ last[i] = None)
        /\ owed[n] = "yes" => memory[n] # last[i] /\ mirror[i] # None
    BY <1>6, <1>8 DEF ReportOf
  <2>5. owed'[n] = IF o.val = 1 /\ owed[n] # "held"
                   THEN IF owed[n] = "yes" THEN "no" ELSE "twice" ELSE owed[n]
    BY <1>4, <1>7, <2>1 DEF Reported
  <2>6. d \in Holdable
    BY <2>1, Reporter
  <2>7. CASE mirror[i] = None
    <3>1. o.val = Undefined /\ memory' = memory
      BY <1>4, <1>5, <2>1, <2>2, <2>7, OutcomeTyped
    <3>2. o.val # 1
      BY <3>1, FunctionsAssumption
    <3> QED BY <1>1, <2>3, <2>4, <2>5, <2>7, <3>1, <3>2 DEF ReportOf
  <2>8. CASE mirror[i] # None
    <3>1. mirror[i].val = last[i] /\ last[i] \in Values
      BY <1>7, <2>8, MirrorTyped DEF LastOK
    <3>2. Now(d) = last[i] /\ Now(d) # Undefined /\ last[i] # None
      BY <2>2, <2>8, <3>1, FunctionsAssumption
    <3>3. memory' = Remembers(d) /\ o.val = IF last[i] = memory[n] THEN 0 ELSE 1
      BY <1>4, <1>5, <2>1, <3>2, OutcomeTyped
    <3>4. memory'[n] = last[i]
      BY <1>7, <2>1, <2>6, <3>2, <3>3, RemembersTyped
    <3>5. owed'[n] \in {"no", "held"}
      BY <1>7, <2>4, <2>5, <3>2, <3>3 DEF TypeOK
    <3> QED BY <1>1, <2>3, <3>4, <3>5 DEF ReportOf
  <2> QED BY <2>7, <2>8
<1>11. CASE ~(Top.rule = q /\ Top.entry = 1)
  <2>1. d.node # n
    BY <1>2, <1>5, <1>6, <1>7, <1>11, CondNode
  <2>2. memory'[n] = memory[n]
    BY <1>4, <1>5, <1>6, <2>1, ElsewhereKept
  <2>3. owed'[n] = owed[n]
    BY <1>4, <1>7, <2>1 DEF Reported
  <2>4. ASSUME owed[n] = "yes"
        PROVE  stack' # <<>> /\ stack'[1].id = stack[1].id /\ WillCome(1, q)'
    <3>1. WillCome(1, q)
      BY <1>6, <1>8, <2>4 DEF ReportOf
    <3>2. 1 \in DOMAIN stack'
      BY <1>7, <1>9
    <3>3. CASE Len(stack) > 1
      <4>1. stack'[1] = stack[1]
        BY <1>7, <1>9, <3>3
      <4> QED BY <3>1, <3>2, <4>1, NotEmpty DEF WillCome
    <3>4. CASE Len(stack) = 1
      <4>1. Top.rule < q
        BY <1>7, <1>11, <3>1, <3>4 DEF WillCome
      <4>2. /\ stack'[1].id = stack[1].id
            /\ stack'[1].rule = Top.rule \/ (stack'[1].rule = Top.rule + 1 /\ stack'[1].entry = 1)
        BY <1>7, <1>9, <3>4
      <4>3. stack'[1].rule < q \/ (stack'[1].rule = q /\ stack'[1].entry = 1)
        BY <1>7, <4>1, <4>2
      <4> QED BY <3>2, <4>2, <4>3, NotEmpty DEF WillCome
    <3>5. Len(stack) > 1 \/ Len(stack) = 1
      BY <1>7, OneOrMore
    <3> QED BY <3>3, <3>4, <3>5
  <2> QED BY <1>1, <1>6, <1>8, <2>2, <2>3, <2>4, ReportKept
<1> QED BY <1>10, <1>11

\* The first pass while an assignment is done, with or without a pass for it.
LEMMA FirstKept ==
    ASSUME TypeOK, Assigning, NEW q,
           \/ stack' = Done
           \/ \E id \in Inputs \cup Vars \cup {None} : \E held \in BOOLEAN : Notice(id, Done, held)
    PROVE  /\ stack' # <<>> /\ stack'[1].id = stack[1].id
           /\ stack'[1].rule = stack[1].rule /\ stack'[1].entry = stack[1].entry
           /\ WillCome(1, q) => WillCome(1, q)'
<1>1. /\ stack # <<>> /\ Done \in Seq(Passes) /\ Len(Done) = Len(stack)
      /\ Done[Len(stack)] = [Top EXCEPT !.left = Tail(@)]
      /\ \A p \in 1 .. Len(stack) - 1 : Done[p] = stack[p]
  BY AtHand
<1>2. Len(stack) \in Nat /\ Len(stack) >= 1 /\ Top = stack[Len(stack)]
  BY <1>1, TopTyped
<1>3. PICK t : t = [Top EXCEPT !.left = Tail(@)]
  OBVIOUS
<1>4. t.id = Top.id /\ t.rule = Top.rule /\ t.entry = Top.entry
  BY <1>1, <1>3, MovedFields
<1>5. /\ Done[1].id = stack[1].id /\ Done[1].rule = stack[1].rule
      /\ Done[1].entry = stack[1].entry
  <2>1. CASE Len(stack) > 1
    BY <1>1, <1>2, <2>1
  <2>2. CASE Len(stack) = 1
    BY <1>1, <1>2, <1>3, <1>4, <2>2
  <2>3. Len(stack) > 1 \/ Len(stack) = 1
    BY <1>2, OneOrMore
  <2> QED BY <2>1, <2>2, <2>3
<1>6. 1 \in 1 .. Len(Done) /\ DOMAIN Done = 1 .. Len(Done) /\ Len(Done) \in Nat
  BY <1>1, <1>2
<1>7. stack'[1] = Done[1] /\ 1 \in DOMAIN stack'
  <2>1. CASE stack' = Done
    BY <1>6, <2>1
  <2>2. CASE \E id \in Inputs \cup Vars \cup {None} : \E held \in BOOLEAN : Notice(id, Done, held)
    <3>1. PICK id \in Inputs \cup Vars \cup {None}, held \in BOOLEAN : Notice(id, Done, held)
      BY <2>2
    <3>2. /\ \A p \in 1 .. Len(Done) : stack'[p] = Done[p]
          /\ held => stack' = Done
          /\ ~held => DOMAIN stack' = 1 .. Len(Done) + 1
      <4>1. PICK s \in Seq(Passes) : s = Done
        BY <1>1
      <4>2. Notice(id, s, held)
        BY <3>1, <4>1
      <4>3. /\ \A p \in 1 .. Len(s) : stack'[p] = s[p]
            /\ held => stack' = s
            /\ ~held => DOMAIN stack' = 1 .. Len(s) + 1
        BY <4>2, NoticeTyped
      <4> QED BY <4>1, <4>3
    <3>3. 1 \in 1 .. Len(Done) + 1
      BY <1>6
    <3> QED BY <1>6, <3>2, <3>3
  <2> QED BY <2>1, <2>2
<1> QED BY <1>5, <1>7, NotEmpty DEF WillCome

\* An assignment evaluates no CHANGED that begins a rule.
LEMMA ReportsAssign ==
    ASSUME TypeOK, OriginOK, ReportsOK, PassesOK, Assigning,
           UNCHANGED <<conf, mirror, last, owed>>,
           \/ memory' = memory
           \/ \E o \in Outcomes(Head(Top.left).rval) : memory' = o.memory,
           \/ stack' = Done
           \/ \E id \in Inputs \cup Vars \cup {None} : \E held \in BOOLEAN : Notice(id, Done, held),
           NEW q \in DOMAIN rules, rules[q][1].cond.op = "changed"
    PROVE  ReportOf(q)'
<1>1. ReportOf(q)
  BY DEF ReportsOK
<1>2. PICK d : d = Head(Top.left).rval
  OBVIOUS
<1>3. d \in Expressions
  BY <1>2, AtHand
<1>4. PICK n : n = rules[q][1].cond.node
  OBVIOUS
<1>5. d.node # n
  <2>1. PICK k \in DOMAIN rules[Top.rule - 1] :
           \E m \in DOMAIN rules[Top.rule - 1][k].sets :
              Head(Top.left) = rules[Top.rule - 1][k].sets[m]
    BY HeadFrom
  <2>2. Top.rule - 1 \in DOMAIN rules
    BY HeadFrom
  <2>3. n # None /\ 1 \in DOMAIN rules[q]
    BY <1>4, Reporter
  <2> QED BY <1>2, <1>4, <2>1, <2>2, <2>3, CondNode
<1>6. memory'[n] = memory[n]
  BY <1>2, <1>3, <1>4, <1>5, ElsewhereKept
<1>7. stack' # <<>> /\ stack'[1].id = stack[1].id /\ (WillCome(1, q) => WillCome(1, q)')
  BY FirstKept
<1>8. \/ owed[n] # "yes"
      \/ stack' # <<>> /\ stack'[1].id = stack[1].id /\ WillCome(1, q)'
  BY <1>1, <1>4, <1>7 DEF ReportOf
<1> QED BY <1>1, <1>4, <1>6, <1>8, ReportKept

\* A pass ends after the last rule.
LEMMA ReportsEnd ==
    ASSUME TypeOK, ReportsOK, EndPass, NEW q \in DOMAIN rules, rules[q][1].cond.op = "changed"
    PROVE  ReportOf(q)'
<1>1. /\ stack # <<>> /\ Top.rule > Len(rules) /\ stack' = Below
      /\ UNCHANGED <<conf, mirror, memory, vars, given, later, history>>
  BY DEF EndPass
<1>2. /\ Len(stack) \in Nat /\ Len(stack) >= 1 /\ Top = stack[Len(stack)]
      /\ DOMAIN Below = 1 .. Len(stack) - 1
      /\ \A p \in 1 .. Len(stack) - 1 : Below[p] = stack[p]
      /\ Top.rule \in Nat
  BY <1>1, TopTyped, MovedFields
<1>3. ReportOf(q) /\ q \in Nat /\ q <= Len(rules) /\ Len(rules) \in Nat
  BY ConfTyped DEF ReportsOK
<1>4. ASSUME owed[rules[q][1].cond.node] = "yes"
      PROVE  stack' # <<>> /\ stack'[1].id = stack[1].id /\ WillCome(1, q)'
  <2>1. WillCome(1, q)
    BY <1>3, <1>4 DEF ReportOf
  <2>2. Len(stack) # 1
    BY <1>1, <1>2, <1>3, <2>1 DEF WillCome
  <2>3. Len(stack) > 1
    BY <1>2, <2>2, OneOrMore
  <2>4. 1 \in DOMAIN stack' /\ stack'[1] = stack[1]
    BY <1>1, <1>2, <2>3
  <2> QED BY <2>1, <2>4, NotEmpty DEF WillCome
<1> QED BY <1>1, <1>3, <1>4, ReportKept DEF history

\* A value that comes: it has to be reported when it is another than the last.
LEMMA ReportsValue ==
    ASSUME TypeOK, OriginOK, ReportsOK, Idle, NEW i \in Inputs, NEW val \in Values,
           NEW held \in BOOLEAN, NEW id \in {i, None}, Notice(id, <<>>, held),
           owed' = Owing(i, val, held), last' = [last EXCEPT ![i] = val],
           UNCHANGED <<conf, memory>>, mirror'[i] # None,
           NEW q \in DOMAIN rules, rules[q][1].cond.op = "changed"
    PROVE  ReportOf(q)'
<1>1. PICK n, j : n = rules[q][1].cond.node /\ j = rules[q][1].cond.ref
  OBVIOUS
<1>2. /\ n \in Nodes /\ n # None /\ j \in Inputs /\ 1 \in DOMAIN rules[q] /\ q \in Nat /\ q >= 1
      /\ rules[q][1].cond = Changed(n, j)
  BY <1>1, Reporter, ConfTyped
<1>3. /\ owed[n] # "twice"
      /\ owed[n] = "no" => memory[n] = last[j] \/ (memory[n] = Fresh /\ last[j] = None)
      /\ owed[n] # "yes"
  BY <1>1 DEF ReportsOK, ReportOf, Idle
<1>4. rules'[q][1].cond.node = n /\ rules'[q][1].cond.ref = j
  BY <1>1 DEF rules
<1>5. owed[n] \in {"no", "held"}
  BY <1>2, <1>3 DEF TypeOK
<1>6. Changed(n, j) \in UNION {Conditions(r) : r \in Range(rules)}
  <2>1. rules[q][1].cond \in Conditions(rules[q]) /\ rules[q] \in Range(rules)
    BY <1>2 DEF Conditions, Range
  <2> QED BY <1>2, <2>1
<1>7. CASE j # i
  <2>1. Changed(n, i) \notin UNION {Conditions(r) : r \in Range(rules)}
    <3> SUFFICES ASSUME NEW r \in DOMAIN rules, Changed(n, i) \in Conditions(rules[r])
                 PROVE  FALSE
      BY DEF Range
    <3>1. PICK k \in DOMAIN rules[r] : rules[r][k].cond = Changed(n, i)
      BY DEF Conditions, Range
    <3>2. rules[r][k].cond.node = n /\ rules[r][k].cond.ref = i
      BY <3>1 DEF Changed, Node
    <3>3. r = q /\ k = 1
      <4>1. rules[q][1].cond.node # None /\ 1 \in DOMAIN rules[q]
        BY <1>1, <1>2
      <4>2. \A s \in DOMAIN rules : \A l \in DOMAIN rules[s] :
               rules[s][l].cond.node = rules[q][1].cond.node => s = q /\ l = 1
        BY <4>1, CondNode
      <4> QED BY <1>1, <3>2, <4>2
    <3> QED BY <1>1, <1>7, <3>2, <3>3
  <2>2. owed'[n] = owed[n]
    BY <1>2, <2>1 DEF Owing
  <2>3. last'[j] = last[j]
    BY <1>2, <1>7 DEF TypeOK
  <2> QED BY <1>3, <1>4, <1>5, <2>2, <2>3 DEF ReportOf
<1>8. CASE j = i
  <2>1. owed'[n] = IF held \/ owed[n] = "held" THEN "held"
                   ELSE IF val = last[i] THEN owed[n]
                   ELSE IF owed[n] = "no" THEN "yes" ELSE "twice"
    BY <1>2, <1>6, <1>8 DEF Owing
  <2>2. last'[i] = val /\ memory' = memory
    BY DEF TypeOK
  <2>3. CASE held \/ owed[n] = "held"
    <3>1. owed'[n] = "held"
      BY <2>1, <2>3
    <3> QED BY <1>4, <3>1 DEF ReportOf
  <2>4. CASE ~held /\ owed[n] = "no" /\ val = last[i]
    <3>1. owed'[n] = "no" /\ memory[n] = val
      BY <1>3, <1>8, <2>1, <2>4, FunctionsAssumption
    <3> QED BY <1>4, <1>8, <2>2, <3>1 DEF ReportOf
  <2>5. CASE ~held /\ owed[n] = "no" /\ val # last[i]
    <3>1. owed'[n] = "yes" /\ memory[n] # val
      <4>1. memory[n] = Fresh => memory[n] # val
        BY FunctionsAssumption
      <4> QED BY <1>3, <1>8, <2>1, <2>5, <4>1
    <3>2. <<>> \in Seq(Passes) /\ Len(<<>>) = 0
      OBVIOUS
    <3>3. DOMAIN stack' = 1 .. 1 /\ stack'[1] = Pass(id)
      <4>1. /\ DOMAIN stack' = 1 .. Len(<<>>) + 1
            /\ stack'[Len(<<>>) + 1] = Pass(id)
        <5>1. id \in Inputs \cup Vars \cup {None} /\ ~held
          BY <2>5
        <5> QED BY <3>2, <5>1, NoticeTyped
      <4>2. Len(<<>>) + 1 = 1
        OBVIOUS
      <4> QED BY <4>1, <4>2
    <3>4. Pass(id).id = id /\ Pass(id).rule = 1 /\ Pass(id).entry = 1
      BY DEF Pass
    <3>5. 1 < q \/ 1 = q
      BY <1>2, OneOrMore
    <3>6. stack' # <<>> /\ stack'[1].id \in {i, None} /\ WillCome(1, q)'
      BY <3>3, <3>4, <3>5, NotEmpty DEF WillCome
    <3> QED BY <1>4, <1>8, <2>2, <3>1, <3>6 DEF ReportOf
  <2> QED BY <1>5, <2>3, <2>4, <2>5
<1> QED BY <1>7, <1>8

\* Every step keeps what the CHANGEDs have to report.
LEMMA ReportsStep ==
    ASSUME TypeOK, OriginOK, LastOK, ReportsOK, PassesOK, [Next]_allVars
    PROVE  ReportsOK'
<1> SUFFICES ASSUME NEW q \in DOMAIN rules', rules'[q][1].cond.op = "changed"
             PROVE  ReportOf(q)'
  BY DEF ReportsOK
<1>1. conf' = conf
  BY DEF Next, allVars, SkipRule, ConsiderEntry, SetOutput, SetVariable, EndPass, ValueChanges,
         FlagFollows, FlagChanges, FlagSet, PeerReady, PeerLost
<1>2. q \in DOMAIN rules /\ rules[q][1].cond.op = "changed" /\ rules' = rules
  BY <1>1 DEF rules
<1>3. CASE SkipRule
  BY <1>2, <1>3, ReportsSkip
<1>4. CASE ConsiderEntry
  BY <1>2, <1>4, ReportsConsider
<1>5. CASE SetOutput
  <2>1. /\ Assigning /\ stack' = Done /\ UNCHANGED <<conf, mirror, last, owed>>
        /\ \E o \in Outcomes(Head(Top.left).rval) : memory' = o.memory
    BY <1>5 DEF SetOutput
  <2> QED BY <1>2, <2>1, ReportsAssign
<1>6. CASE \E held \in BOOLEAN : SetVariable(held)
  <2>1. PICK held \in BOOLEAN : SetVariable(held)
    BY <1>6
  <2>2. /\ Assigning /\ UNCHANGED <<conf, mirror, last, owed>>
        /\ Head(Top.left).target \in Vars
        /\ memory' = memory \/ \E o \in Outcomes(Head(Top.left).rval) : memory' = o.memory
        /\ stack' = Done \/ Notice(Head(Top.left).target, Done, held)
    BY <2>1 DEF SetVariable, DebuggerLooks
  <2> QED BY <1>2, <2>2, ReportsAssign
<1>7. CASE EndPass
  BY <1>2, <1>7, ReportsEnd
<1>8. CASE \E i \in Inputs, val \in Values, flag \in {0, 1}, held \in BOOLEAN :
              ValueChanges(i, val, flag, held)
  <2>1. PICK i \in Inputs, val \in Values, flag \in {0, 1}, held \in BOOLEAN :
           ValueChanges(i, val, flag, held)
    BY <1>8
  <2>2. mirror'[i] # None
    BY <2>1, MirrorTyped, FunctionsAssumption DEF ValueChanges, TypeOK, Mirrored
  <2>3. /\ Idle /\ Notice(i, <<>>, held) /\ owed' = Owing(i, val, held)
        /\ last' = [last EXCEPT ![i] = val] /\ UNCHANGED <<conf, memory>>
    BY <2>1 DEF ValueChanges
  <2> QED BY <1>2, <2>2, <2>3, ReportsValue
<1>9. CASE \E i \in Inputs, val \in Values, flag \in {0, 1}, held \in BOOLEAN :
              PeerReady(i, val, flag, held)
  <2>1. PICK i \in Inputs, val \in Values, flag \in {0, 1}, held \in BOOLEAN :
           PeerReady(i, val, flag, held)
    BY <1>9
  <2>2. mirror'[i] # None
    BY <2>1, FunctionsAssumption DEF PeerReady, TypeOK, Mirrored
  <2>3. /\ Idle /\ Notice(None, <<>>, held) /\ owed' = Owing(i, val, held)
        /\ last' = [last EXCEPT ![i] = val] /\ UNCHANGED <<conf, memory>>
    BY <2>1 DEF PeerReady
  <2> QED BY <1>2, <2>2, <2>3, ReportsValue
<1>10. ASSUME stack = <<>>, UNCHANGED <<last, owed, memory>>
      PROVE  ReportOf(q)'
  <2>1. ReportOf(q) /\ rules'[q][1].cond = rules[q][1].cond
    BY <1>2 DEF ReportsOK
  <2> QED BY <1>10, <2>1 DEF ReportOf
<1>11. CASE FlagFollows
  BY <1>10, <1>11 DEF FlagFollows, FlagSet
<1>12. CASE \E i \in Inputs : FlagChanges(i)
  BY <1>10, <1>12 DEF FlagChanges, FlagSet, Idle
<1>13. CASE \E i \in Inputs : PeerLost(i)
  BY <1>10, <1>13 DEF PeerLost, Idle, history
<1>14. CASE UNCHANGED allVars
  <2>1. ReportOf(q) /\ UNCHANGED <<stack, last, owed, memory, mirror, conf>>
    BY <1>2, <1>14 DEF ReportsOK, allVars, history
  <2> QED BY <1>2, <2>1 DEF ReportOf, WillCome, rules
<1> QED BY <1>3, <1>4, <1>5, <1>6, <1>7, <1>8, <1>9, <1>11, <1>12, <1>13, <1>14 DEF Next

-----------------------------------------------------------------------------
(***************************************************************************)
(* Passes                                                                  *)
(***************************************************************************)

\* The passes below the top have come to a variable: nothing that happens above them
\* matters.
LEMMA LowerKept ==
    ASSUME TypeOK, PassesOK, NEW p \in 1 .. Len(stack) - 1, stack # <<>>,
           stack'[p] = stack[p], conf' = conf
    PROVE  LeftOf(p)' /\ SeenOf(p)'
<1>1. p \in DOMAIN stack /\ p # Len(stack)
  <2>1. PICK n \in Nat : n = Len(stack)
    BY TopTyped
  <2> QED BY <2>1, TopTyped
<1>2. LeftOf(p) /\ SeenOf(p)
  BY <1>1 DEF PassesOK
<1>3. PICK l, q, n : l = stack[p].left /\ q = stack[p].rule - 1 /\ n = stack[p].entry
  OBVIOUS
<1>4. /\ l # <<>> => /\ q >= 1 /\ ~(Targets(rules[q]) \subseteq Outputs)
                     /\ \E k \in DOMAIN rules[q] : Rest(l, rules[q][k].sets)
      /\ ~(n > 1)
  BY <1>1, <1>2, <1>3 DEF LeftOf, SeenOf
<1>5. stack'[p].left = l /\ stack'[p].rule - 1 = q /\ stack'[p].entry = n /\ rules' = rules
  BY <1>3 DEF rules
<1>6. LeftOf(p)'
  BY <1>4, <1>5 DEF LeftOf, Plain
<1>7. SeenOf(p)'
  BY <1>4, <1>5 DEF SeenOf
<1> QED BY <1>6, <1>7

\* Each operation leaves the passes as PassesOK says.
LEMMA SkipPasses ==
    ASSUME TypeOK, PassesOK, SkipRule
    PROVE  PassesOK'
<1>1. /\ stack # <<>> /\ Top.rule <= Len(rules) /\ stack' = NextRule(<<>>) /\ conf' = conf
  BY DEF SkipRule
<1>2. PICK t : t = [Top EXCEPT !.rule = @ + 1, !.entry = 1, !.left = <<>>]
  OBVIOUS
<1>3. t \in Passes /\ t.entry = 1 /\ t.left = <<>>
  <2>1. <<>> \in Seq(Assignments)
    OBVIOUS
  <2> QED BY <1>1, <1>2, <2>1, MovedTyped, MovedFields
<1>4. /\ DOMAIN stack' = 1 .. Len(stack) /\ Len(stack) \in Nat /\ stack'[Len(stack)] = t
      /\ \A p \in 1 .. Len(stack) - 1 : stack'[p] = stack[p]
  BY <1>1, <1>2, <1>3, OnTopTyped, TopTyped DEF NextRule
<1> SUFFICES ASSUME NEW p \in DOMAIN stack' PROVE LeftOf(p)' /\ SeenOf(p)'
  BY DEF PassesOK
<1>5. CASE p \in 1 .. Len(stack) - 1
  BY <1>1, <1>4, <1>5, LowerKept
<1>6. CASE p = Len(stack)
  BY <1>3, <1>4, <1>6 DEF LeftOf, SeenOf
<1> QED BY <1>4, <1>5, <1>6

\* A plain rule whose EVAL is met for the first time becomes unclear.
LEMMA FirstAffects ==
    ASSUME NEW q \in DOMAIN rules, NEW d \in Exprs(rules[q]), FirstTime(d)
    PROVE  Targets(rules[q]) \cap Outputs \subseteq Affected(d)
BY DEF Affected, Range, Exprs

\* The value of a condition in the next state, where the rule file names it or where it is
\* at hand.
LEMMA ValueAt ==
    ASSUME NEW q, NEW k, NEW c, rules'[q][k].cond = c
    PROVE  Value(rules[q][k].cond)' = Value(c)'
BY DEF Value, Resolved, Frozen, Now

\* And which entry decides then.
LEMMA DecidesAt ==
    ASSUME NEW q, NEW k, NEW rule, rules'[q] = rule
    PROVE  Decides(rules[q], k)' <=> Decides(rule, k)'
<1>1. ASSUME NEW j PROVE Value(rules[q][j].cond)' = Value(rule[j].cond)'
  <2>1. ASSUME NEW c, c = rule[j].cond PROVE Value(rules[q][j].cond)' = Value(c)'
    BY <2>1, ValueAt
  <2> QED BY <2>1
<1> QED BY <1>1 DEF Decides

\* What an evaluation leaves of a plain rule.
LEMMA PlainKept ==
    ASSUME TypeOK, OriginOK, UNCHANGED <<conf, vars, mirror>>,
           NEW r \in DOMAIN rules, NEW d \in Exprs(rules[r]),
           NEW o \in Outcomes(d), memory' = o.memory,
           NEW q \in DOMAIN rules, Plain(q)'
    PROVE  /\ Plain(q)
           /\ \A e \in Exprs(rules[q]) : Value(e)' = Value(e) /\ Resolved(e).op # "changed"
           /\ \A k \in DOMAIN rules[q] : Decides(rules[q], k) => Decides(rules[q], k)'
<1>1. ASSUME NEW e \in Exprs(rules[q])
      PROVE  Resolved(e)' = Resolved(e) /\ Resolved(e)'.op # "changed"
  BY DEF Resolved, Plain, Exprs, rules
<1>2. Plain(q)
  BY <1>1 DEF Plain, Exprs, rules
<1>3. ASSUME NEW e \in Exprs(rules[q])
      PROVE  Value(e)' = Value(e) /\ Resolved(e).op # "changed"
  BY <1>1, Evaluated
<1>4. ASSUME NEW k \in DOMAIN rules[q], Decides(rules[q], k)
      PROVE  Decides(rules[q], k)'
  <2>1. PICK rule : rule = rules[q]
    OBVIOUS
  <2>2. \A j \in DOMAIN rule : rule[j].cond \in Exprs(rule)
    BY <2>1, ConfTyped, RuleTyped
  <2>3. /\ Value(rule[k].cond) \notin {0, Undefined}
        /\ \A j \in 1 .. k - 1 : Value(rule[j].cond) = 0
    BY <1>4, <2>1 DEF Decides
  <2>4. \A j \in DOMAIN rule : Value(rule[j].cond)' = Value(rule[j].cond)
    BY <1>3, <2>1, <2>2
  <2>5. DOMAIN rule = 1 .. Len(rule) /\ Len(rule) \in Nat /\ k \in DOMAIN rule
    BY <2>1, ConfTyped, RuleTyped
  <2>6. /\ Value(rule[k].cond)' \notin {0, Undefined}
        /\ \A j \in 1 .. k - 1 : Value(rule[j].cond)' = 0
    BY <2>3, <2>4, <2>5
  <2>7. Decides(rule, k)'
    BY <2>6 DEF Decides
  <2>8. rules'[q] = rule
    BY <2>1 DEF rules
  <2> QED BY <2>7, <2>8, DecidesAt
<1> QED BY <1>2, <1>3, <1>4

\* A condition considered, and the top pass then.
LEMMA Considered ==
    ASSUME TypeOK, ConsiderEntry
    PROVE  /\ UNCHANGED <<conf, mirror, vars, given, later, stale, last>>
           /\ stack # <<>> /\ Top.left = <<>> /\ Top.rule \in DOMAIN rules
           /\ Top.entry \in DOMAIN rules[Top.rule]
           /\ Len(stack') = Len(stack) /\ DOMAIN stack' = 1 .. Len(stack)
           /\ Len(stack) \in DOMAIN stack /\ Len(stack) \in Nat /\ Top = stack[Len(stack)]
           /\ \A p \in 1 .. Len(stack) - 1 : stack'[p] = stack[p]
           /\ stack'[Len(stack)].id = Top.id
           /\ \E o \in Outcomes(rules[Top.rule][Top.entry].cond) :
                 /\ memory' = o.memory
                 /\ \/ /\ o.val = 0 /\ stack'[Len(stack)].left = <<>>
                       /\ stack'[Len(stack)].rule = Top.rule
                       /\ stack'[Len(stack)].entry = Top.entry + 1
                    \/ /\ o.val \in {0, Undefined} /\ stack'[Len(stack)].left = <<>>
                       /\ o.val = 0 => Top.entry = Len(rules[Top.rule])
                       /\ stack'[Len(stack)].rule = Top.rule + 1
                       /\ stack'[Len(stack)].entry = 1
                    \/ /\ o.val \notin {0, Undefined}
                       /\ stack'[Len(stack)].left = rules[Top.rule][Top.entry].sets
                       /\ stack'[Len(stack)].rule = Top.rule + 1
                       /\ stack'[Len(stack)].entry = 1
<1>1. /\ stack # <<>> /\ Top.left = <<>> /\ Top.rule <= Len(rules)
      /\ UNCHANGED <<conf, mirror, vars, given, later, stale, last>>
  BY DEF ConsiderEntry
<1>2. PICK d : d = rules[Top.rule][Top.entry].cond
  OBVIOUS
<1>3. PICK sets : sets = rules[Top.rule][Top.entry].sets
  OBVIOUS
<1>4. PICK o \in Outcomes(d) :
         /\ memory' = o.memory
         /\ stack' = IF o.val = 0 /\ Top.entry < Len(rules[Top.rule])
                     THEN OnTop([Top EXCEPT !.entry = @ + 1])
                     ELSE NextRule(IF o.val \in {0, Undefined} THEN <<>> ELSE sets)
  BY <1>2, <1>3 DEF ConsiderEntry
<1>5. /\ Top.rule \in DOMAIN rules /\ Top.entry \in DOMAIN rules[Top.rule]
      /\ sets \in Seq(Assignments)
  BY <1>1, <1>3, AtEntry
<1>6. Len(stack) \in DOMAIN stack /\ Len(stack) \in Nat /\ Top = stack[Len(stack)]
  BY <1>1, TopTyped
<1>7. CASE o.val = 0 /\ Top.entry < Len(rules[Top.rule])
  <2>1. PICK t : t = [Top EXCEPT !.entry = @ + 1]
    OBVIOUS
  <2>2. /\ t \in Passes /\ t.id = Top.id /\ t.rule = Top.rule
        /\ t.entry = Top.entry + 1 /\ t.left = <<>>
    BY <1>1, <1>7, <2>1, MovedTyped, MovedFields
  <2>3. stack' = OnTop(t)
    BY <1>4, <1>7, <2>1
  <2>4. /\ Len(stack') = Len(stack) /\ DOMAIN stack' = 1 .. Len(stack)
        /\ stack'[Len(stack)] = t /\ \A p \in 1 .. Len(stack) - 1 : stack'[p] = stack[p]
    BY <1>1, <2>2, <2>3, OnTopTyped
  <2> QED BY <1>1, <1>2, <1>4, <1>5, <1>6, <1>7, <2>2, <2>4
<1>8. CASE ~(o.val = 0 /\ Top.entry < Len(rules[Top.rule]))
  <2>1. PICK s : s = IF o.val \in {0, Undefined} THEN <<>> ELSE sets
    OBVIOUS
  <2>2. s \in Seq(Assignments)
    BY <1>5, <2>1
  <2>3. PICK t : t = [Top EXCEPT !.rule = @ + 1, !.entry = 1, !.left = s]
    OBVIOUS
  <2>4. t \in Passes /\ t.id = Top.id /\ t.rule = Top.rule + 1 /\ t.entry = 1 /\ t.left = s
    BY <1>1, <2>2, <2>3, MovedTyped, MovedFields
  <2>5. stack' = OnTop(t)
    BY <1>4, <1>8, <2>1, <2>3 DEF NextRule
  <2>6. /\ Len(stack') = Len(stack) /\ DOMAIN stack' = 1 .. Len(stack)
        /\ stack'[Len(stack)] = t /\ \A p \in 1 .. Len(stack) - 1 : stack'[p] = stack[p]
    BY <1>1, <2>4, <2>5, OnTopTyped
  <2>7. o.val = 0 => Top.entry = Len(rules[Top.rule])
    <3>1. Len(rules[Top.rule]) \in Nat /\ DOMAIN rules[Top.rule] = 1 .. Len(rules[Top.rule])
      BY <1>5, ConfTyped, RuleTyped
    <3> QED BY <1>5, <1>8, <3>1
  <2>8. CASE o.val \in {0, Undefined}
    BY <1>1, <1>2, <1>4, <1>5, <1>6, <2>1, <2>4, <2>6, <2>7, <2>8
  <2>9. CASE o.val \notin {0, Undefined}
    BY <1>1, <1>2, <1>3, <1>4, <1>5, <1>6, <2>1, <2>4, <2>6, <2>9
  <2> QED BY <2>8, <2>9
<1> QED BY <1>7, <1>8

\* A plain rule is judged by the values of its conditions, or unclear.
LEMMA Judged ==
    ASSUME TypeOK, OriginOK, PassesOK, ConsiderEntry,
           NEW q, q = Top.rule, NEW k, k = Top.entry, NEW rule, rule = rules[q], Plain(q)',
           NEW o \in Outcomes(rule[k].cond), memory' = o.memory
    PROVE  \/ Targets(rule) \subseteq unclear'
           \/ /\ Value(rule[k].cond)' = o.val
              /\ \A j \in 1 .. k - 1 : Value(rule[j].cond)' = 0
<1>1. /\ q \in DOMAIN rules /\ k \in DOMAIN rule /\ UNCHANGED <<conf, mirror, vars>>
      /\ stack[Len(stack)].rule = q /\ stack[Len(stack)].entry = k /\ Len(stack) \in DOMAIN stack
  BY Considered
<1>2. unclear' = (IF k = 1 THEN unclear \ Targets(rule) ELSE unclear) \cup Affected(rule[k].cond)
  BY DEF ConsiderEntry
<1>3. /\ rule \in Rules /\ DOMAIN rule = 1 .. Len(rule) /\ Len(rule) \in Nat
      /\ \A j \in DOMAIN rule : rule[j].cond \in Exprs(rule) /\ rule[j].cond \in Expressions
  BY <1>1, ConfTyped, RuleTyped
<1>4. /\ Plain(q)
      /\ \A e \in Exprs(rule) : Value(e)' = Value(e) /\ Resolved(e).op # "changed"
  BY <1>1, <1>3, PlainKept
<1>5. Targets(rule) \subseteq Outputs
  BY <1>4 DEF Plain
<1>6. CASE FirstTime(rule[k].cond)
  <2>1. Targets(rules[q]) \cap Outputs \subseteq Affected(rule[k].cond)
    BY <1>1, <1>3, <1>6, FirstAffects
  <2> QED BY <1>2, <1>5, <2>1
<1>7. CASE ~FirstTime(rule[k].cond)
  <2>1. o.val = Value(rule[k].cond)
    BY <1>1, <1>3, <1>4, <1>7, OutcomeTyped
  <2>2. Value(rule[k].cond)' = o.val
    BY <1>1, <1>3, <1>4, <2>1
  <2>3. CASE k = 1
    BY <2>2, <2>3
  <2>4. CASE k # 1
    <3>1. k > 1
      BY <1>1, <1>3, <2>4
    <3>2. \/ \A j \in 1 .. k - 1 : Value(rule[j].cond) = 0
          \/ Targets(rule) \subseteq unclear
      BY <1>1, <1>4, <3>1 DEF PassesOK, SeenOf
    <3>3. CASE Targets(rule) \subseteq unclear
      BY <1>2, <2>4, <3>3
    <3>4. CASE \A j \in 1 .. k - 1 : Value(rule[j].cond) = 0
      <4>1. ASSUME NEW j \in 1 .. k - 1 PROVE Value(rule[j].cond)' = 0
        <5>1. j \in DOMAIN rule /\ Value(rule[j].cond) = 0
          BY <1>1, <1>3, <3>4
        <5> QED BY <1>3, <1>4, <5>1
      <4> QED BY <2>2, <4>1
    <3> QED BY <3>2, <3>3, <3>4
  <2> QED BY <2>3, <2>4
<1> QED BY <1>6, <1>7

LEMMA ConsiderPasses ==
    ASSUME TypeOK, OriginOK, PassesOK, ConsiderEntry
    PROVE  PassesOK'
<1>1. PICK q, k, n : q = Top.rule /\ k = Top.entry /\ n = Len(stack)
  OBVIOUS
<1>2. PICK rule : rule = rules[q]
  OBVIOUS
<1>3. /\ UNCHANGED <<conf, mirror, vars>> /\ stack # <<>>
      /\ q \in DOMAIN rules /\ k \in DOMAIN rule
      /\ Len(stack') = n /\ DOMAIN stack' = 1 .. n /\ n \in DOMAIN stack /\ n \in Nat
      /\ \A p \in 1 .. n - 1 : stack'[p] = stack[p]
  BY <1>1, <1>2, Considered
<1>4. PICK o \in Outcomes(rule[k].cond) :
         /\ memory' = o.memory
         /\ \/ o.val = 0 /\ stack'[n].left = <<>> /\ stack'[n].rule = q /\ stack'[n].entry = k + 1
            \/ stack'[n].left = <<>> /\ stack'[n].rule = q + 1 /\ stack'[n].entry = 1
            \/ /\ o.val \notin {0, Undefined} /\ stack'[n].left = rule[k].sets
               /\ stack'[n].rule = q + 1 /\ stack'[n].entry = 1
  BY <1>1, <1>2, Considered
<1> SUFFICES ASSUME NEW p \in DOMAIN stack' PROVE LeftOf(p)' /\ SeenOf(p)'
  BY DEF PassesOK
<1>5. CASE p \in 1 .. n - 1
  BY <1>1, <1>3, <1>5, LowerKept
<1>6. ASSUME Plain(q)'
      PROVE  \/ Targets(rule) \subseteq unclear'
             \/ /\ Value(rule[k].cond)' = o.val
                /\ \A j \in 1 .. k - 1 : Value(rule[j].cond)' = 0
  BY <1>1, <1>2, <1>4, <1>6, Judged
<1>7. rules' = rules /\ rules'[q] = rule /\ q \in Nat /\ q <= Len(rules) /\ Len(rules) \in Nat
  BY <1>2, <1>3, ConfTyped DEF rules
<1>8. /\ DOMAIN rule = 1 .. Len(rule) /\ Len(rule) \in Nat
      /\ Len(rule[k].sets) \in Nat /\ rule[k].sets \in Seq(Assignments)
  BY <1>2, <1>3, ConfTyped, RuleTyped
<1>9. CASE p = n
  <2>1. CASE o.val = 0 /\ stack'[n].left = <<>> /\ stack'[n].rule = q /\ stack'[n].entry = k + 1
    <3>1. LeftOf(n)'
      BY <2>1 DEF LeftOf
    <3>2. ASSUME Plain(q)'
          PROVE  \/ Targets(rule) \subseteq unclear'
                 \/ \A j \in 1 .. k : Value(rule[j].cond)' = 0
      <4>1. \A j \in 1 .. k : j = k \/ j \in 1 .. k - 1
        BY <1>3, <1>8
      <4> QED BY <1>6, <2>1, <3>2, <4>1
    <3>3. k + 1 - 1 = k
      BY <1>3, <1>8
    <3>4. ASSUME Plain(stack[n].rule)'
          PROVE  (\A j \in 1 .. stack[n].entry - 1 : Value(rules[stack[n].rule][j].cond) = 0)'
                    \/ (Targets(rules[stack[n].rule]) \subseteq unclear)'
      <4>1. Plain(q)'
        BY <2>1, <3>4 DEF Plain
      <4>2. CASE Targets(rule) \subseteq unclear'
        BY <1>7, <2>1, <4>2
      <4>3. CASE \A j \in 1 .. k : Value(rule[j].cond)' = 0
        <5>1. \A j \in 1 .. k : Value(rules[q][j].cond)' = 0
          <6>1. ASSUME NEW j \in 1 .. k, NEW c, c = rule[j].cond
                PROVE  Value(rules[q][j].cond)' = Value(c)'
            BY <1>7, <6>1, ValueAt
          <6>2. ASSUME NEW j \in 1 .. k
                PROVE  Value(rules[q][j].cond)' = Value(rule[j].cond)'
            BY <6>1
          <6> QED BY <4>3, <6>2
        <5>2. stack'[n].entry - 1 = k /\ stack'[n].rule = q
          <6>1. k \in Nat
            BY <1>3, <1>8
          <6> QED BY <2>1, <6>1
        <5>3. ASSUME NEW j \in 1 .. k PROVE Value(rules[stack[n].rule][j].cond)' = 0
          <6>1. Value(rules[q][j].cond)' = 0
            BY <5>1
          <6> QED BY <5>2, <6>1 DEF Value, Resolved, Frozen, Now
        <5> QED BY <5>2, <5>3 DEF Value, Resolved, Frozen, Now
      <4> QED BY <3>2, <4>1, <4>2, <4>3
    <3>5. SeenOf(n)'
      <4>1. (stack[n].entry > 1 => n = Len(stack) /\ stack[n].left = <<>>
                                      /\ stack[n].rule <= Len(rules))'
        BY <1>3, <1>7, <2>1
      <4> QED BY <3>4, <4>1 DEF SeenOf
    <3> QED BY <1>9, <3>1, <3>5
  <2>2. CASE stack'[n].left = <<>> /\ stack'[n].rule = q + 1 /\ stack'[n].entry = 1
    BY <1>9, <2>2 DEF LeftOf, SeenOf
  <2>3. CASE /\ o.val \notin {0, Undefined} /\ stack'[n].left = rule[k].sets
             /\ stack'[n].rule = q + 1 /\ stack'[n].entry = 1
    <3>1. SeenOf(n)'
      BY <2>3 DEF SeenOf
    <3>2. Rest(rule[k].sets, rule[k].sets)
      BY <1>8 DEF Rest
    <3>3. ASSUME Plain(q)' PROVE Decides(rules[q], k)' \/ Targets(rule) \subseteq unclear'
      <4>1. CASE /\ Value(rule[k].cond)' = o.val
                 /\ \A j \in 1 .. k - 1 : Value(rule[j].cond)' = 0
        <5>1. Decides(rule, k)'
          BY <2>3, <4>1 DEF Decides
        <5> QED BY <1>7, <5>1, DecidesAt
      <4> QED BY <1>6, <3>3, <4>1
    <3>4. q + 1 - 1 = q /\ q >= 1
      BY <1>3, <1>7, ConfTyped
    <3>5. LeftOf(n)'
      BY <1>2, <1>3, <1>7, <2>3, <3>2, <3>3, <3>4 DEF LeftOf
    <3> QED BY <1>9, <3>1, <3>5
  <2> QED BY <1>4, <2>1, <2>2, <2>3
<1> QED BY <1>3, <1>5, <1>9

\* The rest of a sequence of assignments, with one less.
LEMMA RestTail ==
    ASSUME NEW left \in Seq(Assignments), left # <<>>, NEW sets \in Seq(Assignments),
           Rest(left, sets)
    PROVE  Rest(Tail(left), sets)
<1>1. PICK l : l = Len(left)
  OBVIOUS
<1>2. PICK t : t = Tail(left)
  OBVIOUS
<1>3. PICK n : n = Len(sets)
  OBVIOUS
<1>4. l \in Nat /\ l >= 1 /\ Len(t) = l - 1 /\ n \in Nat
  BY <1>1, <1>2, <1>3, HeadTailProperties, EmptySeq
<1>5. \A j \in 1 .. l - 1 : t[j] = left[j + 1]
  BY <1>1, <1>2
<1>6. l <= n /\ \A j \in 1 .. l : left[j] = sets[n - l + j]
  BY <1>1, <1>3 DEF Rest
<1>7. ASSUME NEW j \in 1 .. l - 1
      PROVE  t[j] = sets[n - (l - 1) + j]
  <2>1. j + 1 \in 1 .. l /\ n - l + (j + 1) = n - (l - 1) + j
    BY <1>4
  <2> QED BY <1>5, <1>6, <2>1
<1> QED BY <1>2, <1>3, <1>4, <1>6, <1>7 DEF Rest

\* The top pass with one assignment less: what the next state says of it.
LEMMA DonePasses ==
    ASSUME TypeOK, OriginOK, PassesOK, Assigning, conf' = conf,
           NEW p \in 1 .. Len(stack), stack'[p] = Done[p],
           \/ Head(Top.left).target \in Vars
           \/ /\ UNCHANGED <<vars, mirror>> /\ unclear \subseteq unclear'
              /\ \E o \in Outcomes(Head(Top.left).rval) : memory' = o.memory
              /\ Len(stack') = Len(stack)
    PROVE  LeftOf(p)' /\ SeenOf(p)'
<1>1. PICK n : n = Len(stack)
  OBVIOUS
<1>2. /\ n \in Nat /\ n \in DOMAIN stack /\ Top = stack[n] /\ stack # <<>> /\ Top.left # <<>>
      /\ \A m \in 1 .. n - 1 : Done[m] = stack[m]
  BY <1>1, AtHand, TopTyped
<1>3. CASE p \in 1 .. n - 1
  BY <1>1, <1>2, <1>3, LowerKept
<1>4. CASE p = n
  <2>1. PICK q, left : q = Top.rule - 1 /\ left = Top.left
    OBVIOUS
  <2>2. PICK k \in DOMAIN rules[q] :
           /\ Rest(left, rules[q][k].sets)
           /\ \E m \in DOMAIN rules[q][k].sets : Head(left) = rules[q][k].sets[m]
           /\ Plain(q) => Decides(rules[q], k) \/ Targets(rules[q]) \subseteq unclear
    BY <2>1, HeadFrom
  <2>3. PICK rule : rule = rules[q]
    OBVIOUS
  <2>4. /\ q \in DOMAIN rules /\ q >= 1 /\ rule \in Rules /\ rules' = rules
        /\ rule[k].sets \in Seq(Assignments)
    <3>1. q \in DOMAIN rules
      BY <2>1, HeadFrom
    <3>2. q >= 1 /\ rule \in Rules
      BY <2>3, <3>1, ConfTyped
    <3>3. rule[k].sets \in Seq(Assignments)
      BY <2>3, <3>2, RuleTyped
    <3>4. rules' = rules
      BY DEF rules
    <3> QED BY <3>1, <3>2, <3>3, <3>4
  <2>5. PICK m \in DOMAIN rule[k].sets : Head(left) = rule[k].sets[m]
    BY <2>2, <2>3
  <2>6. Head(left).target \in Targets(rule) /\ Head(left).rval \in Exprs(rule)
    <3>1. /\ rule[k].sets[m].target \in Targets(rule)
          /\ rule[k].sets[m].rval \in Exprs(rule)
      BY <2>3, <2>4, RuleTyped
    <3> QED BY <2>5, <3>1
  <2>7. left \in Seq(Assignments) /\ left # <<>>
    BY <1>2, <2>1, MovedFields
  <2>8. Rest(Tail(left), rule[k].sets)
    BY <2>2, <2>3, <2>4, <2>7, RestTail
  <2>9. Top.entry = 1
    <3>1. ~(Top.entry > 1)
      BY <1>2 DEF PassesOK, SeenOf
    <3> QED BY <1>2, <3>1, MovedFields
  <2>10. /\ stack'[n].left = Tail(left) /\ stack'[n].rule - 1 = q /\ stack'[n].entry = 1
    <3>1. PICK u : u = [Top EXCEPT !.left = Tail(@)]
      OBVIOUS
    <3>2. u.rule = Top.rule /\ u.entry = 1 /\ u.left = Tail(left)
      BY <1>2, <2>1, <2>9, <3>1, MovedFields
    <3>3. stack'[n] = u
      BY <1>1, <1>4, <3>1, AtHand
    <3> QED BY <2>1, <3>2, <3>3
  <2>11. SeenOf(n)'
    BY <2>10 DEF SeenOf
  <2>12. CASE Head(Top.left).target \in Vars
    <3>1. ~(Targets(rule) \subseteq Outputs)
      BY <2>1, <2>6, <2>12, FunctionsAssumption
    <3>2. ~(Targets(rules'[q]) \subseteq Outputs)
      BY <2>3, <2>4, <3>1
    <3>3. LeftOf(n)'
      BY <2>2, <2>3, <2>4, <2>8, <2>10, <3>2 DEF LeftOf, Plain
    <3> QED BY <1>4, <2>11, <3>3
  <2>13. CASE /\ UNCHANGED <<vars, mirror>> /\ unclear \subseteq unclear'
              /\ \E o \in Outcomes(Head(Top.left).rval) : memory' = o.memory
              /\ Len(stack') = Len(stack)
    <3>1. PICK o \in Outcomes(Head(left).rval) : memory' = o.memory
      BY <2>1, <2>13
    <3>2. ASSUME Plain(q)'
          PROVE  Decides(rules[q], k)' \/ Targets(rule) \subseteq unclear'
      <4>1. Plain(q) /\ (Decides(rules[q], k) => Decides(rules[q], k)')
        BY <2>2, <2>3, <2>4, <2>6, <2>13, <3>1, <3>2, PlainKept
      <4> QED BY <2>2, <2>3, <2>13, <4>1
    <3>3. LeftOf(n)'
      BY <1>1, <2>2, <2>3, <2>4, <2>8, <2>10, <2>13, <3>2 DEF LeftOf
    <3> QED BY <1>4, <2>11, <3>3
  <2> QED BY <2>12, <2>13
<1> QED BY <1>1, <1>2, <1>3, <1>4

\* A pass that begins has seen nothing and has nothing left.
LEMMA NewPass ==
    ASSUME NEW p, stack'[p].left = <<>>, stack'[p].entry = 1
    PROVE  LeftOf(p)' /\ SeenOf(p)'
BY DEF LeftOf, SeenOf

LEMMA SetOutputPasses ==
    ASSUME TypeOK, OriginOK, PassesOK, SetOutput
    PROVE  PassesOK'
<1>1. /\ Assigning /\ stack' = Done /\ UNCHANGED <<conf, vars, mirror>>
      /\ unclear \subseteq unclear'
      /\ \E o \in Outcomes(Head(Top.left).rval) : memory' = o.memory
  BY DEF SetOutput
<1>2. Len(stack') = Len(stack) /\ DOMAIN stack' = 1 .. Len(stack)
  BY <1>1, AtHand
<1> SUFFICES ASSUME NEW p \in DOMAIN stack' PROVE LeftOf(p)' /\ SeenOf(p)'
  BY DEF PassesOK
<1> QED BY <1>1, <1>2, DonePasses

LEMMA SetVariablePasses ==
    ASSUME TypeOK, OriginOK, PassesOK, NEW held \in BOOLEAN, SetVariable(held)
    PROVE  PassesOK'
<1>1. /\ Assigning /\ conf' = conf /\ Head(Top.left).target \in Vars
      /\ stack' = Done \/ Notice(Head(Top.left).target, Done, held)
  BY DEF SetVariable
<1>2. Done \in Seq(Passes) /\ Len(Done) = Len(stack) /\ DOMAIN Done = 1 .. Len(stack)
  BY <1>1, AtHand
<1> SUFFICES ASSUME NEW p \in DOMAIN stack' PROVE LeftOf(p)' /\ SeenOf(p)'
  BY DEF PassesOK
<1>3. CASE stack' = Done
  BY <1>1, <1>2, <1>3, DonePasses
<1>4. CASE Notice(Head(Top.left).target, Done, held) /\ ~held
  <2>1. PICK v : v = Head(Top.left).target
    OBVIOUS
  <2>2. v \in Inputs \cup Vars \cup {None}
    BY <1>1, <2>1
  <2>3. /\ \A m \in 1 .. Len(Done) : stack'[m] = Done[m]
        /\ DOMAIN stack' = 1 .. Len(Done) + 1 /\ stack'[Len(Done) + 1] = Pass(v)
    BY <1>2, <1>4, <2>1, <2>2, NoticeTyped
  <2>4. Len(stack) \in Nat
    BY <1>1, AtHand, TopTyped
  <2>5. CASE p \in 1 .. Len(stack)
    BY <1>1, <1>2, <2>3, <2>5, DonePasses
  <2>6. CASE p = Len(stack) + 1
    <3>1. stack'[p] = Pass(v)
      BY <1>2, <2>3, <2>6
    <3> QED BY <2>2, <3>1, PassTyped, NewPass
  <2> QED BY <1>2, <2>3, <2>4, <2>5, <2>6
<1> QED BY <1>1, <1>3, <1>4 DEF Notice

LEMMA EndPasses ==
    ASSUME TypeOK, PassesOK, EndPass
    PROVE  PassesOK'
<1>1. stack # <<>> /\ stack' = Below /\ conf' = conf
  BY DEF EndPass
<1>2. /\ DOMAIN stack' = 1 .. Len(stack) - 1
      /\ \A p \in 1 .. Len(stack) - 1 : stack'[p] = stack[p]
  BY <1>1, TopTyped
<1> SUFFICES ASSUME NEW p \in DOMAIN stack' PROVE LeftOf(p)' /\ SeenOf(p)'
  BY DEF PassesOK
<1> QED BY <1>1, <1>2, LowerKept

LEMMA NoPasses ==
    ASSUME stack' = <<>>
    PROVE  PassesOK'
BY DEF PassesOK

\* What begins with a callback, which no pass is under way for.
LEMMA NoticePasses ==
    ASSUME TypeOK, NEW id \in Inputs \cup Vars \cup {None}, NEW held \in BOOLEAN,
           Notice(id, <<>>, held)
    PROVE  PassesOK'
<1>1. CASE held
  BY <1>1, NoPasses DEF Notice
<1>2. CASE ~held
  <2>1. <<>> \in Seq(Passes) /\ Len(<<>>) = 0
    OBVIOUS
  <2>2. DOMAIN stack' = 1 .. 0 + 1 /\ stack'[0 + 1] = Pass(id)
    BY <1>2, <2>1, NoticeTyped
  <2>3. ASSUME NEW p \in DOMAIN stack' PROVE LeftOf(p)' /\ SeenOf(p)'
    <3>1. stack'[p] = Pass(id)
      BY <2>2
    <3> QED BY <3>1, PassTyped, NewPass
  <2> QED BY <2>3 DEF PassesOK
<1> QED BY <1>1, <1>2

\* What is said of the passes depends on the state alone.
LEMMA PassesStutter ==
    ASSUME PassesOK, UNCHANGED allVars
    PROVE  PassesOK'
<1>1. stack' = stack /\ rules' = rules /\ unclear' = unclear
  BY DEF allVars, history, rules
<1> SUFFICES ASSUME NEW p \in DOMAIN stack PROVE LeftOf(p)' /\ SeenOf(p)'
  BY <1>1 DEF PassesOK
<1>2. LeftOf(p) /\ SeenOf(p)
  BY DEF PassesOK
<1>3. ASSUME NEW e PROVE Value(e)' = Value(e) /\ Resolved(e)' = Resolved(e)
  BY DEF allVars, Value, Resolved, Frozen, Now
<1>4. ASSUME NEW q, NEW k, Decides(rules[q], k) PROVE Decides(rules[q], k)'
  <2>1. PICK rule : rule = rules[q]
    OBVIOUS
  <2>2. Decides(rule, k)'
    BY <1>3, <1>4, <2>1 DEF Decides
  <2>3. rules'[q] = rule
    BY <1>1, <2>1
  <2> QED BY <2>2, <2>3, DecidesAt
<1>5. ASSUME NEW q, Plain(q)' PROVE Plain(q)
  BY <1>1, <1>5 DEF Plain, Resolved, allVars
<1>6. PICK s : s = stack[p]
  OBVIOUS
<1>7. LeftOf(p)'
  <2>1. CASE s.left = <<>>
    BY <1>1, <1>6, <2>1 DEF LeftOf
  <2>2. CASE s.left # <<>>
    <3>1. PICK q : q = s.rule - 1
      OBVIOUS
    <3>2. PICK k \in DOMAIN rules[q] :
             /\ Rest(s.left, rules[q][k].sets)
             /\ Plain(q) => Decides(rules[q], k) \/ Targets(rules[q]) \subseteq unclear
      BY <1>2, <1>6, <2>2, <3>1 DEF LeftOf
    <3>3. q >= 1 /\ (Targets(rules[q]) \subseteq Outputs => p = Len(stack))
      BY <1>2, <1>6, <2>2, <3>1 DEF LeftOf
    <3>4. ASSUME Plain(q)' PROVE Decides(rules[q], k)' \/ Targets(rules[q]) \subseteq unclear
      BY <1>4, <1>5, <3>2, <3>4
    <3>5. stack'[p].left = s.left /\ stack'[p].rule - 1 = q
      BY <1>1, <1>6, <3>1
    <3> QED BY <1>1, <3>2, <3>3, <3>4, <3>5 DEF LeftOf
  <2> QED BY <2>1, <2>2
<1>8. SeenOf(p)'
  <2>1. PICK q, k : q = s.rule /\ k = s.entry
    OBVIOUS
  <2>2. CASE ~(k > 1)
    BY <1>1, <1>6, <2>1, <2>2 DEF SeenOf
  <2>3. CASE k > 1
    <3>1. /\ p = Len(stack) /\ s.left = <<>> /\ q <= Len(rules)
          /\ Plain(q) => \/ \A j \in 1 .. k - 1 : Value(rules[q][j].cond) = 0
                         \/ Targets(rules[q]) \subseteq unclear
      BY <1>2, <1>6, <2>1, <2>3 DEF SeenOf
    <3>2. stack'[p].rule = q /\ stack'[p].entry = k
      BY <1>1, <1>6, <2>1
    <3>3. ASSUME Plain(stack[p].rule)'
          PROVE  (\A j \in 1 .. stack[p].entry - 1 : Value(rules[stack[p].rule][j].cond) = 0)'
                    \/ (Targets(rules[stack[p].rule]) \subseteq unclear)'
      <4>1. Plain(q)'
        BY <3>2, <3>3 DEF Plain
      <4>2. CASE Targets(rules[q]) \subseteq unclear
        BY <1>1, <3>2, <4>2
      <4>3. CASE \A j \in 1 .. k - 1 : Value(rules[q][j].cond) = 0
        <5>1. ASSUME NEW j \in 1 .. k - 1 PROVE Value(rules[stack[p].rule][j].cond)' = 0
          <6>1. PICK c : c = rules[q][j].cond
            OBVIOUS
          <6>2. Value(c)' = 0
            BY <1>3, <4>3, <6>1
          <6> QED BY <1>1, <3>2, <6>1, <6>2 DEF Value, Resolved, Frozen, Now
        <5> QED BY <3>2, <5>1 DEF Value, Resolved, Frozen, Now
      <4> QED BY <1>5, <3>1, <4>1, <4>2, <4>3
    <3>4. (stack[p].entry > 1 => p = Len(stack) /\ stack[p].left = <<>>
                                    /\ stack[p].rule <= Len(rules))'
      BY <1>1, <1>6, <2>1, <3>1
    <3> QED BY <3>3, <3>4 DEF SeenOf
  <2> QED BY <2>2, <2>3
<1> QED BY <1>7, <1>8

\* Every step keeps what is said of the passes.
LEMMA PassesStep ==
    ASSUME TypeOK, OriginOK, PassesOK, [Next]_allVars
    PROVE  PassesOK'
<1>1. CASE UNCHANGED allVars
  BY <1>1, PassesStutter
<1>2. CASE Next
  <2>1. ASSUME NEW i \in Inputs, NEW val \in Values, NEW flag \in {0, 1}, NEW held \in BOOLEAN,
               ValueChanges(i, val, flag, held)
        PROVE  PassesOK'
    BY <2>1, NoticePasses DEF ValueChanges
  <2>2. ASSUME NEW i \in Inputs, NEW val \in Values, NEW flag \in {0, 1}, NEW held \in BOOLEAN,
               PeerReady(i, val, flag, held)
        PROVE  PassesOK'
    BY <2>2, NoticePasses DEF PeerReady
  <2>3. CASE FlagFollows \/ (\E i \in Inputs : FlagChanges(i) \/ PeerLost(i))
    BY <2>3, NoPasses DEF FlagFollows, FlagChanges, FlagSet, PeerLost, Idle
  <2>4. CASE \E held \in BOOLEAN : SetVariable(held)
    BY <2>4, SetVariablePasses
  <2> QED BY <1>2, <2>1, <2>2, <2>3, <2>4, SkipPasses, ConsiderPasses, SetOutputPasses, EndPasses
          DEF Next
<1> QED BY <1>1, <1>2

-----------------------------------------------------------------------------
(***************************************************************************)
(* Outputs that are wrong                                                  *)
(***************************************************************************)

\* What a step may leave of the expressions of rule q.
Untouched(q) ==
    \A e \in Exprs(rules[q]) :
        /\ Resolved(e)' = Resolved(e) /\ RefsOf(e)' = RefsOf(e)
        /\ Value(e)' \in {Value(e), Undefined}
        /\ RefsOf(e) \cap stale = {}

\* What the next state says of a settled rule.
LEMMA SettledThen ==
    ASSUME conf' = conf, NEW q \in Settled'
    PROVE  /\ q \in DOMAIN rules /\ Targets(rules[q]) \subseteq Outputs
           /\ \A r \in DOMAIN rules \ {q} : Targets(rules[r]) \cap Targets(rules[q]) = {}
           /\ None \notin stale' /\ Plain(q)'
           /\ \A e \in Exprs(rules[q]) :
                 Resolved(e)'.op # "changed" /\ RefsOf(e)' \cap stale' = {}
<1>1. rules' = rules
  BY DEF rules
<1>2. /\ q \in DOMAIN rules /\ Targets(rules[q]) \subseteq Outputs
      /\ \A r \in DOMAIN rules \ {q} : Targets(rules[r]) \cap Targets(rules[q]) = {}
      /\ None \notin stale'
  BY <1>1 DEF Settled
<1>3. \A e \in Exprs(rules[q]) :
         Resolved(e)'.op # "changed" /\ RefsOf(e)' \cap stale' = {}
  BY <1>1 DEF Settled, Exprs, Resolved, RefsOf, DirectRefs, Frozen
<1>4. Plain(q)'
  BY <1>1, <1>2, <1>3 DEF Plain, Exprs, Resolved
<1> QED BY <1>2, <1>3, <1>4

\* And of a wrong output.
LEMMA WrongThen ==
    ASSUME conf' = conf, NEW q, NEW k, NEW m, Wrong(q, k, m)',
           NEW rule, rule = rules[q], NEW s, s = rule[k].sets[m]
    PROVE  /\ Decides(rule, k)' /\ IsLast(rule[k].sets, m)
           /\ s.target \notin unclear' /\ Value(s.rval)' # Undefined
           /\ given'[s.target] # Value(s.rval)'
<1>1. rules' = rules /\ rules'[q] = rule
  BY DEF rules
<1>2. Decides(rule, k)'
  <2>1. Decides(rules[q], k)'
    BY DEF Wrong
  <2> QED BY <1>1, <2>1, DecidesAt
<1>3. IsLast(rule[k].sets, m) /\ s.target \notin unclear'
  BY <1>1 DEF Wrong, IsLast
<1>4. Value(s.rval)' # Undefined /\ given'[s.target] # Value(s.rval)'
  BY <1>1 DEF Wrong, Value, Resolved, Frozen, Now
<1> QED BY <1>2, <1>3, <1>4

\* An output that is wrong after a step that left its rule was wrong before.
LEMMA WrongBefore ==
    ASSUME TypeOK, conf' = conf, NEW q \in Settled', NEW k \in DOMAIN rules[q],
           NEW m \in DOMAIN rules[q][k].sets, Wrong(q, k, m)',
           Untouched(q), None \notin stale,
           rules[q][k].sets[m].target \notin unclear,
           given'[rules[q][k].sets[m].target] = given[rules[q][k].sets[m].target]
    PROVE  q \in Settled /\ Wrong(q, k, m)
<1>1. PICK rule : rule = rules[q]
  OBVIOUS
<1>2. PICK s : s = rule[k].sets[m]
  OBVIOUS
<1>3. /\ q \in DOMAIN rules /\ Targets(rule) \subseteq Outputs
      /\ \A r \in DOMAIN rules \ {q} : Targets(rules[r]) \cap Targets(rule) = {}
      /\ \A e \in Exprs(rule) : Resolved(e)'.op # "changed"
  BY <1>1, SettledThen
<1>4. /\ Decides(rule, k)' /\ IsLast(rule[k].sets, m)
      /\ s.target \notin unclear' /\ Value(s.rval)' # Undefined
      /\ given'[s.target] # Value(s.rval)'
  BY <1>1, <1>2, WrongThen
<1>5. /\ rule \in Rules /\ DOMAIN rule = 1 .. Len(rule) /\ Len(rule) \in Nat
      /\ \A j \in DOMAIN rule : rule[j].cond \in Exprs(rule)
      /\ s.rval \in Exprs(rule)
  BY <1>1, <1>2, <1>3, ConfTyped, RuleTyped
<1>6. \A e \in Exprs(rule) : /\ Resolved(e)' = Resolved(e) /\ RefsOf(e) \cap stale = {}
                             /\ Value(e)' \in {Value(e), Undefined}
  BY <1>1 DEF Untouched
<1>7. q \in Settled
  <2>1. \A e \in Exprs(rule) : Resolved(e).op # "changed"
    BY <1>3, <1>6
  <2> QED BY <1>1, <1>3, <1>6, <2>1 DEF Settled, Exprs
<1>8. Decides(rule, k)
  <2>1. /\ Value(rule[k].cond)' \notin {0, Undefined}
        /\ \A j \in 1 .. k - 1 : Value(rule[j].cond)' = 0
    BY <1>4 DEF Decides
  <2>2. Value(rule[k].cond) \notin {0, Undefined}
    BY <1>1, <1>5, <1>6, <2>1
  <2>3. ASSUME NEW j \in 1 .. k - 1 PROVE Value(rule[j].cond) = 0
    <3>1. j \in DOMAIN rule
      BY <1>1, <1>5
    <3>2. Value(rule[j].cond)' = 0
      BY <2>1
    <3>3. Value(rule[j].cond)' \in {Value(rule[j].cond), Undefined}
      BY <1>5, <1>6, <3>1
    <3>4. Undefined # 0
      BY FunctionsAssumption
    <3> QED BY <3>2, <3>3, <3>4
  <2> QED BY <2>2, <2>3 DEF Decides
<1>9. Value(s.rval)' = Value(s.rval)
  BY <1>4, <1>5, <1>6
<1> QED BY <1>1, <1>2, <1>4, <1>7, <1>8, <1>9 DEF Wrong

\* What a rule depends on is the same to the passes.
LEMMA ConcernsKept ==
    ASSUME conf' = conf, NEW q, Untouched(q), NEW id, Concerns(rules[q], id)
    PROVE  Concerns(rules[q], id)'
<1>1. PICK rule : rule = rules[q] /\ rules'[q] = rule
  BY DEF rules
<1>2. CASE id = None
  BY <1>2 DEF Concerns
<1>3. CASE \E e \in Exprs(rule) : id \in RefsOf(e)
  <2>1. PICK e \in Exprs(rule) : id \in RefsOf(e)'
    BY <1>1, <1>3 DEF Untouched
  <2> QED BY <1>1, <2>1 DEF Concerns, Exprs
<1> QED BY <1>1, <1>2, <1>3 DEF Concerns, Exprs

\* A pass that does not move is due where it was.
LEMMA DueKept ==
    ASSUME conf' = conf, NEW q, NEW k, NEW m, Untouched(q), NEW p,
           stack'[p].id = stack[p].id, stack'[p].rule = stack[p].rule,
           stack'[p].entry = stack[p].entry,
           stack'[p].left = stack[p].left \/ stack[p].rule # q + 1, DueAt(p, q, k, m)
    PROVE  DueAt(p, q, k, m)'
<1>1. PICK id, l : id = stack[p].id /\ l = stack[p].left
  OBVIOUS
<1>2. rules' = rules
  BY DEF rules
<1>3. CASE Concerns(rules[q], stack[p].id) /\ WillCome(p, q)
  <2>1. Concerns(rules[q], id)'
    BY <1>1, <1>3, ConcernsKept
  <2>2. Concerns(rules[q], stack[p].id)'
    BY <1>1, <1>2, <2>1 DEF Concerns
  <2> QED BY <1>3, <2>2 DEF DueAt, WillCome
<1>4. CASE stack[p].rule = q /\ stack[p].entry > 1
  BY <1>4 DEF DueAt
<1>5. CASE stack[p].rule = q + 1 /\ Len(stack[p].left) > Len(rules[q][k].sets) - m
  BY <1>1, <1>2, <1>5 DEF DueAt
<1> QED BY <1>3, <1>4, <1>5 DEF DueAt

\* An evaluation leaves a rule that has an output that is not unclear.
LEMMA EvaluationLeaves ==
    ASSUME TypeOK, OriginOK, UNCHANGED <<conf, vars, mirror, stale>>,
           NEW r \in DOMAIN rules, NEW d \in Exprs(rules[r]),
           NEW o \in Outcomes(d), memory' = o.memory, Affected(d) \subseteq unclear',
           NEW q \in Settled', NEW t \in Targets(rules[q]), t \notin unclear'
    PROVE  Untouched(q) /\ None \notin stale
<1>1. /\ q \in DOMAIN rules /\ t \in Outputs /\ None \notin stale
      /\ \A e \in Exprs(rules[q]) :
            Resolved(e)'.op # "changed" /\ RefsOf(e)' \cap stale = {}
  BY SettledThen
<1>2. ASSUME NEW e \in Exprs(rules[q])
      PROVE  /\ Resolved(e)' = Resolved(e) /\ RefsOf(e)' = RefsOf(e)
             /\ Value(e)' = Value(e) /\ RefsOf(e) \cap stale = {}
  <2>1. Resolved(e)' = Resolved(e)
    BY DEF Resolved
  <2>2. Resolved(e).op # "changed"
    BY <1>1, <2>1
  <2>3. /\ Value(e)' = Value(e)
        /\ RefsOf(e)' = RefsOf(e) \/ Targets(rules[q]) \cap Outputs \subseteq Affected(d)
    BY <1>1, <2>2, Evaluated
  <2> QED BY <1>1, <2>1, <2>3
<1> QED BY <1>1, <1>2 DEF Untouched

\* The assignment m of entry k of rule q, for a step that leaves the rules.
LEMMA Place ==
    ASSUME TypeOK, NEW q \in DOMAIN rules, NEW k \in DOMAIN rules[q],
           NEW m \in DOMAIN rules[q][k].sets
    PROVE  /\ q \in Nat /\ rules[q] \in Rules /\ k \in Nat /\ k >= 1
           /\ DOMAIN rules[q] = 1 .. Len(rules[q]) /\ Len(rules[q]) \in Nat
           /\ Len(rules[q][k].sets) \in Nat /\ m \in 1 .. Len(rules[q][k].sets)
           /\ rules[q][k].sets \in Seq(Assignments)
           /\ rules[q][k].cond \in Exprs(rules[q])
           /\ rules[q][k].sets[m].target \in Targets(rules[q])
           /\ rules[q][k].sets[m].rval \in Exprs(rules[q])
BY ConfTyped, RuleTyped

\* A rule that is passed over is not one that an output is wrong for.
LEMMA SkipOwed ==
    ASSUME TypeOK, OwedOK, SkipRule, NEW q \in Settled', NEW k \in DOMAIN rules[q],
           NEW m \in DOMAIN rules[q][k].sets, Wrong(q, k, m)'
    PROVE  \E p \in DOMAIN stack' : DueAt(p, q, k, m)'
<1>1. /\ stack # <<>> /\ Top.left = <<>> /\ Top.rule <= Len(rules) /\ Top.entry = 1
      /\ ~Concerns(rules[Top.rule], Top.id) /\ stack' = NextRule(<<>>)
      /\ UNCHANGED <<conf, mirror, memory, vars, given, later, history>>
  BY DEF SkipRule
<1>2. q \in DOMAIN rules /\ None \notin stale
  BY <1>1, SettledThen DEF history
<1>3. Untouched(q)
  <2>1. ASSUME NEW e \in Exprs(rules[q])
        PROVE  /\ Resolved(e)' = Resolved(e) /\ RefsOf(e)' = RefsOf(e) /\ Value(e)' = Value(e)
    BY <1>1 DEF Resolved, RefsOf, DirectRefs, Frozen, Value, Now
  <2>2. \A e \in Exprs(rules[q]) : RefsOf(e)' \cap stale' = {}
    BY <1>1, SettledThen
  <2> QED BY <1>1, <2>1, <2>2 DEF Untouched, history
<1>4. rules[q][k].sets[m].target \notin unclear
  <2>1. rules[q][k].sets[m].target \notin unclear'
    BY <1>1, WrongThen
  <2> QED BY <1>1, <2>1 DEF history
<1>5. PICK p \in DOMAIN stack : DueAt(p, q, k, m)
  BY <1>1, <1>2, <1>3, <1>4, WrongBefore DEF OwedOK
<1>6. PICK t : t = [Top EXCEPT !.rule = @ + 1, !.entry = 1, !.left = <<>>]
  OBVIOUS
<1>7. t \in Passes /\ t.id = Top.id /\ t.rule = Top.rule + 1 /\ t.entry = 1
  <2>1. <<>> \in Seq(Assignments)
    OBVIOUS
  <2> QED BY <1>1, <1>6, <2>1, MovedTyped, MovedFields
<1>8. PICK n \in Nat : n = Len(stack)
  BY <1>1, TopTyped
<1>9. /\ DOMAIN stack' = 1 .. n /\ DOMAIN stack = 1 .. n /\ stack'[n] = t
      /\ \A j \in 1 .. n - 1 : stack'[j] = stack[j]
      /\ Top = stack[n] /\ Top.rule \in Nat
  <2>1. /\ DOMAIN stack' = 1 .. Len(stack) /\ stack'[Len(stack)] = t
        /\ \A j \in 1 .. Len(stack) - 1 : stack'[j] = stack[j]
    BY <1>1, <1>6, <1>7, OnTopTyped DEF NextRule
  <2>2. DOMAIN stack = 1 .. Len(stack) /\ Top = stack[Len(stack)] /\ Top.rule \in Nat
    BY <1>1, TopTyped, MovedFields
  <2> QED BY <1>8, <2>1, <2>2
<1>10. CASE p \in 1 .. n - 1
  <2>1. stack'[p] = stack[p] /\ p \in DOMAIN stack'
    BY <1>8, <1>9, <1>10
  <2> QED BY <1>1, <1>3, <1>5, <2>1, DueKept
<1>11. CASE p = n
  <2>1. /\ q \in Nat /\ m \in 1 .. Len(rules[q][k].sets) /\ Len(rules[q][k].sets) \in Nat
    BY <1>2, Place
  <2>2. Len(Top.left) = 0
    BY <1>1
  <2>3. Concerns(rules[q], Top.id) /\ WillCome(n, q)
    BY <1>1, <1>5, <1>9, <1>11, <2>1, <2>2 DEF DueAt
  <2>4. Top.rule < q
    BY <1>1, <1>9, <2>3 DEF WillCome
  <2>5. WillCome(n, q)'
    <3>1. PICK r \in Nat : r = Top.rule
      BY <1>9
    <3>2. stack'[n].rule = r + 1 /\ stack'[n].entry = 1 /\ r < q
      BY <1>7, <1>9, <2>4, <3>1
    <3>3. r + 1 < q \/ r + 1 = q
      BY <2>1, <3>2
    <3> QED BY <3>2, <3>3 DEF WillCome
  <2>6. Concerns(rules[q], Top.id)
    BY <2>3
  <2>7. PICK id : id = Top.id /\ stack'[n].id = id
    BY <1>7, <1>9
  <2>8. Concerns(rules[q], id)'
    BY <1>1, <1>3, <2>6, <2>7, ConcernsKept
  <2>9. Concerns(rules[q], stack[n].id)'
    BY <2>7, <2>8 DEF Concerns, RefsOf, DirectRefs, Resolved, Frozen
  <2> QED BY <1>5, <1>9, <1>11, <2>5, <2>9 DEF DueAt
<1> QED BY <1>5, <1>8, <1>9, <1>10, <1>11

\* A pass that has moved comes to the rule.
LEMMA ComesThen ==
    ASSUME conf' = conf, NEW q, NEW k, NEW m, Untouched(q), NEW p,
           Concerns(rules[q], stack[p].id), stack'[p].id = stack[p].id,
           stack'[p].rule < q \/ (stack'[p].rule = q /\ stack'[p].entry = 1)
    PROVE  DueAt(p, q, k, m)'
<1>1. PICK id : id = stack[p].id /\ stack'[p].id = id
  OBVIOUS
<1>2. Concerns(rules[q], id)'
  BY <1>1, ConcernsKept
<1>3. Concerns(rules[q], stack[p].id)'
  BY <1>1, <1>2 DEF Concerns, RefsOf, DirectRefs, Resolved, Frozen
<1>4. WillCome(p, q)'
  BY DEF WillCome
<1> QED BY <1>3, <1>4 DEF DueAt

\* The rule that is being considered.
LEMMA ConsiderOwn ==
    ASSUME TypeOK, OriginOK, PassesOK, ConsiderEntry, NEW q \in Settled', q = Top.rule,
           NEW k \in DOMAIN rules[q], NEW m \in DOMAIN rules[q][k].sets, Wrong(q, k, m)'
    PROVE  \E p \in DOMAIN stack' : DueAt(p, q, k, m)'
<1>1. PICK n, j : n \in Nat /\ n = Len(stack) /\ j = Top.entry
  BY Considered
<1>2. PICK rule : rule = rules[q]
  OBVIOUS
<1>3. conf' = conf /\ q \in DOMAIN rules /\ j \in DOMAIN rule /\ n \in DOMAIN stack'
  BY <1>1, <1>2, Considered
<1>4. PICK o \in Outcomes(rule[j].cond) :
         /\ memory' = o.memory
         /\ \/ o.val = 0 /\ stack'[n].rule = q /\ stack'[n].entry = j + 1
            \/ o.val \in {0, Undefined} /\ (o.val = 0 => j = Len(rule))
            \/ /\ o.val \notin {0, Undefined} /\ stack'[n].left = rule[j].sets
               /\ stack'[n].rule = q + 1
  BY <1>1, <1>2, Considered
<1>5. /\ rule \in Rules /\ DOMAIN rule = 1 .. Len(rule) /\ Len(rule) \in Nat /\ k \in Nat
      /\ m \in 1 .. Len(rule[k].sets) /\ Len(rule[k].sets) \in Nat
      /\ rule[k].sets[m].target \in Targets(rule)
  BY <1>2, <1>3, Place
<1>6. Decides(rule, k)' /\ rule[k].sets[m].target \notin unclear' /\ Plain(q)'
  BY <1>2, <1>3, SettledThen, WrongThen
<1>7. /\ Value(rule[j].cond)' = o.val
      /\ \A i \in 1 .. j - 1 : Value(rule[i].cond)' = 0
  BY <1>1, <1>2, <1>4, <1>5, <1>6, Judged
<1>8. /\ Value(rule[k].cond)' \notin {0, Undefined}
      /\ \A i \in 1 .. k - 1 : Value(rule[i].cond)' = 0
  BY <1>6 DEF Decides
<1>9. j \in Nat /\ j >= 1 /\ k >= 1 /\ j <= Len(rule) /\ k <= Len(rule)
  BY <1>2, <1>3, <1>5
<1>10. ~(k < j)
  <2>1. k < j => k \in 1 .. j - 1
    BY <1>5, <1>9
  <2> QED BY <1>7, <1>8, <2>1
<1>11. j < k => o.val = 0
  <2>1. j < k => j \in 1 .. k - 1
    BY <1>5, <1>9
  <2> QED BY <1>7, <1>8, <2>1
<1>12. CASE o.val = 0 /\ stack'[n].rule = q /\ stack'[n].entry = j + 1
  <2>1. stack'[n].entry > 1
    BY <1>9, <1>12
  <2> QED BY <1>3, <1>12, <2>1 DEF DueAt
<1>13. CASE o.val \in {0, Undefined} /\ (o.val = 0 => j = Len(rule))
  <2>1. j = k
    BY <1>5, <1>9, <1>10, <1>11, <1>13
  <2> QED BY <1>7, <1>8, <1>13, <2>1
<1>14. CASE /\ o.val \notin {0, Undefined} /\ stack'[n].left = rule[j].sets
            /\ stack'[n].rule = q + 1
  <2>1. j = k
    BY <1>5, <1>9, <1>10, <1>11, <1>14
  <2>2. Len(rule[k].sets) > Len(rule[k].sets) - m
    BY <1>5
  <2>3. rules'[q] = rule
    BY <1>2, <1>3 DEF rules
  <2> QED BY <1>3, <1>14, <2>1, <2>2, <2>3 DEF DueAt
<1> QED BY <1>4, <1>12, <1>13, <1>14

\* The conditions of a rule are considered.
LEMMA ConsiderOwed ==
    ASSUME TypeOK, OriginOK, PassesOK, OwedOK, ConsiderEntry, NEW q \in Settled',
           NEW k \in DOMAIN rules[q], NEW m \in DOMAIN rules[q][k].sets, Wrong(q, k, m)'
    PROVE  \E p \in DOMAIN stack' : DueAt(p, q, k, m)'
<1>1. PICK n, r, j : n \in Nat /\ n = Len(stack) /\ r = Top.rule /\ j = Top.entry
  BY Considered
<1>2. /\ UNCHANGED <<conf, mirror, vars, given, stale>> /\ stack # <<>>
      /\ r \in DOMAIN rules /\ j \in DOMAIN rules[r]
      /\ DOMAIN stack' = 1 .. n /\ n \in DOMAIN stack /\ Top = stack[n]
      /\ Top.left = <<>> /\ stack'[n].id = Top.id
      /\ \A p \in 1 .. n - 1 : stack'[p] = stack[p]
      /\ stack'[n].rule = r \/ (stack'[n].rule = r + 1 /\ stack'[n].entry = 1)
  BY <1>1, Considered
<1>3. CASE q = r
  BY <1>1, <1>3, ConsiderOwn
<1>4. CASE q # r
  <2>1. PICK d : d = rules[r][j].cond
    OBVIOUS
  <2>2. PICK o \in Outcomes(d) : memory' = o.memory
    BY <1>1, <2>1, Considered
  <2>3. unclear' = (IF j = 1 THEN unclear \ Targets(rules[r]) ELSE unclear) \cup Affected(d)
    BY <1>1, <2>1 DEF ConsiderEntry
  <2>4. /\ q \in DOMAIN rules
        /\ \A i \in DOMAIN rules \ {q} : Targets(rules[i]) \cap Targets(rules[q]) = {}
    BY <1>2, SettledThen
  <2>5. PICK t : t = rules[q][k].sets[m].target
    OBVIOUS
  <2>6. t \in Targets(rules[q]) /\ t \notin unclear' /\ q \in Nat
        /\ m \in 1 .. Len(rules[q][k].sets) /\ Len(rules[q][k].sets) \in Nat
    BY <1>2, <2>4, <2>5, Place, WrongThen
  <2>7. d \in Exprs(rules[r]) /\ r \in Nat
    BY <1>2, <2>1, ConfTyped, RuleTyped
  <2>8. Untouched(q) /\ None \notin stale
    BY <1>2, <2>2, <2>3, <2>6, <2>7, EvaluationLeaves
  <2>9. t \notin unclear
    BY <1>2, <1>4, <2>3, <2>4, <2>6
  <2>10. PICK p \in DOMAIN stack : DueAt(p, q, k, m)
    BY <1>2, <2>4, <2>5, <2>8, <2>9, WrongBefore DEF OwedOK
  <2>11. DOMAIN stack = 1 .. n
    BY <1>1, <1>2, TopTyped
  <2>12. CASE p \in 1 .. n - 1
    <3>1. stack'[p] = stack[p] /\ p \in DOMAIN stack'
      BY <1>2, <2>12
    <3> QED BY <1>2, <2>8, <2>10, <3>1, DueKept
  <2>13. CASE p = n
    <3>1. Len(Top.left) = 0
      BY <1>2
    <3>2. Concerns(rules[q], stack[n].id) /\ WillCome(n, q)
      BY <1>1, <1>2, <1>4, <2>6, <2>10, <2>13, <3>1 DEF DueAt
    <3>3. r < q
      BY <1>1, <1>2, <1>4, <3>2 DEF WillCome
    <3>4. stack'[n].rule < q \/ (stack'[n].rule = q /\ stack'[n].entry = 1)
      <4>1. r + 1 < q \/ r + 1 = q
        BY <2>6, <2>7, <3>3
      <4> QED BY <1>2, <3>3, <4>1
    <3>5. DueAt(n, q, k, m)'
      BY <1>2, <2>8, <3>2, <3>4, ComesThen
    <3> QED BY <1>1, <1>2, <2>11, <3>5
  <2> QED BY <1>1, <2>10, <2>11, <2>12, <2>13
<1> QED BY <1>3, <1>4

\* The assignments of a settled rule that a pass has still to make, one of which is done.
LEMMA OutputOwed ==
    ASSUME TypeOK, OriginOK, PassesOK, OwedOK, SetOutput, NEW q \in Settled',
           NEW k \in DOMAIN rules[q], NEW m \in DOMAIN rules[q][k].sets, Wrong(q, k, m)'
    PROVE  \E p \in DOMAIN stack' : DueAt(p, q, k, m)'
<1>1. PICK n, r, left, d :
         n \in Nat /\ n = Len(stack) /\ r = Top.rule - 1 /\ left = Top.left /\ d = Head(Top.left).rval
  BY AtHand, TopTyped DEF SetOutput
<1>2. /\ Assigning /\ UNCHANGED <<conf, mirror, vars, stale>> /\ stack' = Done
      /\ unclear' = unclear \cup Affected(d)
  BY <1>1 DEF SetOutput
<1>3. PICK o \in Outcomes(d) :
         /\ memory' = o.memory
         /\ given' = IF o.val = Undefined THEN given
                     ELSE [given EXCEPT ![Head(left).target] = o.val]
  BY <1>1 DEF SetOutput
<1>4. PICK j \in DOMAIN rules[r] :
         LET sets == rules[r][j].sets
             i == Len(sets) - Len(left) + 1
         IN  /\ Rest(left, sets) /\ i \in DOMAIN sets
             /\ Head(left) = sets[i]
             /\ Plain(r) => Decides(rules[r], j) \/ Targets(rules[r]) \subseteq unclear
  BY <1>1, <1>2, HeadFrom
<1>5. PICK l \in Nat : l = Len(left) /\ l >= 1
  BY <1>1, <1>2, MovedTyped, AtHand
<1>6. PICK i : i = Len(rules[r][j].sets) - l + 1
  OBVIOUS
<1>7. /\ i \in DOMAIN rules[r][j].sets /\ Head(left) = rules[r][j].sets[i]
      /\ Plain(r) => Decides(rules[r], j) \/ Targets(rules[r]) \subseteq unclear
  BY <1>4, <1>5, <1>6
<1>8. r \in DOMAIN rules /\ q \in DOMAIN rules
  BY <1>1, <1>2, HeadFrom, SettledThen
<1>9. PICK s, t : s = rules[q][k].sets[m] /\ t = s.target
  OBVIOUS
<1>10. /\ t \in Targets(rules[q]) /\ s.rval \in Exprs(rules[q]) /\ q \in Nat /\ r \in Nat
       /\ m \in 1 .. Len(rules[q][k].sets) /\ Len(rules[q][k].sets) \in Nat
       /\ Head(left).target \in Targets(rules[r]) /\ d \in Exprs(rules[r])
       /\ Len(rules[r][j].sets) \in Nat /\ DOMAIN rules[r][j].sets = 1 .. Len(rules[r][j].sets)
       /\ rules[q] \in Rules
  <2>1. /\ t \in Targets(rules[q]) /\ s.rval \in Exprs(rules[q]) /\ q \in Nat
        /\ m \in 1 .. Len(rules[q][k].sets) /\ Len(rules[q][k].sets) \in Nat
        /\ rules[q] \in Rules
    BY <1>8, <1>9, Place
  <2>2. /\ r \in Nat /\ rules[r] \in Rules
        /\ rules[r][j].sets[i].target \in Targets(rules[r])
        /\ rules[r][j].sets[i].rval \in Exprs(rules[r])
    BY <1>7, <1>8, Place
  <2>3. Len(rules[r][j].sets) \in Nat /\ DOMAIN rules[r][j].sets = 1 .. Len(rules[r][j].sets)
    BY <2>2, RuleTyped
  <2>4. d = rules[r][j].sets[i].rval /\ Head(left) = rules[r][j].sets[i]
    BY <1>1, <1>7
  <2> QED BY <2>1, <2>2, <2>3, <2>4
<1>11. /\ Decides(rules[q], k)' /\ IsLast(rules[q][k].sets, m) /\ t \notin unclear'
       /\ Value(s.rval)' # Undefined /\ given'[t] # Value(s.rval)'
  <2>1. PICK rule : rule = rules[q]
    OBVIOUS
  <2>2. /\ Decides(rule, k)' /\ IsLast(rule[k].sets, m) /\ t \notin unclear'
        /\ Value(s.rval)' # Undefined /\ given'[t] # Value(s.rval)'
    BY <1>2, <1>9, <2>1, WrongThen
  <2>3. rules'[q] = rule
    BY <1>2, <2>1 DEF rules
  <2>4. Decides(rules[q], k)'
    BY <2>2, <2>3, DecidesAt
  <2> QED BY <2>1, <2>2, <2>4
<1>12. /\ Plain(q)' /\ Targets(rules[q]) \subseteq Outputs
       /\ \A c \in DOMAIN rules \ {q} : Targets(rules[c]) \cap Targets(rules[q]) = {}
  BY <1>2, SettledThen
<1>13. Untouched(q) /\ None \notin stale
  BY <1>2, <1>3, <1>8, <1>10, <1>11, EvaluationLeaves
<1>14. t \notin unclear
  BY <1>2, <1>11
<1>15. DOMAIN stack = 1 .. n /\ DOMAIN stack' = 1 .. n /\ n \in DOMAIN stack' /\ n \in DOMAIN stack
  BY <1>1, <1>2, AtHand, TopTyped
<1>16. /\ \A p \in 1 .. n - 1 : stack'[p] = stack[p]
       /\ stack[n].id = stack'[n].id /\ stack[n].rule = stack'[n].rule
       /\ stack[n].entry = stack'[n].entry /\ stack'[n].left = Tail(left)
       /\ stack[n].left = left /\ stack[n].rule = r + 1
  <2>1. Top.rule \in Nat /\ Top = stack[n] /\ stack # <<>>
    BY <1>1, <1>2, AtHand, TopTyped, MovedFields
  <2>2. PICK u : u = [Top EXCEPT !.left = Tail(@)]
    OBVIOUS
  <2>3. u.id = Top.id /\ u.rule = Top.rule /\ u.entry = Top.entry /\ u.left = Tail(left)
    BY <1>1, <2>1, <2>2, MovedFields
  <2>4. stack'[n] = u /\ \A p \in 1 .. n - 1 : stack'[p] = stack[p]
    BY <1>1, <1>2, <2>2, AtHand
  <2>5. Top.rule = r + 1
    BY <1>1, <2>1
  <2> QED BY <1>1, <2>1, <2>3, <2>4, <2>5
<1>17. Len(Tail(left)) = l - 1
  BY <1>1, <1>2, <1>5, AtHand, MovedTyped
<1>18. rules'[q] = rules[q] /\ rules' = rules
  BY <1>2 DEF rules
<1>19. PICK size \in Nat : size = Len(rules[q][k].sets)
  BY <1>10
      \* With more than that left, the pass still makes the assignment m.
<1>20. ASSUME q = r, j = k, l > size - m, i # m
       PROVE  DueAt(n, q, k, m)'
  <2>1. i = size - l + 1 /\ m \in Nat /\ i \in Nat
    BY <1>6, <1>7, <1>10, <1>19, <1>20
  <2>2. l - 1 > size - m
    BY <1>20, <2>1
  <2>3. stack'[n].rule = q + 1 /\ Len(stack'[n].left) = l - 1
    BY <1>16, <1>17, <1>20
  <2> QED BY <1>18, <1>19, <2>2, <2>3 DEF DueAt
<1>21. ASSUME q = r PROVE Decides(rules[q], j) /\ Decides(rules[q], j)' /\ j = k
  <2>1. /\ Plain(q)
        /\ Decides(rules[q], j) => Decides(rules[q], j)'
    BY <1>2, <1>3, <1>7, <1>8, <1>10, <1>12, <1>21, PlainKept
  <2>2. Decides(rules[q], j)
    BY <1>7, <1>10, <1>14, <1>21, <2>1
  <2>3. Decides(rules[q], j)'
    BY <2>1, <2>2
  <2>4. PICK rule : rule = rules[q] /\ rules'[q] = rule
    BY <1>18
  <2>5. /\ Value(rule[k].cond)' \notin {0, Undefined}
        /\ \A c \in 1 .. k - 1 : Value(rule[c].cond)' = 0
    BY <1>2, <1>9, <2>4, WrongThen DEF Decides
  <2>6. /\ Value(rule[j].cond)' \notin {0, Undefined}
        /\ \A c \in 1 .. j - 1 : Value(rule[c].cond)' = 0
    <3>1. ASSUME NEW c, c = rule[j].cond PROVE Value(c)' \notin {0, Undefined}
      <4>1. (Value(rules[q][j].cond) \notin {0, Undefined})'
        BY <2>3 DEF Decides
      <4> QED BY <2>4, <3>1, <4>1 DEF Value, Resolved, Frozen, Now
    <3>2. ASSUME NEW b \in 1 .. j - 1, NEW c, c = rule[b].cond PROVE Value(c)' = 0
      <4>1. (Value(rules[q][b].cond) = 0)'
        BY <2>3 DEF Decides
      <4> QED BY <2>4, <3>2, <4>1 DEF Value, Resolved, Frozen, Now
    <3>3. ASSUME NEW b \in 1 .. j - 1 PROVE Value(rule[b].cond)' = 0
      BY <3>2
    <3>4. Value(rule[j].cond)' \notin {0, Undefined}
      BY <3>1
    <3> QED BY <3>3, <3>4
  <2>7. j \in Nat /\ k \in Nat /\ j >= 1 /\ k >= 1
    BY <1>8, <1>21, ConfTyped, RuleTyped
  <2>8. ~(j < k)
    <3>1. j < k => j \in 1 .. k - 1
      BY <2>7
    <3> QED BY <2>5, <2>6, <3>1
  <2>9. ~(k < j)
    <3>1. k < j => k \in 1 .. j - 1
      BY <2>7
    <3> QED BY <2>5, <2>6, <3>1
  <2> QED BY <2>2, <2>3, <2>7, <2>8, <2>9
<1>22. CASE t # Head(left).target
  <2>1. given'[t] = given[t]
    BY <1>3, <1>22
  <2>2. PICK p \in DOMAIN stack : DueAt(p, q, k, m)
    BY <1>2, <1>8, <1>9, <1>13, <1>14, <2>1, WrongBefore DEF OwedOK
  <2>3. CASE p \in 1 .. n - 1
    <3>1. stack'[p] = stack[p]
      BY <1>16, <2>3
    <3> QED BY <1>2, <1>13, <1>15, <2>2, <3>1, DueKept
  <2>4. CASE p = n /\ q # r
    <3>1. stack[n].rule # q + 1
      BY <1>10, <1>16, <2>4
    <3> QED BY <1>2, <1>13, <1>15, <1>16, <2>2, <2>4, <3>1, DueKept
  <2>5. CASE p = n /\ q = r
    <3>1. j = k
      BY <1>21, <2>5
    <3>2. i # m
      BY <1>7, <1>9, <1>22, <2>5, <3>1
    <3>3. l > size - m
      BY <1>5, <1>10, <1>16, <1>19, <2>2, <2>5 DEF DueAt, WillCome
    <3> QED BY <1>15, <1>20, <2>5, <3>1, <3>2, <3>3
  <2> QED BY <1>15, <2>2, <2>3, <2>4, <2>5
<1>23. CASE t = Head(left).target
  <2>1. q = r
    BY <1>8, <1>10, <1>12, <1>23
  <2>2. j = k
    BY <1>21, <2>1
  <2>3. i \in 1 .. size /\ i = size - l + 1 /\ m \in 1 .. size
    BY <1>6, <1>7, <1>10, <1>19, <2>1, <2>2
  <2>4. ~(i > m)
    <3>1. i > m => i \in m + 1 .. size
      BY <2>3
    <3> QED BY <1>7, <1>9, <1>11, <1>19, <1>23, <2>1, <2>2, <3>1 DEF IsLast
  <2>5. CASE i = m
    <3>1. d = s.rval
      BY <1>1, <1>7, <1>9, <2>1, <2>2, <2>5
    <3>2. ~FirstTime(d)
      BY <1>2, <1>8, <1>10, <1>11, <1>12, <2>1, FirstAffects
    <3>3. d \in Expressions /\ d \in Exprs(rules[q])
      BY <1>8, <1>10, <2>1, ConfTyped, ExprPlace
    <3>4. Resolved(d).op # "changed"
      <4>1. Resolved(d)'.op # "changed" /\ Resolved(d)' = Resolved(d)
        BY <1>2, <1>13, <3>3, SettledThen DEF Untouched
      <4> QED BY <4>1
    <3>5. o.val = Value(d)
      BY <3>2, <3>3, <3>4, OutcomeTyped
    <3>6. Value(d)' = Value(d)
      BY <1>11, <1>13, <3>1, <3>3 DEF Untouched
    <3>7. given'[t] = o.val
      BY <1>3, <1>10, <1>11, <1>12, <1>23, <3>1, <3>5, <3>6 DEF TypeOK
    <3> QED BY <1>11, <3>1, <3>5, <3>6, <3>7
  <2>6. CASE i < m
    <3>1. l > size - m /\ i # m
      BY <2>3, <2>6
    <3> QED BY <1>15, <1>20, <2>1, <2>2, <3>1
  <2>7. i < m \/ i = m
    BY <2>3, <2>4
  <2> QED BY <2>5, <2>6, <2>7
<1> QED BY <1>22, <1>23

\* A variable is given an expression: what does not refer to the variable stays.
LEMMA VariableLeaves ==
    ASSUME TypeOK, OriginOK, PassesOK, Assigning, UNCHANGED <<conf, mirror>>,
           NEW v \in Vars, v = Head(Top.left).target,
           vars' = [vars EXCEPT ![v] = Head(Top.left).rval], DebuggerLooks(Head(Top.left).rval),
           stale \subseteq stale' \cup {v},
           NEW q \in Settled', \A e \in Exprs(rules[q]) : e.ref # v
    PROVE  Untouched(q) /\ None \notin stale
<1>1. /\ q \in DOMAIN rules /\ Targets(rules[q]) \subseteq Outputs /\ None \notin stale'
      /\ \A e \in Exprs(rules[q]) : RefsOf(e)' \cap stale' = {}
  BY SettledThen
<1>2. None # v /\ v \notin Inputs /\ v \notin Outputs /\ None \notin Nodes
  BY FunctionsAssumption
<1>3. PICK r, d : r = Top.rule - 1 /\ d = Head(Top.left).rval
  OBVIOUS
<1>4. PICK j \in DOMAIN rules[r] :
         \E i \in DOMAIN rules[r][j].sets : Head(Top.left) = rules[r][j].sets[i]
  BY <1>3, HeadFrom
<1>5. PICK i \in DOMAIN rules[r][j].sets : Head(Top.left) = rules[r][j].sets[i]
  BY <1>4
<1>6. r \in DOMAIN rules /\ d \in Holdable /\ d \in Expressions
  BY <1>3, HeadFrom, AtHand DEF Holdable
<1>7. r # q
  <2>1. v \in Targets(rules[r])
    BY <1>5, <1>6, Place
  <2> QED BY <1>1, <1>2, <2>1
<1>8. PICK o \in Outcomes(d) : memory' = o.memory
  BY <1>3 DEF DebuggerLooks
<1>9. Resolved(d) = d
  BY <1>6, ResolvedTyped DEF Holdable
<1>10. \A n \in Nodes : n # d.node => memory'[n] = memory[n]
  BY <1>6, <1>8, <1>9, OutcomeTyped, RemembersTyped
<1>11. ASSUME NEW e \in Exprs(rules[q])
       PROVE  /\ Resolved(e)' = Resolved(e) /\ RefsOf(e)' = RefsOf(e)
              /\ Value(e)' = Value(e) /\ RefsOf(e) \cap stale = {}
  <2>1. PICK f : f = Resolved(e)
    OBVIOUS
  <2>2. e.ref # v
    OBVIOUS
  <2>3. e \in Expressions /\ vars \in [Vars -> Holdable]
    BY <1>1, ConfTyped, ExprPlace DEF TypeOK
  <2>4. f \in Holdable
    BY <2>1, <2>3, ResolvedTyped
  <2>5. Resolved(e)' = f
    BY <2>1, <2>2, <2>3 DEF Resolved
  <2>6. ASSUME f.node # None PROVE f.node # d.node
    <3> SUFFICES ASSUME f.node = d.node PROVE FALSE
      OBVIOUS
    <3>1. /\ \A b \in DOMAIN rules[q] : \A c \in DOMAIN rules[q][b].sets :
                rules[q][b].sets[c].rval.node # d.node
          /\ \A w \in Vars : vars[w].node = d.node => w = v
      BY <1>1, <1>3, <1>4, <1>5, <1>6, <1>7, <2>6, RvalNode
    <3>2. CASE e.ref \in Vars
      BY <2>1, <2>2, <2>3, <3>1, <3>2, ResolvedTyped
    <3>3. CASE e.ref \notin Vars
      <4>1. f = e
        BY <2>1, <2>3, <3>3, ResolvedTyped
      <4>2. PICK b \in DOMAIN rules[q] :
               \/ e = rules[q][b].cond
               \/ \E c \in DOMAIN rules[q][b].sets : e = rules[q][b].sets[c].rval
        BY <1>1, ConfTyped, ExprPlace
      <4>3. CASE e = rules[q][b].cond
        BY <1>1, <1>3, <1>4, <1>5, <1>6, <2>6, <4>1, <4>3, CondNode
      <4> QED BY <3>1, <4>1, <4>2, <4>3
    <3> QED BY <3>2, <3>3
  <2>7. f.node # None => memory'[f.node] = memory[f.node]
    BY <1>10, <2>4, <2>6 DEF Holdable, Expressions
  <2>8. Value(e)' = Value(e) /\ RefsOf(e)' = RefsOf(e)
    BY <2>1, <2>3, <2>5, <2>7, ValueLocal
  <2>9. RefsOf(e) \subseteq {e.ref, f.ref}
    BY <2>1 DEF RefsOf, DirectRefs
  <2>10. v \notin RefsOf(e)
    BY <1>2, <2>2, <2>4, <2>9 DEF Holdable
  <2> QED BY <1>1, <2>1, <2>5, <2>8, <2>10
<1> QED BY <1>1, <1>2, <1>11 DEF Untouched

\* The passes under way, once a variable is assigned, are due as before.
LEMMA DoneDue ==
    ASSUME TypeOK, PassesOK, Assigning, conf' = conf, Head(Top.left).target \in Vars,
           NEW q \in DOMAIN rules, Targets(rules[q]) \subseteq Outputs, NEW k, NEW m, Untouched(q),
           NEW p \in DOMAIN stack, stack'[p] = Done[p], DueAt(p, q, k, m)
    PROVE  DueAt(p, q, k, m)'
<1>1. PICK n \in Nat : n = Len(stack)
  BY AtHand, TopTyped
<1>2. /\ DOMAIN stack = 1 .. n /\ Top = stack[n] /\ stack # <<>>
      /\ \A i \in 1 .. n - 1 : Done[i] = stack[i]
  BY <1>1, AtHand, TopTyped
<1>3. CASE p \in 1 .. n - 1
  BY <1>2, <1>3, DueKept
<1>4. CASE p = n
  <2>1. PICK u : u = [Top EXCEPT !.left = Tail(@)]
    OBVIOUS
  <2>2. u.id = Top.id /\ u.rule = Top.rule /\ u.entry = Top.entry /\ stack'[n] = u
    BY <1>1, <1>2, <1>4, <2>1, MovedFields, AtHand
  <2>3. PICK r : r = Top.rule - 1
    OBVIOUS
  <2>4. Head(Top.left).target \in Targets(rules[r]) /\ r \in DOMAIN rules
    <3>1. PICK j \in DOMAIN rules[r] : \E i \in DOMAIN rules[r][j].sets :
             Head(Top.left) = rules[r][j].sets[i]
      BY <2>3, HeadFrom
    <3>2. r \in DOMAIN rules
      BY <2>3, HeadFrom
    <3> QED BY <3>1, <3>2, Place
  <2>5. r # q
    BY <2>4, FunctionsAssumption
  <2>6. stack[n].rule # q + 1
    <3>1. Top.rule \in Nat /\ q \in Nat
      BY <1>2, MovedFields, ConfTyped
    <3> QED BY <1>2, <2>3, <2>5, <3>1
  <2> QED BY <1>2, <1>4, <2>2, <2>6, DueKept
<1> QED BY <1>2, <1>3, <1>4

\* A variable is set: its own pass comes, or what it leaves is as it was.
LEMMA VariableOwed ==
    ASSUME TypeOK, OriginOK, PassesOK, OwedOK, NEW held \in BOOLEAN, SetVariable(held),
           NEW q \in Settled',
           NEW k \in DOMAIN rules[q], NEW m \in DOMAIN rules[q][k].sets, Wrong(q, k, m)'
    PROVE  \E p \in DOMAIN stack' : DueAt(p, q, k, m)'
<1>1. PICK n, v, d :
         /\ n \in Nat /\ n = Len(stack)
         /\ v = Head(Top.left).target /\ d = Head(Top.left).rval
  BY AtHand, TopTyped DEF SetVariable
<1>2. /\ Assigning /\ v \in Vars /\ UNCHANGED <<conf, mirror, given, unclear>>
      /\ \/ /\ stack' = Done /\ UNCHANGED <<vars, memory, stale>>
         \/ /\ vars' = [vars EXCEPT ![v] = d] /\ DebuggerLooks(d)
            /\ Notice(v, Done, held) /\ stale' = FollowedOf(v, held, v)
  BY <1>1 DEF SetVariable
<1>3. /\ q \in DOMAIN rules /\ Targets(rules[q]) \subseteq Outputs /\ None \notin stale'
      /\ \A e \in Exprs(rules[q]) : RefsOf(e)' \cap stale' = {}
  BY <1>2, SettledThen
<1>4. /\ Done \in Seq(Passes) /\ Len(Done) = n /\ DOMAIN Done = 1 .. n /\ DOMAIN stack = 1 .. n
  BY <1>1, <1>2, AtHand, TopTyped
<1>5. v # None
  BY <1>2, FunctionsAssumption
<1>6. v \in Inputs \cup Vars \cup {None}
  BY <1>2
<1>7. DOMAIN stack \subseteq DOMAIN stack' /\ \A p \in DOMAIN stack : stack'[p] = Done[p]
  <2>1. CASE stack' = Done
    BY <1>4, <2>1
  <2>2. CASE Notice(v, Done, held)
    <3>1. /\ \A p \in 1 .. n : stack'[p] = Done[p]
          /\ held => stack' = Done
          /\ ~held => DOMAIN stack' = 1 .. n + 1 /\ stack'[n + 1] = Pass(v)
      BY <1>4, <1>6, <2>2, NoticeTyped
    <3> QED BY <1>4, <3>1
  <2> QED BY <1>2, <2>1, <2>2
      \* What the variable leaves is wrong as it was before, and so due as before.
<1>8. ASSUME Untouched(q), None \notin stale
      PROVE  \E p \in DOMAIN stack' : DueAt(p, q, k, m)'
  <2>1. PICK t : t = rules[q][k].sets[m].target
    OBVIOUS
  <2>2. t \notin unclear /\ given'[t] = given[t]
    BY <1>2, <2>1, WrongThen
  <2>3. PICK p \in DOMAIN stack : DueAt(p, q, k, m)
    BY <1>2, <1>3, <1>8, <2>1, <2>2, WrongBefore DEF OwedOK
  <2>4. DueAt(p, q, k, m)'
    BY <1>1, <1>2, <1>3, <1>7, <1>8, <2>3, DoneDue
  <2> QED BY <1>7, <2>3, <2>4
<1>9. CASE stack' = Done /\ UNCHANGED <<vars, memory, stale>>
  <2>1. ASSUME NEW e \in Exprs(rules[q])
        PROVE  /\ Resolved(e)' = Resolved(e) /\ RefsOf(e)' = RefsOf(e) /\ Value(e)' = Value(e)
    BY <1>2, <1>9 DEF Resolved, RefsOf, DirectRefs, Frozen, Value, Now
  <2> QED BY <1>3, <1>8, <1>9, <2>1 DEF Untouched
<1>10. CASE /\ vars' = [vars EXCEPT ![v] = d] /\ DebuggerLooks(d)
            /\ Notice(v, Done, held) /\ stale' = FollowedOf(v, held, v)
  <2>1. CASE \A e \in Exprs(rules[q]) : e.ref # v
    <3>1. stale \subseteq stale' \cup {v}
      BY <1>5, <1>10 DEF FollowedOf
    <3>2. Untouched(q) /\ None \notin stale
      BY <1>1, <1>2, <1>10, <2>1, <3>1, VariableLeaves
    <3> QED BY <1>8, <3>2
  <2>2. ASSUME NEW e \in Exprs(rules[q]), e.ref = v
        PROVE  \E p \in DOMAIN stack' : DueAt(p, q, k, m)'
    <3>1. e.op = "ref"
      BY <1>2, <1>3, <2>2, ConfTyped, ExprPlace, ResolvedTyped
    <3>2. v \in RefsOf(e)'
      BY <2>2, <3>1 DEF RefsOf, DirectRefs, Frozen
    <3>3. v \notin stale'
      BY <1>3, <3>2
    <3>4. ~held
      BY <1>10, <3>3 DEF FollowedOf
    <3>5. n + 1 \in DOMAIN stack' /\ stack'[n + 1] = Pass(v)
      <4>1. /\ DOMAIN stack' = 1 .. n + 1 /\ stack'[n + 1] = Pass(v)
        BY <1>4, <1>6, <1>10, <3>4, NoticeTyped
      <4> QED BY <1>1, <4>1
    <3>6. stack'[n + 1].id = v /\ stack'[n + 1].rule = 1 /\ stack'[n + 1].entry = 1
      BY <1>6, <3>5, PassTyped
    <3>7. Concerns(rules[q], stack[n + 1].id)'
      <4>1. PICK rule : rule = rules[q] /\ rules'[q] = rule
        BY <1>2 DEF rules
      <4>2. Concerns(rule, v)'
        BY <3>2, <4>1 DEF Concerns, Exprs
      <4> QED BY <3>6, <4>1, <4>2 DEF Concerns, RefsOf, DirectRefs, Resolved, Frozen
    <3>8. WillCome(n + 1, q)'
      <4>1. 1 < q \/ 1 = q
        BY <1>3, ConfTyped
      <4> QED BY <3>6, <4>1 DEF WillCome
    <3> QED BY <3>5, <3>7, <3>8 DEF DueAt
  <2> QED BY <2>1, <2>2
<1> QED BY <1>2, <1>9, <1>10

\* A pass that ends has come to every rule.
LEMMA EndOwed ==
    ASSUME TypeOK, OwedOK, EndPass, NEW q \in Settled', NEW k \in DOMAIN rules[q],
           NEW m \in DOMAIN rules[q][k].sets, Wrong(q, k, m)'
    PROVE  \E p \in DOMAIN stack' : DueAt(p, q, k, m)'
<1>1. /\ stack # <<>> /\ Top.left = <<>> /\ Top.rule > Len(rules) /\ stack' = Below
      /\ UNCHANGED <<conf, mirror, memory, vars, given, later, history>>
  BY DEF EndPass
<1>2. /\ q \in DOMAIN rules /\ None \notin stale
      /\ \A e \in Exprs(rules[q]) : RefsOf(e)' \cap stale = {}
  BY <1>1, SettledThen DEF history
<1>3. Untouched(q)
  <2>1. ASSUME NEW e \in Exprs(rules[q])
        PROVE  /\ Resolved(e)' = Resolved(e) /\ RefsOf(e)' = RefsOf(e) /\ Value(e)' = Value(e)
    BY <1>1 DEF Resolved, RefsOf, DirectRefs, Frozen, Value, Now
  <2> QED BY <1>2, <2>1 DEF Untouched
<1>4. rules[q][k].sets[m].target \notin unclear
  <2>1. rules[q][k].sets[m].target \notin unclear'
    BY <1>1, WrongThen
  <2> QED BY <1>1, <2>1 DEF history
<1>5. PICK p \in DOMAIN stack : DueAt(p, q, k, m)
  BY <1>1, <1>2, <1>3, <1>4, WrongBefore DEF OwedOK
<1>6. PICK n \in Nat : n = Len(stack)
  BY <1>1, TopTyped
<1>7. /\ DOMAIN stack = 1 .. n /\ DOMAIN stack' = 1 .. n - 1 /\ Top = stack[n]
      /\ \A j \in 1 .. n - 1 : stack'[j] = stack[j]
  BY <1>1, <1>6, TopTyped
<1>8. CASE p = n
  <2>1. /\ q \in Nat /\ q <= Len(rules) /\ Len(rules) \in Nat /\ Top.rule \in Nat
        /\ m \in 1 .. Len(rules[q][k].sets) /\ Len(rules[q][k].sets) \in Nat
    BY <1>1, <1>2, Place, ConfTyped, MovedFields
  <2>2. Top.rule > q /\ Len(Top.left) = 0
    BY <1>1, <2>1
  <2> QED BY <1>5, <1>7, <1>8, <2>1, <2>2 DEF DueAt, WillCome
<1>9. CASE p \in 1 .. n - 1
  <2>1. stack'[p] = stack[p]
    BY <1>7, <1>9
  <2> QED BY <1>1, <1>3, <1>5, <1>7, <1>9, <2>1, DueKept
<1> QED BY <1>5, <1>6, <1>7, <1>8, <1>9

\* A callback: with no pass under way no output was wrong.
LEMMA NothingWrong ==
    ASSUME TypeOK, OwedOK, stack = <<>>, NEW q \in Settled, NEW k \in DOMAIN rules[q],
           NEW m \in DOMAIN rules[q][k].sets
    PROVE  ~Wrong(q, k, m)
BY DEF OwedOK

\* A rule that does not depend on the input that changed.
LEMMA InputLeaves ==
    ASSUME TypeOK, UNCHANGED <<conf, memory, vars>>, NEW i \in Inputs,
           \A x \in Inputs \ {i} : mirror'[x] = mirror[x],
           stale \subseteq stale' \cup {i},
           NEW q \in Settled', \A e \in Exprs(rules[q]) : i \notin RefsOf(e)'
    PROVE  Untouched(q) /\ None \notin stale
<1>1. /\ q \in DOMAIN rules /\ None \notin stale'
      /\ \A e \in Exprs(rules[q]) : RefsOf(e)' \cap stale' = {}
  BY SettledThen
<1>2. None # i
  BY FunctionsAssumption
<1>3. ASSUME NEW e \in Exprs(rules[q])
      PROVE  /\ Resolved(e)' = Resolved(e) /\ RefsOf(e)' = RefsOf(e)
             /\ Value(e)' = Value(e) /\ RefsOf(e) \cap stale = {}
  <2>1. e \in Expressions
    BY <1>1, ConfTyped, ExprPlace
  <2>2. Resolved(e)' = Resolved(e) /\ RefsOf(e)' = RefsOf(e)
    BY DEF Resolved, RefsOf, DirectRefs, Frozen
  <2>3. PICK f : f = Resolved(e)
    OBVIOUS
  <2>4. f.ref \in Inputs \cup {None}
    BY <2>1, <2>3, ResolvedTyped DEF Holdable, Expressions
  <2>5. i \notin RefsOf(e)
    BY <2>2
  <2>6. f.ref \notin RefsOf(e) \/ f.ref = None \/ mirror'[f.ref] = mirror[f.ref]
    BY <2>4, <2>5
  <2>7. Value(e)' = Value(e)
    BY <2>1, <2>2, <2>3, <2>6, ValueLocal
  <2> QED BY <1>1, <2>2, <2>5, <2>7
<1> QED BY <1>1, <1>2, <1>3 DEF Untouched

\* An input changes: a pass comes to the rules that depend on it, or it is stale.
LEMMA InputOwed ==
    ASSUME TypeOK, OwedOK, stack = <<>>, UNCHANGED <<conf, memory, vars, given, unclear>>,
           NEW i \in Inputs, \A x \in Inputs \ {i} : mirror'[x] = mirror[x],
           stale \subseteq stale' \cup {i},
           i \in stale' \/ \E id \in {i, None} : Notice(id, <<>>, FALSE),
           NEW q \in Settled',
           NEW k \in DOMAIN rules[q], NEW m \in DOMAIN rules[q][k].sets, Wrong(q, k, m)'
    PROVE  \E p \in DOMAIN stack' : DueAt(p, q, k, m)'
<1>1. /\ q \in DOMAIN rules
      /\ \A e \in Exprs(rules[q]) : RefsOf(e)' \cap stale' = {}
  BY SettledThen
<1>2. CASE \A e \in Exprs(rules[q]) : i \notin RefsOf(e)'
  <2>1. Untouched(q) /\ None \notin stale
    BY <1>2, InputLeaves
  <2>2. PICK t : t = rules[q][k].sets[m].target
    OBVIOUS
  <2>3. t \notin unclear /\ given'[t] = given[t]
    BY <2>2, WrongThen
  <2>4. q \in Settled /\ Wrong(q, k, m)
    BY <1>1, <2>1, <2>2, <2>3, WrongBefore
  <2> QED BY <2>4, NothingWrong
<1>3. ASSUME NEW e \in Exprs(rules[q]), i \in RefsOf(e)'
      PROVE  \E p \in DOMAIN stack' : DueAt(p, q, k, m)'
  <2>1. i \notin stale'
    BY <1>1, <1>3
  <2>2. PICK id \in {i, None} : Notice(id, <<>>, FALSE)
    BY <2>1
  <2>3. <<>> \in Seq(Passes) /\ Len(<<>>) = 0 /\ id \in Inputs \cup Vars \cup {None}
    OBVIOUS
  <2>4. DOMAIN stack' = 1 .. 0 + 1 /\ stack'[0 + 1] = Pass(id)
    BY <2>2, <2>3, NoticeTyped
  <2>5. 1 \in DOMAIN stack' /\ stack'[1] = Pass(id)
    BY <2>4
  <2>6. stack'[1].id = id /\ stack'[1].rule = 1 /\ stack'[1].entry = 1
    BY <2>3, <2>5, PassTyped
  <2>7. Concerns(rules[q], stack[1].id)'
    <3>1. PICK rule : rule = rules[q] /\ rules'[q] = rule
      BY DEF rules
    <3>2. Concerns(rule, id)'
      BY <1>3, <2>2, <3>1 DEF Concerns, Exprs
    <3> QED BY <2>6, <3>1, <3>2 DEF Concerns, RefsOf, DirectRefs, Resolved, Frozen
  <2>8. WillCome(1, q)'
    <3>1. 1 < q \/ 1 = q
      BY <1>1, ConfTyped
    <3> QED BY <2>6, <3>1 DEF WillCome
  <2> QED BY <2>5, <2>7, <2>8 DEF DueAt
<1> QED BY <1>2, <1>3

\* A full pass comes to every rule.
LEMMA ReadyOwed ==
    ASSUME TypeOK, conf' = conf, Notice(None, <<>>, FALSE), NEW q \in Settled', NEW k, NEW m
    PROVE  \E p \in DOMAIN stack' : DueAt(p, q, k, m)'
<1>1. q \in DOMAIN rules
  BY SettledThen
<1>2. <<>> \in Seq(Passes) /\ Len(<<>>) = 0 /\ None \in Inputs \cup Vars \cup {None}
  OBVIOUS
<1>3. DOMAIN stack' = 1 .. 0 + 1 /\ stack'[0 + 1] = Pass(None)
  BY <1>2, NoticeTyped
<1>4. 1 \in DOMAIN stack' /\ stack'[1] = Pass(None)
  BY <1>3
<1>5. stack'[1].id = None /\ stack'[1].rule = 1 /\ stack'[1].entry = 1
  BY <1>2, <1>4, PassTyped
<1>6. Concerns(rules[q], stack[1].id)'
  BY <1>5 DEF Concerns
<1>7. WillCome(1, q)'
  <2>1. 1 < q \/ 1 = q
    BY <1>1, ConfTyped
  <2> QED BY <1>5, <2>1 DEF WillCome
<1> QED BY <1>4, <1>6, <1>7 DEF DueAt

\* A peer that goes makes values undefined, and nothing wrong.
LEMMA LostOwed ==
    ASSUME TypeOK, OwedOK, NEW i \in Inputs, PeerLost(i), NEW q \in Settled',
           NEW k \in DOMAIN rules[q], NEW m \in DOMAIN rules[q][k].sets, Wrong(q, k, m)'
    PROVE  FALSE
<1>1. /\ stack = <<>> /\ mirror' = [mirror EXCEPT ![i] = None]
      /\ UNCHANGED <<conf, memory, vars, given, stack, later, history>>
  BY DEF PeerLost, Idle
<1>2. /\ q \in DOMAIN rules /\ None \notin stale
      /\ \A e \in Exprs(rules[q]) : RefsOf(e)' \cap stale = {}
  BY <1>1, SettledThen DEF history
<1>3. ASSUME NEW e \in Exprs(rules[q])
      PROVE  /\ Resolved(e)' = Resolved(e) /\ RefsOf(e)' = RefsOf(e)
             /\ Value(e)' \in {Value(e), Undefined}
  <2>1. Resolved(e)' = Resolved(e) /\ RefsOf(e)' = RefsOf(e)
    BY <1>1 DEF Resolved, RefsOf, DirectRefs, Frozen
  <2>2. PICK f : f = Resolved(e)
    OBVIOUS
  <2>3. f \in Holdable
    BY <1>2, <2>2, ConfTyped, ExprPlace, ResolvedTyped
  <2>4. f.ref \in Inputs \cup {None} /\ mirror \in [Inputs -> Mirrored \cup {None}]
    BY <2>3 DEF Holdable, Expressions, TypeOK
  <2>5. CASE f.ref = i
    <3>1. Now(f)' = Undefined
      BY <1>1, <2>4, <2>5 DEF Now
    <3>2. Value(e)' = IF f.op = "lit" THEN f.val
                      ELSE IF Frozen(f) THEN memory[f.node] ELSE Undefined
      BY <1>1, <2>1, <2>2, <3>1 DEF Value, Frozen
    <3>3. f.op = "lit" => Value(e) = f.val
      BY <2>2 DEF Value
    <3>4. f.op # "lit" /\ Frozen(f) => Value(e) = memory[f.node]
      BY <2>2 DEF Value
    <3> QED BY <2>1, <3>2, <3>3, <3>4
  <2>6. CASE f.ref # i
    <3>1. e \in Expressions
      BY <1>2, ConfTyped, ExprPlace
    <3>2. f.ref = None \/ mirror'[f.ref] = mirror[f.ref]
      BY <1>1, <2>4, <2>6
    <3> QED BY <1>1, <2>1, <2>2, <3>1, <3>2, ValueLocal
  <2> QED BY <2>5, <2>6
<1>4. Untouched(q)
  BY <1>2, <1>3 DEF Untouched
<1>5. PICK t : t = rules[q][k].sets[m].target
  OBVIOUS
<1>6. t \notin unclear /\ given'[t] = given[t]
  <2>1. t \notin unclear'
    BY <1>1, <1>5, WrongThen
  <2> QED BY <1>1, <2>1 DEF history
<1>7. q \in Settled /\ Wrong(q, k, m)
  BY <1>1, <1>2, <1>4, <1>5, <1>6, WrongBefore
<1> QED BY <1>1, <1>2, <1>7, NothingWrong

LEMMA StutterOwed ==
    ASSUME TypeOK, OwedOK, UNCHANGED allVars, NEW q \in Settled', NEW k \in DOMAIN rules[q],
           NEW m \in DOMAIN rules[q][k].sets, Wrong(q, k, m)'
    PROVE  \E p \in DOMAIN stack' : DueAt(p, q, k, m)'
<1>1. UNCHANGED <<conf, mirror, memory, vars, given, stack, stale, unclear>>
  BY DEF allVars, history
<1>2. /\ q \in DOMAIN rules /\ None \notin stale
      /\ \A e \in Exprs(rules[q]) : RefsOf(e)' \cap stale = {}
  BY <1>1, SettledThen
<1>3. Untouched(q)
  <2>1. ASSUME NEW e \in Exprs(rules[q])
        PROVE  /\ Resolved(e)' = Resolved(e) /\ RefsOf(e)' = RefsOf(e) /\ Value(e)' = Value(e)
    BY <1>1 DEF Resolved, RefsOf, DirectRefs, Frozen, Value, Now
  <2> QED BY <1>2, <2>1 DEF Untouched
<1>4. rules[q][k].sets[m].target \notin unclear
  BY <1>1, WrongThen
<1>5. PICK p \in DOMAIN stack : DueAt(p, q, k, m)
  BY <1>1, <1>2, <1>3, <1>4, WrongBefore DEF OwedOK
<1> QED BY <1>1, <1>3, <1>5, DueKept

\* Every step leaves each wrong output of a settled rule to a pass that is due.
LEMMA OwedStep ==
    ASSUME TypeOK, OriginOK, PassesOK, OwedOK, [Next]_allVars
    PROVE  OwedOK'
<1>1. conf' = conf /\ rules' = rules
  BY DEF Next, allVars, SkipRule, ConsiderEntry, SetOutput, SetVariable, EndPass, ValueChanges,
         FlagFollows, FlagChanges, FlagSet, PeerReady, PeerLost, rules
<1>2. ASSUME NEW q \in Settled', NEW k \in DOMAIN rules[q], NEW m \in DOMAIN rules[q][k].sets,
             Wrong(q, k, m)'
      PROVE  \E p \in DOMAIN stack' : DueAt(p, q, k, m)'
  <2>1. CASE UNCHANGED allVars
    BY <1>2, <2>1, StutterOwed
  <2>2. CASE SkipRule
    BY <1>2, <2>2, SkipOwed
  <2>3. CASE ConsiderEntry
    BY <1>2, <2>3, ConsiderOwed
  <2>4. CASE SetOutput
    BY <1>2, <2>4, OutputOwed
  <2>5. CASE \E held \in BOOLEAN : SetVariable(held)
    BY <1>2, <2>5, VariableOwed
  <2>6. CASE EndPass
    BY <1>2, <2>6, EndOwed
  <2>7. ASSUME NEW i \in Inputs, NEW val \in Values, NEW flag \in {0, 1}, NEW held \in BOOLEAN,
               ValueChanges(i, val, flag, held)
        PROVE  \E p \in DOMAIN stack' : DueAt(p, q, k, m)'
    <3>1. /\ stack = <<>> /\ UNCHANGED <<conf, memory, vars, given, unclear>>
          /\ mirror' = [mirror EXCEPT ![i].val = val]
          /\ Notice(i, <<>>, held) /\ stale' = FollowedOf(i, held, i)
      BY <2>7 DEF ValueChanges, Idle
    <3>2. \A x \in Inputs \ {i} : mirror'[x] = mirror[x]
      BY <3>1 DEF TypeOK
    <3>3. stale \subseteq stale' \cup {i}
      BY <3>1, FunctionsAssumption DEF FollowedOf
    <3>4. i \in stale' \/ \E id \in {i, None} : Notice(id, <<>>, FALSE)
      BY <3>1 DEF FollowedOf, Notice
    <3> QED BY <1>2, <3>1, <3>2, <3>3, <3>4, InputOwed
  <2>8. ASSUME NEW i \in Inputs, NEW flag, FlagSet(i, flag), stack = <<>>
        PROVE  \E p \in DOMAIN stack' : DueAt(p, q, k, m)'
    <3>1. /\ UNCHANGED <<conf, memory, vars, given, unclear>> /\ stale' = stale \cup {i}
          /\ mirror' = [mirror EXCEPT ![i].flag = flag]
      BY <2>8 DEF FlagSet
    <3>2. \A x \in Inputs \ {i} : mirror'[x] = mirror[x]
      BY <3>1 DEF TypeOK
    <3> QED BY <1>2, <2>8, <3>1, <3>2, InputOwed
  <2>9. CASE FlagFollows
    <3>1. later.id \in Inputs /\ FlagSet(later.id, later.flag) /\ stack = <<>>
      BY <2>9 DEF FlagFollows, TypeOK
    <3> QED BY <2>8, <3>1
  <2>10. CASE \E i \in Inputs : FlagChanges(i)
    BY <2>8, <2>10 DEF FlagChanges, Idle
  <2>11. ASSUME NEW i \in Inputs, NEW val \in Values, NEW flag \in {0, 1}, NEW held \in BOOLEAN,
                PeerReady(i, val, flag, held)
         PROVE  \E p \in DOMAIN stack' : DueAt(p, q, k, m)'
    <3>1. /\ stack = <<>> /\ UNCHANGED <<conf, memory, vars, given, unclear>>
          /\ mirror' = [mirror EXCEPT ![i] = [val |-> val, flag |-> flag]]
          /\ Notice(None, <<>>, held) /\ stale' = FollowedOf(None, held, i)
      BY <2>11 DEF PeerReady, Idle
    <3>2. \A x \in Inputs \ {i} : mirror'[x] = mirror[x]
      BY <3>1 DEF TypeOK
    <3>3. CASE held
      <4>1. stale' = stale \cup {i}
        BY <3>1, <3>3 DEF FollowedOf
      <4> QED BY <1>2, <3>1, <3>2, <4>1, InputOwed
    <3>4. CASE ~held
      <4>1. Notice(None, <<>>, FALSE)
        BY <3>1, <3>4 DEF Notice
      <4> QED BY <1>2, <3>1, <4>1, ReadyOwed
    <3> QED BY <3>3, <3>4
  <2>12. CASE \E i \in Inputs : PeerLost(i)
    BY <1>2, <2>12, LostOwed
  <2> QED BY <2>1, <2>2, <2>3, <2>4, <2>5, <2>6, <2>7, <2>9, <2>10, <2>11, <2>12 DEF Next
<1> QED BY <1>1, <1>2 DEF OwedOK

-----------------------------------------------------------------------------
(***************************************************************************)
(* The theorems                                                            *)
(***************************************************************************)

\* The invariant holds at the start.
LEMMA InitInv ==
    ASSUME Init
    PROVE  IInv
<1>1. TypeOK
  BY InitTyped
<1>2. OriginOK
  BY DEF Init, OriginOK
<1>3. LastOK
  BY DEF Init, LastOK
<1>4. PassesOK
  BY DEF Init, PassesOK
<1>5. ReportsOK
  <2> SUFFICES ASSUME NEW q \in DOMAIN rules, rules[q][1].cond.op = "changed"
               PROVE  ReportOf(q)
    BY DEF ReportsOK
  <2>1. rules[q][1].cond.node \in Nodes /\ rules[q][1].cond.ref \in Inputs
    BY <1>1, Reporter
  <2> QED BY <2>1 DEF Init, ReportOf
<1>6. OwedOK
  <2>1. None \in stale
    BY DEF Init
  <2> QED BY <2>1 DEF OwedOK, Settled
<1> QED BY <1>1, <1>2, <1>3, <1>4, <1>5, <1>6 DEF IInv

\* And every step keeps it.
LEMMA StepInv ==
    ASSUME IInv, [Next]_allVars
    PROVE  IInv'
BY TypeStep, OriginStep, LastStep, ReportsStep, PassesStep, OwedStep DEF IInv

\* Every state of a behaviour satisfies the inductive invariant.
THEOREM IInvHolds == Spec => []IInv
<1>1. Init => IInv
  BY InitInv
<1>2. IInv /\ [Next]_allVars => IInv'
  BY StepInv
<1> QED BY <1>1, <1>2, PTL DEF Spec

\* A CHANGED that begins a rule reports every change of its input exactly once
\* (func_changed_expr_eval): between callbacks nothing is left to report and nothing was
\* reported twice, whatever the rules assign and whichever passes come to the rule.
THEOREM ChangeReportedOnceHolds == Spec => []ChangeReportedOnce
<1>1. IInv => ChangeReportedOnce
  <2> SUFFICES ASSUME IInv, Idle, NEW r \in Range(rules), r[1].cond.op = "changed"
               PROVE  owed[r[1].cond.node] \in {"no", "held"}
    BY DEF ChangeReportedOnce
  <2>1. PICK q \in DOMAIN rules : r = rules[q]
    BY DEF Range
  <2>2. ReportOf(q) /\ rules[q][1].cond.node \in Nodes
    BY <2>1, Reporter DEF IInv, ReportsOK
  <2>3. owed \in [Nodes -> {"no", "yes", "held", "twice"}] /\ stack = <<>>
    BY DEF IInv, TypeOK, Idle
  <2> QED BY <2>1, <2>2, <2>3 DEF ReportOf
<1> QED BY <1>1, IInvHolds, PTL

\* Between callbacks no output differs from what the first true entry of the one rule that
\* decides it gives, for any rules: the passes that come, the frozen EVALs
\* (eval_func_expr_have_ref_to) and the variables that change on the way leave none behind.
THEOREM BlocksSettledHolds == Spec => []BlocksSettled
<1>1. IInv => BlocksSettled
  <2> SUFFICES ASSUME IInv, Idle, NEW q \in Settled, NEW k \in DOMAIN rules[q],
                      NEW m \in DOMAIN rules[q][k].sets
               PROVE  ~Wrong(q, k, m)
    BY DEF BlocksSettled
  <2> QED BY NothingWrong DEF IInv, Idle
<1> QED BY <1>1, IInvHolds, PTL
=============================================================================
