---------------------------- MODULE EngineProofs ----------------------------
(***************************************************************************)
(* The rule engine, with proofs for any rules, ids and values: between two *)
(* callbacks what the label blocks give is in the variables and outputs,   *)
(* and rules without feedback cannot exhaust the stack.                    *)
(***************************************************************************)
EXTENDS Engine, FiniteSetTheorems, SequenceTheorems, WellFoundedInduction, TLAPS

-----------------------------------------------------------------------------
(***************************************************************************)
(* Induction over natural numbers, with a set where the library has a      *)
(* predicate                                                               *)
(***************************************************************************)

\* A set of natural numbers has a least element.
LEMMA Least ==
    ASSUME NEW S \in SUBSET Nat, S # {}
    PROVE  \E n \in S : \A m \in S : n <= m
<1> DEFINE T == {0 .. n : n \in S}
<1>1. T \subseteq FiniteSubsetsOf(Nat) /\ T # {}
  <2>1. \A n \in S : 0 .. n \in SUBSET Nat /\ IsFiniteSet(0 .. n)
    BY FS_Interval
  <2> QED BY <2>1 DEF FiniteSubsetsOf
<1>2. PICK t \in T : \A u \in T : ~(<<u, t>> \in StrictSubsetOrdering(Nat))
  BY <1>1, FS_StrictSubsetOrderingWellFounded, WFMin
<1>3. PICK n \in S : t = 0 .. n
  OBVIOUS
<1>4. ASSUME NEW m \in S, m < n PROVE FALSE
  <2>1. 0 .. m \in T /\ 0 .. m \in SUBSET Nat /\ t \in SUBSET Nat
    BY <1>3
  <2>2. 0 .. m \subseteq t /\ n \in t /\ n \notin 0 .. m
    BY <1>3, <1>4
  <2>3. <<0 .. m, t>> \in StrictSubsetOrdering(Nat)
    BY <2>1, <2>2 DEF StrictSubsetOrdering
  <2> QED BY <1>2, <2>1, <2>3
<1> QED BY <1>4

\* A set with 0 that is closed under successor has all natural numbers.
LEMMA NatInd ==
    ASSUME NEW S, 0 \in S, \A n \in Nat : n \in S => n + 1 \in S
    PROVE  Nat \subseteq S
<1> SUFFICES ASSUME ~(Nat \subseteq S) PROVE FALSE
  OBVIOUS
<1> DEFINE T == Nat \ S
<1>1. PICK n \in T : \A m \in T : n <= m
  <2>1. T \in SUBSET Nat /\ T # {}
    OBVIOUS
  <2> HIDE DEF T
  <2> QED BY <2>1, Least
<1>2. n # 0 /\ n - 1 \in Nat /\ n - 1 \notin T
  BY <1>1
<1> QED BY <1>2

-----------------------------------------------------------------------------
(***************************************************************************)
(* The values of variables and the ids they lead to, link by link          *)
(***************************************************************************)

Depth == Cardinality(Vars)

LEMMA DepthNat == Depth \in Nat
  BY EngineAssumption, FS_CardinalityType DEF Depth

\* The n-th function of Chain, and of Reach, from the one before it in f.
Link(vs, m, f, n) ==
    [v \in Vars |-> ValueOf(vs[v], m, IF n = 0 THEN [u \in Vars |-> Endless] ELSE f[n - 1])]

Hop(vs, f, n) ==
    [v \in Vars |-> RefsVia(vs[v], IF n = 0 THEN [u \in Vars |-> {}] ELSE f[n - 1])]

\* The function that Chain chooses exists: one link more each time.
LEMMA LinksExist ==
    ASSUME NEW vs, NEW m, NEW k \in Nat
    PROVE  \E f : f = [n \in 0 .. k |-> Link(vs, m, f, n)]
<1> DEFINE S == {j \in Nat : \E f : f = [n \in 0 .. j |-> Link(vs, m, f, n)]}
<1>1. 0 \in S
  <2> DEFINE f == [n \in 0 .. 0 |-> Link(vs, m, 0, 0)]
  <2>1. \A n \in 0 .. 0 : Link(vs, m, f, n) = Link(vs, m, 0, 0)
    BY DEF Link
  <2>2. f = [n \in 0 .. 0 |-> Link(vs, m, f, n)]
    BY <2>1
  <2> QED BY <2>2
<1>2. ASSUME NEW j \in Nat, j \in S
      PROVE  j + 1 \in S
  <2>1. PICK f : f = [n \in 0 .. j |-> Link(vs, m, f, n)]
    BY <1>2
  <2> DEFINE g == [n \in 0 .. j + 1 |-> IF n <= j THEN f[n] ELSE Link(vs, m, f, n)]
  <2>2. ASSUME NEW n \in 0 .. j + 1
        PROVE  Link(vs, m, g, n) = Link(vs, m, f, n)
    <3>1. n # 0 => g[n - 1] = f[n - 1]
      OBVIOUS
    <3> HIDE DEF g
    <3> QED BY <3>1 DEF Link
  <2>3. ASSUME NEW n \in 0 .. j + 1
        PROVE  g[n] = Link(vs, m, g, n)
    <3>1. n <= j => f[n] = Link(vs, m, f, n)
      BY <2>1
    <3> QED BY <2>2, <3>1
  <2>4. g = [n \in 0 .. j + 1 |-> Link(vs, m, g, n)]
    BY <2>3
  <2> HIDE DEF g
  <2> QED BY <2>4
<1> HIDE DEF S
<1>3. Nat \subseteq S
  BY <1>1, <1>2, NatInd
<1> QED BY <1>3 DEF S

\* Chain is what its definition says.
LEMMA ChainLinks ==
    ASSUME NEW vs, NEW m, NEW n \in 0 .. Depth
    PROVE  Chain(vs, m)[n] = Link(vs, m, Chain(vs, m), n)
<1> DEFINE IsChain(f) == f = [k \in 0 .. Depth |-> Link(vs, m, f, k)]
<1>1. \E f : IsChain(f)
  BY DepthNat, LinksExist
<1>2. Chain(vs, m) = CHOOSE f : IsChain(f)
  BY DEF Chain, Link, Depth
<1>3. IsChain(Chain(vs, m))
  BY <1>1, <1>2
<1> QED BY <1>3

\* The same for Reach.
LEMMA HopsExist ==
    ASSUME NEW vs, NEW k \in Nat
    PROVE  \E f : f = [n \in 0 .. k |-> Hop(vs, f, n)]
<1> DEFINE S == {j \in Nat : \E f : f = [n \in 0 .. j |-> Hop(vs, f, n)]}
<1>1. 0 \in S
  <2> DEFINE f == [n \in 0 .. 0 |-> Hop(vs, 0, 0)]
  <2>1. \A n \in 0 .. 0 : Hop(vs, f, n) = Hop(vs, 0, 0)
    BY DEF Hop
  <2>2. f = [n \in 0 .. 0 |-> Hop(vs, f, n)]
    BY <2>1
  <2> QED BY <2>2
<1>2. ASSUME NEW j \in Nat, j \in S
      PROVE  j + 1 \in S
  <2>1. PICK f : f = [n \in 0 .. j |-> Hop(vs, f, n)]
    BY <1>2
  <2> DEFINE g == [n \in 0 .. j + 1 |-> IF n <= j THEN f[n] ELSE Hop(vs, f, n)]
  <2>2. ASSUME NEW n \in 0 .. j + 1
        PROVE  Hop(vs, g, n) = Hop(vs, f, n)
    <3>1. n # 0 => g[n - 1] = f[n - 1]
      OBVIOUS
    <3> HIDE DEF g
    <3> QED BY <3>1 DEF Hop
  <2>3. ASSUME NEW n \in 0 .. j + 1
        PROVE  g[n] = Hop(vs, g, n)
    <3>1. n <= j => f[n] = Hop(vs, f, n)
      BY <2>1
    <3> QED BY <2>2, <3>1
  <2>4. g = [n \in 0 .. j + 1 |-> Hop(vs, g, n)]
    BY <2>3
  <2> HIDE DEF g
  <2> QED BY <2>4
<1> HIDE DEF S
<1>3. Nat \subseteq S
  BY <1>1, <1>2, NatInd
<1> QED BY <1>3 DEF S

LEMMA ReachHops ==
    ASSUME NEW vs, NEW n \in 0 .. Depth
    PROVE  Reach(vs)[n] = Hop(vs, Reach(vs), n)
<1> DEFINE IsReach(f) == f = [k \in 0 .. Depth |-> Hop(vs, f, k)]
<1>1. \E f : IsReach(f)
  BY DepthNat, HopsExist
<1>2. Reach(vs) = CHOOSE f : IsReach(f)
  BY DEF Reach, Hop, Depth
<1>3. IsReach(Reach(vs))
  BY <1>1, <1>2
<1> QED BY <1>3

\* References that are not followed have no value ...
LEMMA ChainFirst ==
    ASSUME NEW vs, NEW m
    PROVE  Chain(vs, m)[0] = [v \in Vars |-> ValueOf(vs[v], m, [u \in Vars |-> Endless])]
<1>1. Chain(vs, m)[0] = Link(vs, m, Chain(vs, m), 0)
  BY DepthNat, ChainLinks
<1> QED BY <1>1 DEF Link

\* ... and one followed further has the value of the variable it leads to.
LEMMA ChainNext ==
    ASSUME NEW vs, NEW m, NEW n \in Nat, n + 1 <= Depth
    PROVE  Chain(vs, m)[n + 1] = [v \in Vars |-> ValueOf(vs[v], m, Chain(vs, m)[n])]
<1>1. n + 1 \in 0 .. Depth /\ n + 1 # 0 /\ (n + 1) - 1 = n
  BY DepthNat
<1>2. Chain(vs, m)[n + 1] = Link(vs, m, Chain(vs, m), n + 1)
  BY <1>1, ChainLinks
<1> QED BY <1>1, <1>2 DEF Link

\* The ids a variable leads to, by its own expression and by those further on.
LEMMA ReachFirst ==
    ASSUME NEW vs
    PROVE  Reach(vs)[0] = [v \in Vars |-> RefsVia(vs[v], [u \in Vars |-> {}])]
<1>1. Reach(vs)[0] = Hop(vs, Reach(vs), 0)
  BY DepthNat, ReachHops
<1> QED BY <1>1 DEF Hop

LEMMA ReachNext ==
    ASSUME NEW vs, NEW n \in Nat, n + 1 <= Depth
    PROVE  Reach(vs)[n + 1] = [v \in Vars |-> RefsVia(vs[v], Reach(vs)[n])]
<1>1. n + 1 \in 0 .. Depth /\ n + 1 # 0 /\ (n + 1) - 1 = n
  BY DepthNat
<1>2. Reach(vs)[n + 1] = Hop(vs, Reach(vs), n + 1)
  BY <1>1, ReachHops
<1> QED BY <1>1, <1>2 DEF Hop

-----------------------------------------------------------------------------
(***************************************************************************)
(* What an expression is worth                                             *)
(***************************************************************************)

Results == Int \cup {Undefined, Endless}

Expressible == [Vars -> Expressions]
Mirrors == [Points -> Int \cup {None}]

\* Evaluation yields a number or one of the two outcomes without one.
LEMMA ComputeTyped ==
    ASSUME NEW e \in Expressions, NEW x \in Results
    PROVE  /\ Compute(e, x) \in Results
           /\ x # Endless => Compute(e, x) # Endless
<1>1. e.val \in Int /\ {Undefined, Endless} \cap Int = {} /\ Undefined # Endless
  BY EngineAssumption DEF Expressions
<1>2. CASE x \in {Undefined, Endless}
  <2>1. Compute(e, x) = x
    BY <1>2 DEF Compute
  <2> QED BY <2>1
<1>3. CASE x \notin {Undefined, Endless}
  <2>1. x \in Int
    BY <1>3 DEF Results
  <2>2. Compute(e, x) \in Int
    BY <1>1, <1>3, <2>1 DEF Compute
  <2> QED BY <1>1, <2>2 DEF Results
<1> QED BY <1>2, <1>3

LEMMA ValueTyped ==
    ASSUME NEW e \in Expressions, NEW m \in Mirrors, NEW values,
           e.ref \in Vars => values[e.ref] \in Results
    PROVE  ValueOf(e, m, values) \in Results
<1>1. \A x \in Results : Compute(e, x) \in Results
  BY ComputeTyped
<1>2. e.ref \in Points => PointValue(m, e.ref) \in Results
  BY DEF PointValue, Results, Mirrors
<1>3. e.val \in Results
  BY DEF Results, Expressions
<1> QED BY <1>1, <1>2, <1>3 DEF ValueOf, Results

LEMMA ChainTyped ==
    ASSUME NEW vs \in Expressible, NEW m \in Mirrors
    PROVE  Chain(vs, m)[Depth] \in [Vars -> Results]
<1> DEFINE S == {n \in Nat : n <= Depth => Chain(vs, m)[n] \in [Vars -> Results]}
<1>1. 0 \in S
  <2> DEFINE prev == [u \in Vars |-> Endless]
  <2>1. Chain(vs, m)[0] = [v \in Vars |-> ValueOf(vs[v], m, prev)]
    BY ChainFirst
  <2>2. \A v \in Vars : prev[v] \in Results
    BY DEF Results
  <2> HIDE DEF prev
  <2>3. \A v \in Vars : ValueOf(vs[v], m, prev) \in Results
    BY <2>2, ValueTyped DEF Expressible
  <2> QED BY <2>1, <2>3
<1>2. ASSUME NEW n \in Nat, n \in S
      PROVE  n + 1 \in S
  <2> SUFFICES ASSUME n + 1 <= Depth
               PROVE  Chain(vs, m)[n + 1] \in [Vars -> Results]
    OBVIOUS
  <2>1. Chain(vs, m)[n + 1] = [v \in Vars |-> ValueOf(vs[v], m, Chain(vs, m)[n])]
    BY ChainNext
  <2>2. \A v \in Vars : Chain(vs, m)[n][v] \in Results
    BY <1>2, DepthNat
  <2>3. \A v \in Vars : ValueOf(vs[v], m, Chain(vs, m)[n]) \in Results
    BY <2>2, ValueTyped DEF Expressible
  <2> QED BY <2>1, <2>3
<1> HIDE DEF S
<1>3. Nat \subseteq S
  BY <1>1, <1>2, NatInd
<1> QED BY <1>3, DepthNat DEF S

\* An expression reads only its own reference.
LEMMA ExprLocal ==
    ASSUME NEW e, NEW m, NEW w, NEW x, NEW y, NEW r, NEW s,
           e.ref \in Vars => s[e.ref] = r[e.ref] /\ y[e.ref] = x[e.ref],
           e.ref \in Points => w[e.ref] = m[e.ref]
    PROVE  RefsVia(e, s) = RefsVia(e, r) /\ ValueOf(e, w, y) = ValueOf(e, m, x)
  BY DEF RefsVia, ValueOf, PointValue

\* An id that is not among the ids a variable leads to does not matter to it.
LEMMA ChainLocal ==
    ASSUME NEW vs, NEW ws, NEW m, NEW w, NEW c,
           \A v \in Vars \ {c} : ws[v] = vs[v],
           \A p \in Points \ {c} : w[p] = m[p]
    PROVE  \A v \in Vars \ {c} : c \notin Reach(vs)[Depth][v] =>
              /\ Reach(ws)[Depth][v] = Reach(vs)[Depth][v]
              /\ Chain(ws, w)[Depth][v] = Chain(vs, m)[Depth][v]
<1> DEFINE Same(n, v) == c \notin Reach(vs)[n][v] =>
                            /\ Reach(ws)[n][v] = Reach(vs)[n][v]
                            /\ Chain(ws, w)[n][v] = Chain(vs, m)[n][v]
           S == {n \in Nat : n <= Depth => \A v \in Vars \ {c} : Same(n, v)}
<1>1. 0 \in S
  <2> DEFINE none == [u \in Vars |-> {}]
             prev == [u \in Vars |-> Endless]
  <2>1. /\ Reach(vs)[0] = [v \in Vars |-> RefsVia(vs[v], none)]
        /\ Reach(ws)[0] = [v \in Vars |-> RefsVia(ws[v], none)]
    BY ReachFirst
  <2>2. /\ Chain(vs, m)[0] = [v \in Vars |-> ValueOf(vs[v], m, prev)]
        /\ Chain(ws, w)[0] = [v \in Vars |-> ValueOf(ws[v], w, prev)]
    BY ChainFirst
  <2> HIDE DEF none, prev
  <2>3. \A v \in Vars \ {c} : Same(0, v)
    <3> SUFFICES ASSUME NEW v \in Vars \ {c}, c \notin Reach(vs)[0][v]
                 PROVE  /\ Reach(ws)[0][v] = Reach(vs)[0][v]
                        /\ Chain(ws, w)[0][v] = Chain(vs, m)[0][v]
      OBVIOUS
    <3>1. ws[v] = vs[v] /\ vs[v].ref # c
      BY <2>1 DEF RefsVia
    <3>2. /\ RefsVia(vs[v], none) = RefsVia(ws[v], none)
          /\ ValueOf(vs[v], m, prev) = ValueOf(ws[v], w, prev)
      BY <3>1, ExprLocal
    <3> QED BY <2>1, <2>2, <3>2
  <2> QED BY <2>3
<1>2. ASSUME NEW n \in Nat, n \in S
      PROVE  n + 1 \in S
  <2> SUFFICES ASSUME n + 1 <= Depth, NEW v \in Vars \ {c}
               PROVE  Same(n + 1, v)
    OBVIOUS
  <2>1. /\ Reach(vs)[n + 1] = [u \in Vars |-> RefsVia(vs[u], Reach(vs)[n])]
        /\ Reach(ws)[n + 1] = [u \in Vars |-> RefsVia(ws[u], Reach(ws)[n])]
        /\ Chain(vs, m)[n + 1] = [u \in Vars |-> ValueOf(vs[u], m, Chain(vs, m)[n])]
        /\ Chain(ws, w)[n + 1] = [u \in Vars |-> ValueOf(ws[u], w, Chain(ws, w)[n])]
    <3>1. n + 1 <= Depth
      OBVIOUS
    <3>2. /\ Reach(vs)[n + 1] = [u \in Vars |-> RefsVia(vs[u], Reach(vs)[n])]
          /\ Reach(ws)[n + 1] = [u \in Vars |-> RefsVia(ws[u], Reach(ws)[n])]
      BY <3>1, ReachNext
    <3>3. /\ Chain(vs, m)[n + 1] = [u \in Vars |-> ValueOf(vs[u], m, Chain(vs, m)[n])]
          /\ Chain(ws, w)[n + 1] = [u \in Vars |-> ValueOf(ws[u], w, Chain(ws, w)[n])]
      BY <3>1, ChainNext
    <3> QED BY <3>2, <3>3
  <2>2. \A u \in Vars \ {c} : Same(n, u)
    BY <1>2, DepthNat
  <2> SUFFICES ASSUME c \notin RefsVia(vs[v], Reach(vs)[n])
               PROVE  /\ RefsVia(ws[v], Reach(ws)[n]) = RefsVia(vs[v], Reach(vs)[n])
                      /\ ValueOf(ws[v], w, Chain(ws, w)[n]) = ValueOf(vs[v], m, Chain(vs, m)[n])
    BY <2>1
  <2>3. ws[v] = vs[v] /\ vs[v].ref # c
    BY DEF RefsVia
  <2>4. vs[v].ref \in Vars => /\ Reach(ws)[n][vs[v].ref] = Reach(vs)[n][vs[v].ref]
                              /\ Chain(ws, w)[n][vs[v].ref] = Chain(vs, m)[n][vs[v].ref]
    BY <2>2, <2>3 DEF RefsVia
  <2> QED BY <2>3, <2>4, ExprLocal
<1> HIDE DEF S
<1>3. Nat \subseteq S
  BY <1>1, <1>2, NatInd
<1> QED BY <1>3, DepthNat DEF S

\* The same for the ids a variable leads to, after the change.
LEMMA ReachLocal ==
    ASSUME NEW vs, NEW ws, NEW c, \A v \in Vars \ {c} : ws[v] = vs[v]
    PROVE  \A v \in Vars \ {c} : c \notin Reach(ws)[Depth][v] =>
              Reach(ws)[Depth][v] = Reach(vs)[Depth][v]
<1> DEFINE m == [p \in Points |-> None]
<1>1. \A v \in Vars \ {c} : vs[v] = ws[v]
  OBVIOUS
<1>2. \A v \in Vars \ {c} : c \notin Reach(ws)[Depth][v] =>
         /\ Reach(vs)[Depth][v] = Reach(ws)[Depth][v]
         /\ Chain(vs, m)[Depth][v] = Chain(ws, m)[Depth][v]
  <2> HIDE DEF m
  <2> QED BY <1>1, ChainLocal
<1> QED BY <1>2

\* When a point is gone, an expression keeps its value or has none.
LEMMA ExprLoses ==
    ASSUME NEW e, NEW m, NEW w, NEW p, NEW x, NEW y,
           \A q \in Points \ {p} : w[q] = m[q], w[p] = None,
           \A u \in Vars : y[u] \in {Undefined, x[u]}
    PROVE  ValueOf(e, w, y) \in {Undefined, ValueOf(e, m, x)}
<1>1. e.ref \in Points => PointValue(w, e.ref) \in {Undefined, PointValue(m, e.ref)}
  BY DEF PointValue
<1>2. Compute(e, Undefined) = Undefined
  BY DEF Compute
<1> QED BY <1>1, <1>2 DEF ValueOf

\* When a point is gone, what a variable is worth stays or is undefined.
LEMMA ChainLoses ==
    ASSUME NEW vs, NEW m, NEW w, NEW p,
           \A q \in Points \ {p} : w[q] = m[q], w[p] = None
    PROVE  \A v \in Vars :
              Chain(vs, w)[Depth][v] \in {Undefined, Chain(vs, m)[Depth][v]}
<1> DEFINE S == {n \in Nat : n <= Depth =>
                    \A v \in Vars : Chain(vs, w)[n][v] \in {Undefined, Chain(vs, m)[n][v]}}
<1>1. 0 \in S
  <2> DEFINE prev == [u \in Vars |-> Endless]
  <2>1. /\ Chain(vs, m)[0] = [v \in Vars |-> ValueOf(vs[v], m, prev)]
        /\ Chain(vs, w)[0] = [v \in Vars |-> ValueOf(vs[v], w, prev)]
    BY ChainFirst
  <2> HIDE DEF prev
  <2>2. \A v \in Vars : ValueOf(vs[v], w, prev) \in {Undefined, ValueOf(vs[v], m, prev)}
    BY ExprLoses
  <2> QED BY <2>1, <2>2
<1>2. ASSUME NEW n \in Nat, n \in S
      PROVE  n + 1 \in S
  <2> SUFFICES ASSUME n + 1 <= Depth, NEW v \in Vars
               PROVE  Chain(vs, w)[n + 1][v] \in {Undefined, Chain(vs, m)[n + 1][v]}
    OBVIOUS
  <2>1. /\ Chain(vs, m)[n + 1] = [u \in Vars |-> ValueOf(vs[u], m, Chain(vs, m)[n])]
        /\ Chain(vs, w)[n + 1] = [u \in Vars |-> ValueOf(vs[u], w, Chain(vs, w)[n])]
    BY ChainNext
  <2>2. \A u \in Vars : Chain(vs, w)[n][u] \in {Undefined, Chain(vs, m)[n][u]}
    BY <1>2, DepthNat
  <2>3. ValueOf(vs[v], w, Chain(vs, w)[n]) \in {Undefined, ValueOf(vs[v], m, Chain(vs, m)[n])}
    BY <2>2, ExprLoses
  <2> QED BY <2>1, <2>3
<1> HIDE DEF S
<1>3. Nat \subseteq S
  BY <1>1, <1>2, NatInd
<1> QED BY <1>3, DepthNat DEF S

\* Variables that have an order: each holds an expression of earlier ones.
Ordered(rank, vs) ==
    \A v \in Vars : vs[v].ref \in Vars => rank[vs[v].ref] < rank[v]

\* An expression whose variable has an end has one.
LEMMA ValueEnds ==
    ASSUME NEW m \in Mirrors, NEW e \in Expressions, NEW x,
           e.ref \in Vars => x[e.ref] \in Int \cup {Undefined}
    PROVE  ValueOf(e, m, x) \in Int \cup {Undefined}
<1>1. \A y \in Int \cup {Undefined} : Compute(e, y) \in Int \cup {Undefined}
  <2>1. \A y \in Int \cup {Undefined} : y \in Results /\ y # Endless
    BY EngineAssumption DEF Results
  <2>2. Results \ {Endless} = Int \cup {Undefined}
    BY EngineAssumption DEF Results
  <2> QED BY <2>1, <2>2, ComputeTyped
<1>2. e.ref \in Points => PointValue(m, e.ref) \in Int \cup {Undefined}
  BY DEF PointValue, Mirrors
<1>3. e.val \in Int
  BY DEF Expressions
<1> QED BY <1>1, <1>2, <1>3 DEF ValueOf

\* Variables that have an order do not refer to one another in a circle,
LEMMA OrderedChainEnds ==
    ASSUME NEW rank \in [Vars -> 1 .. Depth], NEW vs \in Expressible, NEW m \in Mirrors,
           Ordered(rank, vs)
    PROVE  \A v \in Vars : Chain(vs, m)[Depth][v] \in Int \cup {Undefined}
<1> DEFINE Ends(n, v) == rank[v] <= n + 1 => Chain(vs, m)[n][v] \in Int \cup {Undefined}
           S == {n \in Nat : n <= Depth => \A v \in Vars : Ends(n, v)}
<1>1. ASSUME NEW e \in Expressions, NEW x,
             e.ref \in Vars => x[e.ref] \in Int \cup {Undefined}
      PROVE  ValueOf(e, m, x) \in Int \cup {Undefined}
  BY <1>1, ValueEnds
<1>2. \A v \in Vars : rank[v] \in Int /\ 1 <= rank[v] /\ rank[v] <= Depth
  BY DepthNat
<1>3. 0 \in S
  <2> SUFFICES ASSUME NEW v \in Vars, rank[v] <= 1
               PROVE  Chain(vs, m)[0][v] \in Int \cup {Undefined}
    OBVIOUS
  <2> DEFINE prev == [u \in Vars |-> Endless]
  <2>1. Chain(vs, m)[0] = [u \in Vars |-> ValueOf(vs[u], m, prev)]
    BY ChainFirst
  <2>2. vs[v].ref \notin Vars
    BY <1>2 DEF Ordered
  <2> HIDE DEF prev
  <2> QED BY <1>1, <2>1, <2>2 DEF Expressible
<1>4. ASSUME NEW n \in Nat, n \in S
      PROVE  n + 1 \in S
  <2> SUFFICES ASSUME n + 1 <= Depth, NEW v \in Vars, rank[v] <= n + 2
               PROVE  Chain(vs, m)[n + 1][v] \in Int \cup {Undefined}
    OBVIOUS
  <2>1. Chain(vs, m)[n + 1] = [u \in Vars |-> ValueOf(vs[u], m, Chain(vs, m)[n])]
    BY ChainNext
  <2>2. vs[v].ref \in Vars => Chain(vs, m)[n][vs[v].ref] \in Int \cup {Undefined}
    <3> SUFFICES ASSUME vs[v].ref \in Vars
                 PROVE  Chain(vs, m)[n][vs[v].ref] \in Int \cup {Undefined}
      OBVIOUS
    <3>1. rank[vs[v].ref] <= n + 1
      BY <1>2 DEF Ordered
    <3>2. Ends(n, vs[v].ref)
      BY <1>4, DepthNat
    <3> QED BY <3>1, <3>2
  <2> QED BY <1>1, <2>1, <2>2 DEF Expressible
<1> HIDE DEF S
<1>5. Nat \subseteq S
  BY <1>3, <1>4, NatInd
<1>6. \A v \in Vars : Ends(Depth, v)
  BY <1>5, DepthNat DEF S
<1> QED BY <1>2, <1>6, DepthNat

\* and lead to earlier ones only.
LEMMA OrderedReach ==
    ASSUME NEW rank \in [Vars -> 1 .. Depth], NEW vs, Ordered(rank, vs)
    PROVE  \A v \in Vars : \A u \in Reach(vs)[Depth][v] \cap Vars : rank[u] < rank[v]
<1> DEFINE S == {n \in Nat : n <= Depth =>
                    \A v \in Vars : \A u \in Reach(vs)[n][v] \cap Vars : rank[u] < rank[v]}
<1>1. \A v \in Vars : rank[v] \in Int
  BY DepthNat
<1>2. ASSUME NEW r, NEW v \in Vars,
             \A x \in Vars : \A u \in r[x] \cap Vars : rank[u] < rank[x]
      PROVE  \A u \in RefsVia(vs[v], r) \cap Vars : rank[u] < rank[v]
  <2> SUFFICES ASSUME NEW u \in RefsVia(vs[v], r) \cap Vars
               PROVE  rank[u] < rank[v]
    OBVIOUS
  <2>1. CASE u = vs[v].ref
    BY <2>1 DEF Ordered
  <2>2. CASE vs[v].ref \in Vars /\ u \in r[vs[v].ref]
    <3>1. rank[u] < rank[vs[v].ref] /\ rank[vs[v].ref] < rank[v]
      BY <1>2, <2>2 DEF Ordered
    <3> QED BY <1>1, <2>2, <3>1
  <2> QED BY <2>1, <2>2 DEF RefsVia
<1>3. 0 \in S
  <2> DEFINE none == [u \in Vars |-> {}]
  <2>1. Reach(vs)[0] = [v \in Vars |-> RefsVia(vs[v], none)]
    BY ReachFirst
  <2>2. \A x \in Vars : \A u \in none[x] \cap Vars : rank[u] < rank[x]
    OBVIOUS
  <2> HIDE DEF none
  <2> QED BY <1>2, <2>1, <2>2
<1>4. ASSUME NEW n \in Nat, n \in S
      PROVE  n + 1 \in S
  <2> SUFFICES ASSUME n + 1 <= Depth, NEW v \in Vars
               PROVE  \A u \in Reach(vs)[n + 1][v] \cap Vars : rank[u] < rank[v]
    OBVIOUS
  <2>1. Reach(vs)[n + 1] = [u \in Vars |-> RefsVia(vs[u], Reach(vs)[n])]
    BY ReachNext
  <2>2. \A x \in Vars : \A u \in Reach(vs)[n][x] \cap Vars : rank[u] < rank[x]
    BY <1>4, DepthNat
  <2> QED BY <1>2, <2>1, <2>2
<1> HIDE DEF S
<1>5. Nat \subseteq S
  BY <1>3, <1>4, NatInd
<1> QED BY <1>5, DepthNat DEF S

-----------------------------------------------------------------------------
(***************************************************************************)
(* Rules, when one thing changes                                           *)
(***************************************************************************)

ExprSet(rule) == {Exprs(rule)[k] : k \in DOMAIN Exprs(rule)}

\* All that a rule depends on.
Deps(rule) == UNION {RefsOf(Exprs(rule)[k]) : k \in DOMAIN Exprs(rule)}

\* The assignments a rule may make.
Assignments(rule) ==
    IF rule.kind = "label"
    THEN {Set(rule.target, rule.entries[j].rval) : j \in DOMAIN rule.entries}
    ELSE {rule.sets[j] : j \in DOMAIN rule.sets}

\* A step that changes nothing an expression reads but id c.
OnlyChanges(c) ==
    /\ \A v \in Vars \ {c} : vars'[v] = vars[v]
    /\ \A p \in Points \ {c} : mirror'[p] = mirror[p]

\* What the parser makes of a rule.
LEMMA RuleKinds ==
    ASSUME NEW rule \in Rules
    PROVE  \/ /\ rule.kind = "label" /\ rule.target \in Ids
              /\ rule.entries \in Seq([cond : Expressions, rval : Expressions])
              /\ \A j \in DOMAIN rule.entries :
                    rule.entries[j].cond \in Expressions /\ rule.entries[j].rval \in Expressions
           \/ /\ rule.kind = "trigger" /\ rule.cond \in Expressions
              /\ rule.sets \in Seq([target : Ids, rval : Expressions])
              /\ \A j \in DOMAIN rule.sets : rule.sets[j].rval \in Expressions
<1>1. ASSUME NEW s \in Seq([cond : Expressions, rval : Expressions]), NEW j \in DOMAIN s
      PROVE  s[j].cond \in Expressions /\ s[j].rval \in Expressions
  <2>1. s[j] \in [cond : Expressions, rval : Expressions]
    BY j \in 1 .. Len(s), ElementOfSeq
  <2> QED BY <2>1
<1>2. ASSUME NEW s \in Seq([target : Ids, rval : Expressions]), NEW j \in DOMAIN s
      PROVE  s[j].rval \in Expressions
  <2>1. s[j] \in [target : Ids, rval : Expressions]
    BY j \in 1 .. Len(s), ElementOfSeq
  <2> QED BY <2>1
<1> QED BY <1>1, <1>2 DEF Rules

\* The conditions and values of a block are all among its expressions.
LEMMA LabelExprs ==
    ASSUME NEW rule \in Rules, rule.kind = "label"
    PROVE  /\ \A j \in DOMAIN rule.entries : /\ rule.entries[j].cond \in ExprSet(rule)
                                             /\ rule.entries[j].rval \in ExprSet(rule)
           /\ ExprSet(rule) \subseteq Expressions
           /\ DOMAIN Exprs(rule) \subseteq Nat
<1>1. rule.entries \in Seq([cond : Expressions, rval : Expressions])
  BY RuleKinds
<1> DEFINE n == Len(rule.entries)
<1>2. n \in Nat /\ DOMAIN rule.entries = 1 .. n
  BY <1>1
<1>3. Exprs(rule) = [i \in 1 .. 2 * n |->
                        IF i % 2 = 1 THEN rule.entries[(i + 1) \div 2].cond
                                     ELSE rule.entries[i \div 2].rval]
  BY DEF Exprs
<1> HIDE DEF n
<1>4. ASSUME NEW j \in 1 .. n
      PROVE  rule.entries[j].cond \in ExprSet(rule) /\ rule.entries[j].rval \in ExprSet(rule)
  <2>1. /\ 2 * j \in 1 .. 2 * n /\ 2 * j - 1 \in 1 .. 2 * n
        /\ (2 * j) % 2 = 0 /\ (2 * j - 1) % 2 = 1
        /\ (2 * j) \div 2 = j /\ ((2 * j - 1) + 1) \div 2 = j
    BY <1>2
  <2>2. /\ Exprs(rule)[2 * j - 1] = rule.entries[j].cond
        /\ Exprs(rule)[2 * j] = rule.entries[j].rval
    BY <1>3, <2>1
  <2>3. DOMAIN Exprs(rule) = 1 .. 2 * n
    BY <1>3
  <2> QED BY <2>1, <2>2, <2>3 DEF ExprSet
<1>5. ASSUME NEW i \in 1 .. 2 * n
      PROVE  Exprs(rule)[i] \in Expressions
  <2>1. i % 2 = 1 => (i + 1) \div 2 \in 1 .. n
    BY <1>2
  <2>2. i % 2 # 1 => i \div 2 \in 1 .. n
    BY <1>2
  <2>3. \A j \in 1 .. n : /\ rule.entries[j].cond \in Expressions
                         /\ rule.entries[j].rval \in Expressions
    BY <1>2, RuleKinds
  <2> QED BY <1>3, <2>1, <2>2, <2>3
<1>6. DOMAIN Exprs(rule) = 1 .. 2 * n
  BY <1>3
<1> QED BY <1>2, <1>4, <1>5, <1>6 DEF ExprSet

\* Those of a trigger.
LEMMA TriggerExprs ==
    ASSUME NEW rule \in Rules, rule.kind = "trigger"
    PROVE  /\ rule.cond \in ExprSet(rule)
           /\ \A j \in DOMAIN rule.sets : rule.sets[j].rval \in ExprSet(rule)
           /\ ExprSet(rule) \subseteq Expressions
           /\ DOMAIN Exprs(rule) \subseteq Nat
<1>1. rule.cond \in Expressions /\ rule.sets \in Seq([target : Ids, rval : Expressions])
  BY RuleKinds
<1> DEFINE given == [i \in DOMAIN rule.sets |-> rule.sets[i].rval]
           n == Len(rule.sets)
<1>2. n \in Nat /\ DOMAIN rule.sets = 1 .. n
  BY <1>1
<1>3. given \in Seq(Expressions) /\ Len(given) = n
  <2>1. given \in [1 .. n -> Expressions]
    BY <1>2, RuleKinds
  <2> HIDE DEF given, n
  <2> QED BY <1>2, <2>1
<1>4. Exprs(rule) = <<rule.cond>> \o given
  BY DEF Exprs
<1>5. \A j \in 1 .. n : given[j] = rule.sets[j].rval
  BY <1>2
<1> HIDE DEF given, n
<1>6. /\ Exprs(rule) \in Seq(Expressions) /\ Len(Exprs(rule)) = n + 1
      /\ Exprs(rule)[1] = rule.cond /\ \A j \in 1 .. n : Exprs(rule)[j + 1] = given[j]
  BY <1>1, <1>2, <1>3, <1>4
<1>7. DOMAIN Exprs(rule) = 1 .. n + 1
  BY <1>6
<1>8. \A j \in 1 .. n : rule.sets[j].rval \in ExprSet(rule)
  <2> SUFFICES ASSUME NEW j \in 1 .. n
               PROVE  rule.sets[j].rval \in ExprSet(rule)
    OBVIOUS
  <2>1. j + 1 \in DOMAIN Exprs(rule)
    BY <1>2, <1>7
  <2> QED BY <1>5, <1>6, <2>1 DEF ExprSet
<1>9. rule.cond \in ExprSet(rule)
  <2>1. 1 \in DOMAIN Exprs(rule)
    BY <1>2, <1>7
  <2> QED BY <1>6, <2>1 DEF ExprSet
<1>10. ExprSet(rule) \subseteq Expressions
  BY <1>6 DEF ExprSet
<1> QED BY <1>2, <1>7, <1>8, <1>9, <1>10

\* The least of the positions S, as Exprs are searched and entries tried.
LEMMA FirstIsLeast ==
    ASSUME NEW S \in SUBSET Nat
    PROVE  /\ S # {} => First(S) \in S /\ \A j \in S : First(S) <= j
           /\ \A i \in S : (\A j \in S : i <= j) => First(S) = i
<1>1. S # {} => First(S) \in S /\ \A j \in S : First(S) <= j
  BY Least DEF First
<1>2. ASSUME NEW i \in S, \A j \in S : i <= j
      PROVE  First(S) = i
  <2>1. First(S) \in S /\ First(S) <= i
    BY <1>1
  <2>2. First(S) \in Nat /\ i \in Nat /\ i <= First(S)
    BY <1>2, <2>1
  <2> QED BY <2>1, <2>2
<1> QED BY <1>1, <1>2

\* The assignments a rule makes are among those it has; a block makes one at most.
LEMMA FiredTyped ==
    ASSUME NEW rule \in Rules
    PROVE  /\ Fired(rule) \in Seq([target : Ids, rval : Expressions])
           /\ \A j \in DOMAIN Fired(rule) : Fired(rule)[j] \in Assignments(rule)
           /\ rule.kind = "label" /\ Fired(rule) # <<>> =>
                 \E g \in ExprSet(rule) : Fired(rule) = <<Set(rule.target, g)>>
<1>1. CASE rule.kind = "label"
  <2>1. rule.target \in Ids /\ rule.entries \in Seq([cond : Expressions, rval : Expressions])
    BY <1>1, RuleKinds
  <2>2. CASE Fired(rule) = <<>>
    BY <2>2
  <2>3. CASE Fired(rule) # <<>>
    <3>1. /\ Decisive(rule) # {}
          /\ Fired(rule) = <<Set(rule.target, rule.entries[First(Decisive(rule))].rval)>>
      BY <1>1, <2>3 DEF Fired
    <3>2. Decisive(rule) \in SUBSET Nat /\ Decisive(rule) \subseteq DOMAIN rule.entries
      BY <2>1 DEF Decisive
    <3>3. PICK j \in DOMAIN rule.entries :
             Fired(rule) = <<Set(rule.target, rule.entries[j].rval)>>
      BY <3>1, <3>2, FirstIsLeast
    <3>4. rule.entries[j].rval \in Expressions
      BY <1>1, RuleKinds
    <3>5. Set(rule.target, rule.entries[j].rval) \in [target : Ids, rval : Expressions]
      BY <2>1, <3>4 DEF Set
    <3>6. Set(rule.target, rule.entries[j].rval) \in Assignments(rule)
      BY <1>1 DEF Assignments
    <3>7. rule.entries[j].rval \in ExprSet(rule)
      BY <1>1, LabelExprs
    <3> QED BY <3>3, <3>5, <3>6, <3>7
  <2> QED BY <2>2, <2>3
<1>2. CASE rule.kind = "trigger"
  <2>1. rule.sets \in Seq([target : Ids, rval : Expressions])
    BY <1>2, RuleKinds
  <2>2. Fired(rule) \in {<<>>, rule.sets}
    BY <1>2 DEF Fired
  <2>3. \A j \in DOMAIN rule.sets : rule.sets[j] \in Assignments(rule)
    BY <1>2 DEF Assignments
  <2>4. <<>> \in Seq([target : Ids, rval : Expressions]) /\ DOMAIN <<>> = {}
    OBVIOUS
  <2> QED BY <1>2, <2>1, <2>2, <2>3, <2>4
<1> QED BY <1>1, <1>2, RuleKinds

\* A change of c does not matter to an expression that does not lead to c.
LEMMA EvalLocal ==
    ASSUME NEW e, NEW c, OnlyChanges(c)
    PROVE  /\ c \in RefsOf(e) <=> (c \in RefsOf(e))'
           /\ c \notin RefsOf(e) => RefsOf(e)' = RefsOf(e) /\ Eval(e)' = Eval(e)
<1> DEFINE r == Reach(vars)[Depth]
           s == Reach(vars')[Depth]
           x == Chain(vars, mirror)[Depth]
           y == Chain(vars', mirror')[Depth]
<1>1. /\ RefsOf(e) = RefsVia(e, r) /\ RefsOf(e)' = RefsVia(e, s)
      /\ Eval(e) = ValueOf(e, mirror, x) /\ Eval(e)' = ValueOf(e, mirror', y)
  BY DEF RefsOf, Eval, VarValues, Depth
<1>2. \A v \in Vars \ {c} : c \notin r[v] => s[v] = r[v] /\ y[v] = x[v]
  <2>1. /\ \A v \in Vars \ {c} : vars'[v] = vars[v]
        /\ \A p \in Points \ {c} : mirror'[p] = mirror[p]
    BY DEF OnlyChanges
  <2> QED BY <2>1, ChainLocal
<1>3. \A v \in Vars \ {c} : c \notin s[v] => s[v] = r[v]
  BY ReachLocal DEF OnlyChanges
<1> HIDE DEF r, s, x, y
<1>4. ASSUME c \notin RefsVia(e, r)
      PROVE  RefsVia(e, s) = RefsVia(e, r) /\ ValueOf(e, mirror', y) = ValueOf(e, mirror, x)
  <2>1. e.ref # c
    BY <1>4 DEF RefsVia
  <2>2. e.ref \in Vars => s[e.ref] = r[e.ref] /\ y[e.ref] = x[e.ref]
    BY <1>2, <1>4, <2>1 DEF RefsVia
  <2>3. e.ref \in Points => mirror'[e.ref] = mirror[e.ref]
    BY <2>1 DEF OnlyChanges
  <2> QED BY <2>2, <2>3, ExprLocal
<1>5. ASSUME c \notin RefsVia(e, s)
      PROVE  c \notin RefsVia(e, r)
  BY <1>3, <1>5 DEF RefsVia
<1> QED BY <1>1, <1>4, <1>5

\* Nor to a rule that does not: what it depends on and gives stays.
LEMMA RuleLocal ==
    ASSUME NEW rule \in Rules, NEW c, OnlyChanges(c)
    PROVE  /\ c \in Deps(rule) <=> (c \in Deps(rule))'
           /\ c \notin Deps(rule) =>
                 /\ Deps(rule)' = Deps(rule) /\ Fired(rule)' = Fired(rule)
                 /\ \A e \in ExprSet(rule) : Eval(e)' = Eval(e)
<1>1. c \in Deps(rule) <=> (c \in Deps(rule))'
  BY EvalLocal DEF Deps
<1> SUFFICES ASSUME c \notin Deps(rule)
             PROVE  /\ Deps(rule)' = Deps(rule) /\ Fired(rule)' = Fired(rule)
                    /\ \A e \in ExprSet(rule) : Eval(e)' = Eval(e)
  BY <1>1
<1>2. \A e \in ExprSet(rule) : RefsOf(e)' = RefsOf(e) /\ Eval(e)' = Eval(e)
  BY EvalLocal DEF Deps, ExprSet
<1>3. Deps(rule)' = Deps(rule)
  BY <1>2 DEF Deps, ExprSet
<1>4. CASE rule.kind = "label"
  <2>1. \A j \in DOMAIN rule.entries : Eval(rule.entries[j].cond)' = Eval(rule.entries[j].cond)
    BY <1>2, <1>4, LabelExprs
  <2>2. Decisive(rule)' = Decisive(rule)
    BY <2>1 DEF Decisive
  <2>3. Decisive(rule) # {} => First(Decisive(rule)) \in DOMAIN rule.entries
    <3>1. Decisive(rule) \in SUBSET Nat
      BY <1>4, RuleKinds DEF Decisive
    <3> QED BY <3>1, FirstIsLeast DEF Decisive
  <2> QED BY <1>2, <1>3, <1>4, <2>1, <2>2, <2>3 DEF Fired
<1>5. CASE rule.kind = "trigger"
  <2>1. Eval(rule.cond)' = Eval(rule.cond)
    BY <1>2, <1>5, TriggerExprs
  <2> QED BY <1>2, <1>3, <1>5, <2>1 DEF Fired
<1> QED BY <1>4, <1>5, RuleKinds

\* A point that is gone takes values away and changes none.
LEMMA RuleLoses ==
    ASSUME NEW rule \in Rules, rule.kind = "label", NEW p,
           vars' = vars, \A q \in Points \ {p} : mirror'[q] = mirror[q], mirror'[p] = None
    PROVE  /\ Deps(rule)' = Deps(rule)
           /\ Fired(rule)' \in {<<>>, Fired(rule)}
           /\ \A e : Eval(e)' \in {Undefined, Eval(e)}
<1>1. Deps(rule)' = Deps(rule)
  BY DEF Deps, RefsOf
<1>2. ASSUME NEW e
      PROVE  Eval(e)' \in {Undefined, Eval(e)}
  <2> DEFINE x == Chain(vars, mirror)[Depth]
             y == Chain(vars, mirror')[Depth]
  <2>1. Eval(e) = ValueOf(e, mirror, x) /\ Eval(e)' = ValueOf(e, mirror', y)
    BY DEF Eval, VarValues, Depth
  <2>2. \A v \in Vars : y[v] \in {Undefined, x[v]}
    BY ChainLoses
  <2> HIDE DEF x, y
  <2>3. ValueOf(e, mirror', y) \in {Undefined, ValueOf(e, mirror, x)}
    BY <2>2, ExprLoses
  <2> QED BY <2>1, <2>3
<1>3. ASSUME Fired(rule)' # <<>>
      PROVE  Fired(rule)' = Fired(rule)
  <2>1. PICK D : D = {i \in DOMAIN rule.entries : Eval(rule.entries[i].cond)' # 0}
    OBVIOUS
  <2> DEFINE f == First(D)
  <2>2. /\ D # {} /\ Eval(rule.entries[f].cond)' # Undefined
        /\ Fired(rule)' = <<Set(rule.target, rule.entries[f].rval)>>
    BY <1>3, <2>1 DEF Fired, Decisive
  <2>3. Decisive(rule) \subseteq D /\ D \in SUBSET Nat
    <3>1. ASSUME NEW e, Eval(e)' # Undefined
          PROVE  Eval(e)' = Eval(e)
      BY <1>2, <3>1
    <3>2. Undefined # 0
      <4>1. Undefined \notin Int
        BY EngineAssumption
      <4> QED BY <4>1
    <3> QED BY <2>1, <3>1, <3>2, RuleKinds DEF Decisive
  <2>4. f \in D /\ \A j \in D : f <= j
    BY <2>2, <2>3, FirstIsLeast
  <2>5. Eval(rule.entries[f].cond) = Eval(rule.entries[f].cond)'
    BY <1>2, <2>2
  <2>6. f \in Decisive(rule)
    BY <2>1, <2>4, <2>5 DEF Decisive
  <2>7. First(Decisive(rule)) = f
    BY <2>3, <2>4, <2>6, FirstIsLeast
  <2> HIDE DEF f
  <2> QED BY <2>2, <2>5, <2>6, <2>7 DEF Fired
<1> QED BY <1>1, <1>2, <1>3

-----------------------------------------------------------------------------
(***************************************************************************)
(* The invariant: what is owed to a block that does not have its way       *)
(***************************************************************************)

\* Block i alone decides its target.
Sole(i) ==
    /\ rules[i].kind = "label"
    /\ \A j \in DOMAIN rules \ {i} : rules[i].target \notin Targets(rules[j])

\* What is left of a pass is from the rule it considered last.  A block's one
\* assignment is carried out at once: it is still what the block gives.
LeftOf(k) ==
    stack[k].left # <<>> =>
        /\ stack[k].rule >= 2
        /\ \A j \in DOMAIN stack[k].left :
              stack[k].left[j] \in Assignments(rules[stack[k].rule - 1])
        /\ rules[stack[k].rule - 1].kind = "label" =>
              /\ k = Len(stack)
              /\ stack[k].left = Fired(rules[stack[k].rule - 1])

LeftOK == \A k \in DOMAIN stack : LeftOf(k)

\* The pass at k will come to block i, or has just come to it.
DueAt(k, i) ==
    /\ stack[k].id = None \/ stack[k].id \in Deps(rules[i])
    /\ \/ stack[k].rule <= i
       \/ stack[k].rule = i + 1 /\ stack[k].left # <<>>

Due(i) == \E k \in DOMAIN stack : DueAt(k, i)

\* The target has not what block i gives it, and the block may be to blame.  A held
\* change of the target itself leaves it be, until a report of the target's next
\* change is handled.
WrongVariable(i) ==
    /\ rules[i].target \in Vars \ missed
    /\ vars[rules[i].target] # Given(i)

WrongOutput(i) ==
    /\ rules[i].target \in (Outputs \cap Present) \ overridden
    /\ astray[rules[i].target] = "no"
    /\ \/ rules[i].target \notin missed
       \/ \E j \in DOMAIN events : events[j].id = rules[i].target
    /\ Eval(Given(i)) \notin {Undefined, Endless}
    /\ actual[rules[i].target] # Eval(Given(i))

Needs(i) ==
    /\ Sole(i)
    /\ missed \cap ({None} \cup Deps(rules[i])) = {}
    /\ Fired(rules[i]) # <<>>
    /\ WrongVariable(i) \/ WrongOutput(i)

OwedOK == \A i \in DOMAIN rules : Needs(i) => Due(i)

IInv == TypeOK /\ (alive => LeftOK /\ OwedOK)

-----------------------------------------------------------------------------
(***************************************************************************)
(* Types                                                                   *)
(***************************************************************************)

Passes == [id : Ids \cup {None}, rule : 1 .. Len(rules) + 1,
           left : Seq([target : Ids, rval : Expressions])]

\* A sequence s with its last element replaced by t.
LEMMA OnTop ==
    ASSUME NEW T, NEW s \in Seq(T), s # <<>>, NEW t \in T
    PROVE  /\ Len(s) \in Nat /\ Len(s) >= 1 /\ s[Len(s)] \in T
           /\ DOMAIN s = 1 .. Len(s)
           /\ SubSeq(s, 1, Len(s) - 1) \in Seq(T)
           /\ Len(SubSeq(s, 1, Len(s) - 1)) = Len(s) - 1
           /\ DOMAIN SubSeq(s, 1, Len(s) - 1) = 1 .. Len(s) - 1
           /\ \A k \in 1 .. Len(s) - 1 : SubSeq(s, 1, Len(s) - 1)[k] = s[k]
           /\ Append(SubSeq(s, 1, Len(s) - 1), t) \in Seq(T)
           /\ Len(Append(SubSeq(s, 1, Len(s) - 1), t)) = Len(s)
           /\ DOMAIN Append(SubSeq(s, 1, Len(s) - 1), t) = 1 .. Len(s)
           /\ Append(SubSeq(s, 1, Len(s) - 1), t)[Len(s)] = t
           /\ \A k \in 1 .. Len(s) - 1 : Append(SubSeq(s, 1, Len(s) - 1), t)[k] = s[k]
<1> DEFINE n == Len(s)
           b == SubSeq(s, 1, n - 1)
<1>1. n \in Nat /\ n >= 1 /\ DOMAIN s = 1 .. n
  BY EmptySeq
<1>2. s[n] \in T
  BY <1>1, ElementOfSeq
<1>3. b = [k \in 1 .. n - 1 |-> s[k]] /\ b \in Seq(T) /\ Len(b) = n - 1
  BY <1>1
<1> HIDE DEF b
<1>4. /\ Append(b, t) \in Seq(T) /\ Len(Append(b, t)) = n
      /\ Append(b, t)[n] = t /\ \A k \in 1 .. n - 1 : Append(b, t)[k] = b[k]
  BY <1>1, <1>3
<1>5. \A k \in 1 .. n - 1 : b[k] = s[k]
  BY <1>3
<1>6. DOMAIN b = 1 .. n - 1 /\ DOMAIN Append(b, t) = 1 .. n
  BY <1>1, <1>3, <1>4
<1> HIDE DEF n
<1> QED BY <1>1, <1>2, <1>3, <1>4, <1>5, <1>6 DEF b, n

\* A sequence over a set is one over every larger set.
LEMMA SeqOfMore ==
    ASSUME NEW R, NEW T, R \subseteq T, NEW s \in Seq(R)
    PROVE  s \in Seq(T)
<1>1. Len(s) \in Nat /\ s \in [1 .. Len(s) -> T]
  OBVIOUS
<1> QED BY <1>1

LEMMA RulesTyped ==
    ASSUME TypeOK
    PROVE  rules \in Seq(Rules) /\ Len(rules) \in Nat /\ DOMAIN rules = 1 .. Len(rules)
           /\ \A i \in DOMAIN rules : rules[i] \in Rules
<1>1. rules \in Seq(Rules)
  BY EngineAssumption DEF TypeOK, rules
<1>2. Len(rules) \in Nat /\ DOMAIN rules = 1 .. Len(rules)
  BY <1>1
<1> QED BY <1>1, <1>2, ElementOfSeq

LEMMA EvalTyped ==
    ASSUME TypeOK, NEW e \in Expressions
    PROVE  Eval(e) \in Results
<1>1. VarValues \in [Vars -> Results]
  BY ChainTyped DEF TypeOK, VarValues, Depth, Expressible, Mirrors
<1>2. mirror \in Mirrors
  BY DEF TypeOK, Mirrors
<1> QED BY <1>1, <1>2, ValueTyped DEF Eval

\* The pass on top, and what its first assignment is.
LEMMA TopTyped ==
    ASSUME TypeOK, stack # <<>>
    PROVE  /\ stack \in Seq(Passes)
           /\ Len(stack) \in Nat /\ Len(stack) >= 1 /\ DOMAIN stack = 1 .. Len(stack)
           /\ Top \in Passes /\ Top = stack[Len(stack)]
           /\ Below \in Seq(Passes) /\ Len(Below) = Len(stack) - 1
           /\ DOMAIN Below = 1 .. Len(stack) - 1
           /\ \A k \in 1 .. Len(stack) - 1 : Below[k] = stack[k]
           /\ Top.left # <<>> =>
                 /\ Head(Top.left) \in [target : Ids, rval : Expressions]
                 /\ [Top EXCEPT !.left = Tail(@)] \in Passes
                 /\ Assigned \in Seq(Passes)
<1>1. stack \in Seq(Passes)
  BY DEF TypeOK, Passes
<1>2. Top = stack[Len(stack)]
  BY DEF Top
<1>3. Top \in Passes
  BY <1>1, <1>2, OnTop
<1>4. ASSUME Top.left # <<>>
      PROVE  /\ Head(Top.left) \in [target : Ids, rval : Expressions]
             /\ [Top EXCEPT !.left = Tail(@)] \in Passes
  <2>1. Top.left \in Seq([target : Ids, rval : Expressions])
    BY <1>3 DEF Passes
  <2>2. /\ Head(Top.left) \in [target : Ids, rval : Expressions]
        /\ Tail(Top.left) \in Seq([target : Ids, rval : Expressions])
    BY <1>4, <2>1, HeadTailProperties
  <2> QED BY <1>3, <2>2 DEF Passes
<1>5. Top.left # <<>> => Assigned \in Seq(Passes)
  BY <1>1, <1>4, OnTop DEF Assigned, Below
<1> QED BY <1>1, <1>2, <1>3, <1>4, <1>5, OnTop DEF Below

\* The n-th sequence EventsWithout(p) goes through, from the one before it in f.
Kept(f, p, n) ==
    IF n = 0 THEN <<>>
    ELSE IF events[n].id = p THEN f[n - 1]
    ELSE Append(f[n - 1], events[n])

\* The function that EventsWithout chooses exists.
LEMMA KeptExists ==
    ASSUME NEW p, NEW k \in Nat
    PROVE  \E f : f = [n \in 0 .. k |-> Kept(f, p, n)]
<1> DEFINE S == {j \in Nat : \E f : f = [n \in 0 .. j |-> Kept(f, p, n)]}
<1>1. 0 \in S
  <2> DEFINE f == [n \in 0 .. 0 |-> Kept(0, p, 0)]
  <2>1. \A n \in 0 .. 0 : Kept(f, p, n) = Kept(0, p, 0)
    BY DEF Kept
  <2>2. f = [n \in 0 .. 0 |-> Kept(f, p, n)]
    BY <2>1
  <2> QED BY <2>2
<1>2. ASSUME NEW j \in Nat, j \in S
      PROVE  j + 1 \in S
  <2>1. PICK f : f = [n \in 0 .. j |-> Kept(f, p, n)]
    BY <1>2
  <2> DEFINE g == [n \in 0 .. j + 1 |-> IF n <= j THEN f[n] ELSE Kept(f, p, n)]
  <2>2. ASSUME NEW n \in 0 .. j + 1
        PROVE  Kept(g, p, n) = Kept(f, p, n)
    <3>1. n # 0 => g[n - 1] = f[n - 1]
      OBVIOUS
    <3> HIDE DEF g
    <3> QED BY <3>1 DEF Kept
  <2>3. ASSUME NEW n \in 0 .. j + 1
        PROVE  g[n] = Kept(g, p, n)
    <3>1. n <= j => f[n] = Kept(f, p, n)
      BY <2>1
    <3> QED BY <2>2, <3>1
  <2>4. g = [n \in 0 .. j + 1 |-> Kept(g, p, n)]
    BY <2>3
  <2> HIDE DEF g
  <2> QED BY <2>4
<1> HIDE DEF S
<1>3. Nat \subseteq S
  BY <1>1, <1>2, NatInd
<1> QED BY <1>3 DEF S

\* The changes of a peer that is lost are taken out of the queue, and no others.
LEMMA EventsLeft ==
    ASSUME TypeOK, NEW p
    PROVE  /\ EventsWithout(p) \in Seq([id : Present \ {p}, val : Int])
           /\ \A j \in DOMAIN EventsWithout(p) :
                 \E k \in DOMAIN events : events[k] = EventsWithout(p)[j]
<1> DEFINE R == {x \in [id : Present \ {p}, val : Int] :
                      \E k \in DOMAIN events : events[k] = x}
           IsKept(f) == f = [n \in 0 .. Len(events) |-> Kept(f, p, n)]
<1>1. /\ events \in Seq([id : Present, val : Int]) /\ Len(events) \in Nat
      /\ DOMAIN events = 1 .. Len(events)
  BY DEF TypeOK
<1>2. EventsWithout(p) = (CHOOSE f : IsKept(f))[Len(events)]
  BY DEF EventsWithout, Kept
<1>3. PICK K : IsKept(K) /\ EventsWithout(p) = K[Len(events)]
  <2>1. \E f : IsKept(f)
    BY <1>1, KeptExists
  <2> HIDE DEF IsKept
  <2>2. IsKept(CHOOSE f : IsKept(f))
    BY <2>1
  <2> QED BY <1>2, <2>2
<1> DEFINE S == {n \in Nat : n <= Len(events) => K[n] \in Seq(R)}
<1>4. \A n \in 0 .. Len(events) : K[n] = Kept(K, p, n)
  BY <1>3
<1>5. 0 \in S
  <2>1. K[0] = <<>>
    BY <1>1, <1>4 DEF Kept
  <2>2. <<>> \in Seq(R)
    OBVIOUS
  <2> QED BY <2>1, <2>2
<1>6. ASSUME NEW n \in Nat, n \in S
      PROVE  n + 1 \in S
  <2> SUFFICES ASSUME n + 1 <= Len(events)
               PROVE  K[n + 1] \in Seq(R)
    OBVIOUS
  <2>1. n + 1 \in DOMAIN events /\ (n + 1) - 1 = n /\ n + 1 # 0
    BY <1>1
  <2>2. events[n + 1] \in [id : Present, val : Int]
    BY <1>1, <2>1, ElementOfSeq
  <2>3. events[n + 1].id # p => events[n + 1] \in R
    BY <2>1, <2>2
  <2>4. K[n] \in Seq(R)
    BY <1>1, <1>6
  <2>5. events[n + 1].id # p => Append(K[n], events[n + 1]) \in Seq(R)
    <3> HIDE DEF R
    <3> QED BY <2>3, <2>4
  <2>6. K[n + 1] = IF events[n + 1].id = p THEN K[n] ELSE Append(K[n], events[n + 1])
    BY <1>1, <1>4, <2>1 DEF Kept
  <2> QED BY <2>4, <2>5, <2>6
<1>7. EventsWithout(p) \in Seq(R)
  <2>1. Nat \subseteq S
    <3> HIDE DEF S
    <3> QED BY <1>5, <1>6, NatInd
  <2> QED BY <1>1, <1>3, <2>1
<1>8. \A j \in DOMAIN EventsWithout(p) : EventsWithout(p)[j] \in R
  <2> HIDE DEF R
  <2> QED BY <1>7, ElementOfSeq
<1>9. EventsWithout(p) \in Seq([id : Present \ {p}, val : Int])
  <2>1. R \subseteq [id : Present \ {p}, val : Int]
    OBVIOUS
  <2> HIDE DEF R
  <2> QED BY <1>7, <2>1, SeqOfMore
<1> QED BY <1>8, <1>9

LEMMA InitTyped ==
    ASSUME Init
    PROVE  TypeOK
<1>1. conf.vars \in [Vars -> Expressions] /\ actual \in [Points -> Int]
  BY EngineAssumption DEF Init
<1>2. events \in Seq([id : Present, val : Int]) /\ stack \in Seq(Passes)
  BY DEF Init
<1> QED BY <1>1, <1>2 DEF Init, TypeOK, Passes, Ids

\* A pass that begins, on passes under.
LEMMA NoticeTyped ==
    ASSUME TypeOK, NEW id \in Ids, NEW under \in Seq(Passes), Notice(id, under)
    PROVE  /\ stack' \in Seq(Passes) /\ paused' \in BOOLEAN
           /\ missed' \subseteq Ids \cup {None}
<1>1. Pass(id) \in Passes
  <2>1. 1 \in 1 .. Len(rules) + 1
    BY RulesTyped
  <2>2. <<>> \in Seq([target : Ids, rval : Expressions])
    OBVIOUS
  <2> QED BY <2>1, <2>2 DEF Pass, Passes
<1>2. Append(under, Pass(id)) \in Seq(Passes)
  BY <1>1, AppendProperties
<1> QED BY <1>2 DEF Notice, TypeOK

LEMMA ConsiderTyped ==
    ASSUME TypeOK, ConsiderRule
    PROVE  TypeOK'
<1>1. CASE Dies
  BY <1>1 DEF Dies, setup, TypeOK, rules, Present
<1>2. CASE ~Dies
  <2> DEFINE rule == rules[Top.rule]
             left == IF Concerns(rule, Top.id) THEN Fired(rule) ELSE <<>>
  <2>1. /\ UNCHANGED <<actual, events, astray, coreVars>>
        /\ stack' = Append(Below, [Top EXCEPT !.rule = @ + 1, !.left = left])
    BY <1>2 DEF ConsiderRule
  <2>2. stack \in Seq(Passes) /\ stack # <<>> /\ Top \in Passes /\ Top = stack[Len(stack)]
    BY TopTyped DEF ConsiderRule
  <2>3. Top.rule \in 1 .. Len(rules) /\ Len(rules) \in Nat
    BY <2>2, RulesTyped DEF ConsiderRule, Passes
  <2>4. left \in Seq([target : Ids, rval : Expressions])
    <3>1. rule \in Rules
      BY <2>3, RulesTyped
    <3>2. Fired(rule) \in Seq([target : Ids, rval : Expressions])
      BY <3>1, FiredTyped
    <3>3. <<>> \in Seq([target : Ids, rval : Expressions])
      OBVIOUS
    <3> QED BY <3>2, <3>3
  <2>5. [Top EXCEPT !.rule = @ + 1, !.left = left] \in Passes
    <3> HIDE DEF left
    <3>1. Top.rule + 1 \in 1 .. Len(rules) + 1
      BY <2>3
    <3>2. PICK t \in Passes, n \in 1 .. Len(rules) + 1 : t = Top /\ n = Top.rule + 1
      BY <2>2, <3>1
    <3>3. [[t EXCEPT !.rule = n] EXCEPT !.left = left] \in Passes
      BY <2>4 DEF Passes
    <3>4. [Top EXCEPT !.rule = @ + 1, !.left = left]
             = [[t EXCEPT !.rule = n] EXCEPT !.left = left]
      BY <3>2
    <3> QED BY <3>3, <3>4
  <2>6. stack' \in Seq(Passes)
    <3> HIDE DEF left
    <3> QED BY <2>1, <2>2, <2>5, OnTop DEF Below
  <2> QED BY <2>1, <2>6 DEF coreVars, setup, TypeOK, rules, Present, Passes
<1> QED BY <1>1, <1>2

LEMMA SetOutputTyped ==
    ASSUME TypeOK, NEW o \in Outputs, SetOutput(o)
    PROVE  TypeOK'
<1> DEFINE val == Eval(Head(Top.left).rval)
<1>1. CASE Dies
  BY <1>1 DEF Dies, setup, TypeOK, rules, Present
<1>2. CASE ~Dies
  <2>1. /\ val # Endless /\ stack' = Assigned /\ UNCHANGED coreVars
        /\ \/ val = mirror[o] /\ AlreadyThere(o, val)
           \/ val = Undefined /\ NoWrite
           \/ /\ val \notin {Undefined, mirror[o]}
              /\ \/ o \in overridden /\ NoWrite
                 \/ o \notin overridden /\ WriteOutput(o, val)
                 \/ o \notin overridden /\ WritesFail /\ WriteFails(o)
    BY <1>2 DEF SetOutput
  <2>2. Assigned \in Seq(Passes) /\ Head(Top.left).rval \in Expressions
    BY TopTyped DEF SetOutput, Assigning
  <2>3. val \in Results
    BY <2>2, EvalTyped
  <2>4. /\ actual' \in [Points -> Int]
        /\ events' \in Seq([id : Present, val : Int])
        /\ astray' \in [Outputs -> {"no", "operator", "failed", "stale"}]
    <3> HIDE DEF val
    <3>1. CASE AlreadyThere(o, val)
      BY <3>1 DEF AlreadyThere, TypeOK
    <3>2. CASE NoWrite
      BY <3>2 DEF NoWrite, TypeOK
    <3>3. CASE WriteFails(o)
      BY <3>3 DEF WriteFails, TypeOK
    <3>4. CASE val # Undefined /\ WriteOutput(o, val)
      <4>1. val \in Int
        BY <2>1, <2>3, <3>4 DEF Results
      <4>2. [id |-> o, val |-> val] \in [id : Present, val : Int]
        BY <4>1 DEF SetOutput
      <4>3. Append(events, [id |-> o, val |-> val]) \in Seq([id : Present, val : Int])
        BY <4>2, AppendProperties DEF TypeOK
      <4>4. actual' = [actual EXCEPT ![o] = val] /\ actual \in [Points -> Int]
        BY <3>4 DEF WriteOutput, TypeOK
      <4> QED BY <3>4, <4>1, <4>3, <4>4 DEF WriteOutput, TypeOK
    <3> QED BY <2>1, <3>1, <3>2, <3>3, <3>4
  <2> QED BY <2>1, <2>2, <2>4 DEF coreVars, setup, TypeOK, rules, Present, Passes
<1> QED BY <1>1, <1>2

LEMMA SetVariableTyped ==
    ASSUME TypeOK, NEW v \in Vars, SetVariable(v)
    PROVE  TypeOK'
<1> DEFINE rval == Head(Top.left).rval
<1>1. Assigned \in Seq(Passes) /\ rval \in Expressions
  BY TopTyped DEF SetVariable, Assigning
<1>2. CASE HasAlready(v, rval)
  <2>1. stack' = Assigned /\ UNCHANGED <<actual, events, astray, coreVars>>
    BY <1>2 DEF SetVariable
  <2> QED BY <1>1, <2>1 DEF coreVars, setup, TypeOK, rules, Present, Passes
<1>3. CASE ~HasAlready(v, rval)
  <2>1. /\ vars' = [vars EXCEPT ![v] = rval]
        /\ UNCHANGED <<setup, actual, events, astray, mirror, stops>>
    BY <1>3 DEF SetVariable
  <2>2. vars' \in [Vars -> Expressions]
    <3> HIDE DEF rval
    <3> QED BY <1>1, <2>1 DEF TypeOK
  <2>3. \/ alive' = FALSE /\ UNCHANGED <<stack, paused, missed>>
        \/ Notice(v, Assigned) /\ UNCHANGED alive
    BY <1>3 DEF SetVariable
  <2>4. /\ alive' \in BOOLEAN /\ stack' \in Seq(Passes) /\ paused' \in BOOLEAN
        /\ missed' \subseteq Ids \cup {None}
    <3>1. CASE alive' = FALSE /\ UNCHANGED <<stack, paused, missed>>
      BY <3>1 DEF TypeOK, Passes
    <3>2. CASE Notice(v, Assigned) /\ UNCHANGED alive
      BY <1>1, <3>2, NoticeTyped DEF TypeOK, Ids
    <3> QED BY <2>3, <3>1, <3>2
  <2> QED BY <2>1, <2>2, <2>4 DEF setup, TypeOK, rules, Present, Passes
<1> QED BY <1>2, <1>3

LEMMA PassStepTyped ==
    ASSUME TypeOK, PassStep
    PROVE  TypeOK'
<1>1. ASSUME NEW id \in Points, SetNothing(id)
      PROVE  TypeOK'
  <2>1. Assigned \in Seq(Passes) /\ stack' = Assigned
    BY <1>1, TopTyped DEF SetNothing, Assigning
  <2> QED BY <1>1, <2>1 DEF SetNothing, coreVars, setup, TypeOK, rules, Present, Passes
<1>2. CASE EndPass
  <2>1. Below \in Seq(Passes) /\ stack' = Below
    BY <1>2, TopTyped DEF EndPass
  <2> QED BY <1>2, <2>1 DEF EndPass, coreVars, setup, TypeOK, rules, Present, Passes
<1> QED BY <1>1, <1>2, ConsiderTyped, SetOutputTyped, SetVariableTyped DEF PassStep

LEMMA OnChangeTyped ==
    ASSUME TypeOK, OnChange
    PROVE  TypeOK'
<1> DEFINE e == Head(events)
<1>1. /\ e \in [id : Present, val : Int]
      /\ Tail(events) \in Seq([id : Present, val : Int])
  BY HeadTailProperties DEF TypeOK, OnChange
<1>2. /\ events' = Tail(events) /\ mirror' = [mirror EXCEPT ![e.id] = e.val]
      /\ Notice(e.id, <<>>) /\ UNCHANGED <<setup, actual, astray, alive, vars, stops>>
  BY DEF OnChange
<1>3. mirror' \in [Points -> Int \cup {None}] /\ Present \subseteq Present'
  <2> HIDE DEF e
  <2> QED BY <1>1, <1>2, EngineAssumption DEF TypeOK, Present
<1>4. events' \in Seq([id : Present', val : Int])
  <2>1. PICK P : P = Present'
    OBVIOUS
  <2>2. [id : Present, val : Int] \subseteq [id : P, val : Int]
    BY <1>3, <2>1
  <2>3. Tail(events) \in Seq([id : P, val : Int])
    BY <1>1, <2>2, SeqOfMore
  <2> QED BY <1>2, <2>1, <2>3
<1>5. /\ stack' \in Seq(Passes) /\ paused' \in BOOLEAN
      /\ missed' \subseteq Ids \cup {None}
  <2>1. <<>> \in Seq(Passes) /\ e.id \in Ids
    BY <1>1 DEF Present, Ids
  <2> QED BY <1>2, <2>1, NoticeTyped
<1> QED BY <1>2, <1>3, <1>4, <1>5 DEF setup, TypeOK, rules, Passes

LEMMA PeerTyped ==
    ASSUME TypeOK, NEW p \in Points, PeerReady(p) \/ PeerLost(p)
    PROVE  TypeOK'
<1>1. CASE PeerReady(p)
  <2>1. mirror' \in [Points -> Int \cup {None}] /\ Present \subseteq Present'
    BY <1>1, EngineAssumption DEF PeerReady, TypeOK, Present
  <2>2. events' \in Seq([id : Present', val : Int])
    <3>1. PICK P : P = Present'
      OBVIOUS
    <3>2. [id : Present, val : Int] \subseteq [id : P, val : Int]
      BY <2>1, <3>1
    <3>3. events \in Seq([id : Present, val : Int]) /\ events' = events
      BY <1>1 DEF PeerReady, TypeOK
    <3> QED BY <3>1, <3>2, <3>3, SeqOfMore
  <2>3. <<Pass(None)>> \in Seq(Passes)
    <3>1. 1 \in 1 .. Len(rules) + 1
      BY RulesTyped
    <3>2. <<>> \in Seq([target : Ids, rval : Expressions])
      OBVIOUS
    <3>3. Pass(None) \in Passes
      BY <3>1, <3>2 DEF Pass, Passes
    <3> QED BY <3>3
  <2>4. stack' \in Seq(Passes) /\ missed' \subseteq Ids \cup {None}
    BY <1>1, <2>3 DEF PeerReady, TypeOK, Passes, Ids
  <2> QED BY <1>1, <2>1, <2>2, <2>4 DEF PeerReady, setup, TypeOK, rules, Passes
<1>2. CASE PeerLost(p)
  <2>1. mirror' \in [Points -> Int \cup {None}] /\ Present \ {p} \subseteq Present'
    BY <1>2, EngineAssumption DEF PeerLost, TypeOK, Present
  <2>2. events' \in Seq([id : Present', val : Int])
    <3>1. PICK P, es : P = Present' /\ es = EventsWithout(p)
      OBVIOUS
    <3>2. [id : Present \ {p}, val : Int] \subseteq [id : P, val : Int]
      BY <2>1, <3>1
    <3>3. es \in Seq([id : Present \ {p}, val : Int])
      BY <3>1, EventsLeft
    <3>4. es \in Seq([id : P, val : Int])
      <4> DEFINE R == [id : Present \ {p}, val : Int]
                 T == [id : P, val : Int]
      <4>1. R \subseteq T /\ es \in Seq(R)
        BY <3>2, <3>3
      <4> HIDE DEF R, T
      <4>2. es \in Seq(T)
        BY <4>1, SeqOfMore
      <4> QED BY <4>2 DEF T
    <3> QED BY <1>2, <3>1, <3>4 DEF PeerLost
  <2> QED BY <1>2, <2>1, <2>2 DEF PeerLost, setup, TypeOK, rules
<1> QED BY <1>1, <1>2

\* Every step keeps the types.
LEMMA TypeStep ==
    ASSUME TypeOK, [Next]_allVars
    PROVE  TypeOK'
<1>1. ASSUME NEW p \in Points, NEW v \in Values, PointChanges(p, v)
      PROVE  TypeOK'
  <2>1. v \in Int
    BY EngineAssumption
  <2>2. p \in Present =>
           Append(events, [id |-> p, val |-> v]) \in Seq([id : Present, val : Int])
    <3>1. p \in Present => [id |-> p, val |-> v] \in [id : Present, val : Int]
      BY <2>1
    <3> QED BY <3>1, AppendProperties DEF TypeOK
  <2>3. /\ actual' \in [Points -> Int]
        /\ astray' \in [Outputs -> {"no", "operator", "failed", "stale"}]
    BY <1>1, <2>1 DEF PointChanges, TypeOK
  <2>4. events' \in Seq([id : Present, val : Int])
    BY <1>1, <2>2 DEF PointChanges, TypeOK
  <2> QED BY <1>1, <2>3, <2>4 DEF PointChanges, coreVars, setup, TypeOK, rules, Present
<1>2. ASSUME NEW id \in Debuggable, AddPoint(id) \/ RemovePoint(id)
      PROVE  TypeOK'
  BY <1>2 DEF AddPoint, RemovePoint, setup, TypeOK, rules, Present
<1>3. CASE Continue
  BY <1>3 DEF Continue, setup, TypeOK, rules, Present
<1>4. CASE UNCHANGED allVars
  BY <1>4 DEF allVars, coreVars, setup, TypeOK, rules, Present
<1> QED BY <1>1, <1>2, <1>3, <1>4, PassStepTyped, OnChangeTyped, PeerTyped DEF Next

-----------------------------------------------------------------------------
(***************************************************************************)
(* What is owed, step by step                                              *)
(***************************************************************************)

\* A step that changes nothing an expression reads.
LEMMA SameRule ==
    ASSUME vars' = vars, mirror' = mirror, conf' = conf, NEW i
    PROVE  /\ rules' = rules /\ Present' = Present /\ Sole(i)' = Sole(i)
           /\ Deps(rules[i])' = Deps(rules[i]) /\ Fired(rules[i])' = Fired(rules[i])
           /\ Given(i)' = Given(i) /\ Eval(Given(i))' = Eval(Given(i))
<1>1. rules' = rules /\ Present' = Present
  BY DEF rules, Present
<1>2. Sole(i)' = Sole(i)
  BY <1>1 DEF Sole
<1>3. Deps(rules[i])' = Deps(rules[i])
  BY <1>1 DEF Deps, RefsOf
<1>4. Fired(rules[i])' = Fired(rules[i])
  BY <1>1 DEF Fired, Decisive, Eval, VarValues
<1>5. Given(i)' = Given(i)
  BY <1>4 DEF Given
<1>6. Eval(Given(i))' = Eval(Given(i))
  BY <1>5 DEF Eval, VarValues
<1> QED BY <1>1, <1>2, <1>3, <1>4, <1>5, <1>6

\* A step of a pass that sets nothing changes no block's need.
LEMMA SameNeeds ==
    ASSUME UNCHANGED <<actual, events, astray, coreVars>>, NEW i
    PROVE  Needs(i)' = Needs(i)
<1>1. /\ vars' = vars /\ mirror' = mirror /\ conf' = conf /\ overridden' = overridden
      /\ missed' = missed /\ actual' = actual /\ events' = events /\ astray' = astray
  BY DEF coreVars, setup
<1>2. WrongVariable(i)' = WrongVariable(i) /\ WrongOutput(i)' = WrongOutput(i)
  BY <1>1, SameRule DEF WrongVariable, WrongOutput
<1> QED BY <1>1, <1>2, SameRule DEF Needs

\* A rule assigns to its targets.
LEMMA AssignmentTargets ==
    ASSUME NEW rule \in Rules, NEW a \in Assignments(rule)
    PROVE  a.target \in Targets(rule)
BY RuleKinds DEF Assignments, Targets, Set

\* What a block that alone decides its target gives it depends on Deps alone.
LEMMA GivenOfBlock ==
    ASSUME TypeOK, NEW i \in DOMAIN rules, Sole(i), Fired(rules[i]) # <<>>
    PROVE  /\ rules[i] \in Rules /\ rules[i].kind = "label"
           /\ Given(i) \in ExprSet(rules[i])
           /\ Fired(rules[i]) = <<Set(rules[i].target, Given(i))>>
<1>1. rules[i] \in Rules /\ rules[i].kind = "label"
  BY RulesTyped DEF Sole
<1>2. PICK g \in ExprSet(rules[i]) : Fired(rules[i]) = <<Set(rules[i].target, g)>>
  BY <1>1, FiredTyped
<1>3. Given(i) = g
  BY <1>2 DEF Given, Set
<1> QED BY <1>1, <1>2, <1>3

\* An assignment to the target of such a block is the block's own, and its only one.
LEMMA HeadFrom ==
    ASSUME TypeOK, LeftOK, stack # <<>>, Top.left # <<>>,
           NEW i \in DOMAIN rules, Sole(i), Head(Top.left).target = rules[i].target
    PROVE  Fired(rules[i]) # <<>> /\ Head(Top.left).rval = Given(i)
<1>1. /\ Top \in Passes /\ Top = stack[Len(stack)] /\ Len(stack) \in DOMAIN stack
      /\ Head(Top.left) = Top.left[1] /\ 1 \in DOMAIN Top.left
  <2>1. /\ Top \in Passes /\ Top = stack[Len(stack)] /\ Len(stack) \in DOMAIN stack
    BY TopTyped
  <2>2. Top.left \in Seq([target : Ids, rval : Expressions])
    BY <2>1 DEF Passes
  <2> QED BY <2>1, <2>2
<1> DEFINE q == Top.rule - 1
<1>2. q \in DOMAIN rules
  BY <1>1, RulesTyped DEF LeftOK, LeftOf, Passes
<1>3. Top.left[1] \in Assignments(rules[q])
  BY <1>1 DEF LeftOK, LeftOf
<1>4. Top.left[1].target \in Targets(rules[q])
  BY <1>2, <1>3, RulesTyped, AssignmentTargets
<1>5. q = i
  BY <1>1, <1>2, <1>4 DEF Sole
<1>6. Top.left = Fired(rules[i])
  BY <1>1, <1>5 DEF LeftOK, LeftOf, Sole
<1>7. Fired(rules[i]) = <<Set(rules[i].target, Given(i))>>
  BY <1>6, GivenOfBlock
<1>8. Top.left[1] = Set(rules[i].target, Given(i))
  BY <1>6, <1>7
<1> QED BY <1>1, <1>6, <1>8 DEF Set

\* The stack once the assignment at hand is done, perhaps with a new pass on it.
AssignedOn(s) ==
    /\ Len(stack) \in DOMAIN s
    /\ \A k \in 1 .. Len(stack) - 1 : k \in DOMAIN s /\ s[k] = stack[k]
    /\ s[Len(stack)] = [Top EXCEPT !.left = Tail(@)]
    /\ \A k \in DOMAIN s : k \in 1 .. Len(stack) \/ s[k].left = <<>>

LEMMA AssignedIsOn ==
    ASSUME TypeOK, stack # <<>>, Top.left # <<>>
    PROVE  /\ AssignedOn(Assigned)
           /\ \A id : /\ AssignedOn(Append(Assigned, Pass(id)))
                      /\ Len(stack) + 1 \in DOMAIN Append(Assigned, Pass(id))
                      /\ Append(Assigned, Pass(id))[Len(stack) + 1] = Pass(id)
<1>1. /\ stack \in Seq(Passes) /\ Len(stack) \in Nat /\ Len(stack) >= 1
      /\ [Top EXCEPT !.left = Tail(@)] \in Passes /\ Assigned \in Seq(Passes)
  BY TopTyped
<1>2. /\ Len(Assigned) = Len(stack) /\ DOMAIN Assigned = 1 .. Len(stack)
      /\ Assigned[Len(stack)] = [Top EXCEPT !.left = Tail(@)]
      /\ \A k \in 1 .. Len(stack) - 1 : Assigned[k] = stack[k]
  BY <1>1, OnTop DEF Assigned, Below
<1>3. AssignedOn(Assigned)
  BY <1>1, <1>2 DEF AssignedOn
<1>4. ASSUME NEW id
      PROVE  /\ AssignedOn(Append(Assigned, Pass(id)))
             /\ Len(stack) + 1 \in DOMAIN Append(Assigned, Pass(id))
             /\ Append(Assigned, Pass(id))[Len(stack) + 1] = Pass(id)
  <2>1. PICK a, l : a = Assigned /\ l = Len(stack)
    OBVIOUS
  <2>2. /\ DOMAIN Append(a, Pass(id)) = 1 .. l + 1
        /\ Append(a, Pass(id))[l + 1] = Pass(id)
        /\ \A k \in 1 .. l : Append(a, Pass(id))[k] = a[k]
    BY <1>1, <1>2, <2>1
  <2>3. Pass(id).left = <<>>
    BY DEF Pass
  <2> DEFINE b == Append(Assigned, Pass(id))
  <2>4. /\ DOMAIN b = 1 .. Len(stack) + 1 /\ b[Len(stack) + 1] = Pass(id)
        /\ \A k \in 1 .. Len(stack) : b[k] = Assigned[k]
    BY <2>1, <2>2
  <2> HIDE DEF b
  <2>5. /\ Len(stack) \in DOMAIN b /\ Len(stack) + 1 \in DOMAIN b
        /\ \A k \in 1 .. Len(stack) - 1 : k \in DOMAIN b
        /\ \A k \in DOMAIN b : k \in 1 .. Len(stack) \/ k = Len(stack) + 1
    BY <1>1, <2>4
  <2>6. /\ b[Len(stack)] = Assigned[Len(stack)]
        /\ \A k \in 1 .. Len(stack) - 1 : b[k] = Assigned[k]
    BY <1>1, <2>4
  <2>7. AssignedOn(b)
    BY <1>2, <2>3, <2>4, <2>5, <2>6 DEF AssignedOn
  <2> QED BY <2>4, <2>5, <2>7 DEF b
<1> QED BY <1>3, <1>4

\* What is left after an assignment is still from the rule considered last.
LEMMA AssignedLeft ==
    ASSUME TypeOK, LeftOK, stack # <<>>, Top.left # <<>>, rules' = rules, AssignedOn(stack')
    PROVE  LeftOK'
<1>1. /\ stack \in Seq(Passes) /\ Len(stack) \in Nat /\ Len(stack) >= 1
      /\ DOMAIN stack = 1 .. Len(stack) /\ Top \in Passes /\ Top = stack[Len(stack)]
  BY TopTyped
<1>2. Top.left \in Seq([target : Ids, rval : Expressions])
  BY <1>1 DEF Passes
<1> SUFFICES ASSUME NEW k \in DOMAIN stack', stack'[k].left # <<>>
             PROVE  /\ stack'[k].rule >= 2
                    /\ \A j \in DOMAIN stack'[k].left :
                          stack'[k].left[j] \in Assignments(rules[stack'[k].rule - 1])
                    /\ rules[stack'[k].rule - 1].kind # "label"
  BY DEF LeftOK, LeftOf, Assignments
<1>3. k \in 1 .. Len(stack)
  BY DEF AssignedOn
<1>4. LeftOf(k)
  BY <1>1, <1>3 DEF LeftOK
<1>5. CASE k < Len(stack)
  <2>1. stack'[k] = stack[k] /\ k # Len(stack)
    BY <1>1, <1>3, <1>5 DEF AssignedOn
  <2> QED BY <1>4, <2>1 DEF LeftOf
<1>6. CASE k = Len(stack)
  <2>1. /\ stack'[k].id = Top.id /\ stack'[k].rule = Top.rule
        /\ stack'[k].left = Tail(Top.left)
    BY <1>1, <1>6 DEF AssignedOn, Passes
  <2>2. \A j \in DOMAIN Tail(Top.left) : j + 1 \in DOMAIN Top.left
                                         /\ Tail(Top.left)[j] = Top.left[j + 1]
    BY <1>2
  <2>3. /\ Top.rule >= 2
        /\ \A j \in DOMAIN Top.left : Top.left[j] \in Assignments(rules[Top.rule - 1])
        /\ rules[Top.rule - 1].kind = "label" => Top.left = Fired(rules[Top.rule - 1])
    BY <1>1, <1>4, <1>6 DEF LeftOf
  <2>4. ASSUME rules[Top.rule - 1].kind = "label"
        PROVE  FALSE
    <3>1. Top.rule - 1 \in DOMAIN rules
      BY <1>1, <2>3, RulesTyped DEF Passes
    <3>2. PICK g : Top.left = <<Set(rules[Top.rule - 1].target, g)>>
      BY <2>3, <2>4, <3>1, RulesTyped, FiredTyped
    <3>3. Tail(Top.left) = <<>>
      BY <3>2
    <3> QED BY <2>1, <3>3
  <2> QED BY <2>1, <2>2, <2>3, <2>4
<1> QED BY <1>1, <1>3, <1>5, <1>6

\* A block stays due when an assignment to another target is done.
LEMMA StillDue ==
    ASSUME TypeOK, LeftOK, stack # <<>>, Top.left # <<>>, AssignedOn(stack'),
           NEW i \in DOMAIN rules, Sole(i), Fired(rules[i]) # <<>>, Due(i),
           Head(Top.left).target # rules[i].target,
           rules' = rules, Deps(rules[i])' = Deps(rules[i])
    PROVE  Due(i)'
<1>1. /\ stack \in Seq(Passes) /\ Len(stack) \in Nat /\ Len(stack) >= 1
      /\ DOMAIN stack = 1 .. Len(stack) /\ Top \in Passes /\ Top = stack[Len(stack)]
  BY TopTyped
<1>2. PICK k \in DOMAIN stack : DueAt(k, i)
  BY DEF Due
<1>3. CASE k < Len(stack)
  <2>1. k \in DOMAIN stack' /\ stack'[k] = stack[k]
    BY <1>1, <1>3 DEF AssignedOn
  <2> QED BY <1>2, <2>1 DEF Due, DueAt
<1>4. CASE k = Len(stack)
  <2>1. /\ k \in DOMAIN stack' /\ stack'[k].id = Top.id /\ stack'[k].rule = Top.rule
    BY <1>1, <1>4 DEF AssignedOn, Passes
  <2>2. Top.rule # i + 1
    <3> SUFFICES ASSUME Top.rule = i + 1 PROVE FALSE
      OBVIOUS
    <3>1. Top.rule - 1 = i
      BY RulesTyped
    <3>2. Top.left = Fired(rules[i])
      BY <1>1, <3>1 DEF LeftOK, LeftOf, Sole
    <3>3. Fired(rules[i]) = <<Set(rules[i].target, Given(i))>>
      BY GivenOfBlock
    <3>4. Head(Top.left) = Set(rules[i].target, Given(i))
      BY <3>2, <3>3
    <3> QED BY <3>4 DEF Set
  <2> QED BY <1>1, <1>2, <1>4, <2>1, <2>2 DEF Due, DueAt
<1> QED BY <1>1, <1>3, <1>4

Owing == LeftOK /\ OwedOK

\* The rule a pass comes to: a due block that concerns the pass is carried out next.
LEMMA ConsiderOwing ==
    ASSUME TypeOK, alive => Owing, ConsiderRule
    PROVE  alive' => Owing'
<1>1. CASE Dies
  BY <1>1 DEF Dies
<1>2. CASE ~Dies
  <2> DEFINE rule == rules[Top.rule]
             left == IF Concerns(rule, Top.id) THEN Fired(rule) ELSE <<>>
  <2>1. /\ ~Overflows(rule, Top.id) /\ UNCHANGED <<actual, events, astray, coreVars>>
        /\ stack' = Append(Below, [Top EXCEPT !.rule = @ + 1, !.left = left])
        /\ stack # <<>> /\ Top.left = <<>> /\ Top.rule <= Len(rules) /\ Owing
    BY <1>2 DEF ConsiderRule
  <2>2. PICK n \in Nat : /\ n = Len(stack) /\ n >= 1 /\ DOMAIN stack = 1 .. n
                         /\ stack \in Seq(Passes) /\ Top \in Passes /\ Top = stack[n]
    BY <2>1, TopTyped
  <2>3. Top.rule \in DOMAIN rules /\ rule \in Rules /\ Top.rule \in Nat
    BY <2>1, <2>2, RulesTyped DEF Passes
  <2>4. /\ DOMAIN stack' = 1 .. n /\ Len(stack') = n
        /\ \A k \in 1 .. n - 1 : stack'[k] = stack[k]
        /\ stack'[n].id = Top.id /\ stack'[n].rule = Top.rule + 1 /\ stack'[n].left = left
    <3>1. PICK t : t = [Top EXCEPT !.rule = @ + 1, !.left = left]
      OBVIOUS
    <3>2. t.id = Top.id /\ t.rule = Top.rule + 1 /\ t.left = left
      <4>1. DOMAIN Top = {"id", "rule", "left"}
        BY <2>2 DEF Passes
      <4> HIDE DEF left
      <4> QED BY <3>1, <4>1
    <3>3. PICK T : T = Passes \cup {t}
      OBVIOUS
    <3>4. stack \in Seq(T) /\ t \in T
      BY <2>2, <3>3, SeqOfMore
    <3>5. /\ DOMAIN stack' = 1 .. n /\ Len(stack') = n /\ stack'[n] = t
          /\ \A k \in 1 .. n - 1 : stack'[k] = stack[k]
      BY <2>1, <2>2, <3>1, <3>4, OnTop DEF Below
    <3> QED BY <3>2, <3>5
  <2>5. ASSUME NEW i
        PROVE  /\ rules' = rules /\ Fired(rules[i])' = Fired(rules[i])
               /\ Needs(i)' = Needs(i) /\ Deps(rules[i])' = Deps(rules[i])
    <3>1. vars' = vars /\ mirror' = mirror /\ conf' = conf
      BY <2>1 DEF coreVars, setup
    <3> QED BY <2>1, <3>1, SameRule, SameNeeds
  <2>6. LeftOK'
    <3> SUFFICES ASSUME NEW k \in 1 .. n, stack'[k].left # <<>>
                 PROVE  LeftOf(k)'
      BY <2>4 DEF LeftOK, LeftOf
    <3>1. CASE k < n
      <4>1. stack'[k] = stack[k] /\ LeftOf(k) /\ k # n
        BY <2>1, <2>2, <2>4, <3>1 DEF Owing, LeftOK
      <4>2. rules[stack[k].rule - 1].kind # "label"
        BY <2>2, <4>1 DEF LeftOf
      <4> QED BY <2>5, <4>1, <4>2 DEF LeftOf, Assignments
    <3>2. CASE k = n
      <4>1. left = Fired(rule) /\ stack'[k].left = Fired(rule)
        BY <2>4, <3>2
      <4>2. \A j \in DOMAIN Fired(rule) : Fired(rule)[j] \in Assignments(rule)
        BY <2>3, FiredTyped
      <4>3. stack'[k].rule - 1 = Top.rule /\ stack'[k].rule >= 2
        BY <2>2, <2>3, <2>4, <3>2 DEF Passes
      <4>4. vars' = vars /\ mirror' = mirror /\ rules' = rules
        BY <2>1, <2>5 DEF coreVars
      <4>5. rules'[stack'[k].rule - 1] = rule
        BY <4>3, <4>4
      <4>6. Fired(rules[stack[k].rule - 1])' = Fired(rule)
        <5> HIDE DEF rule
        <5> QED BY <4>4, <4>5 DEF Fired, Decisive, Eval, VarValues
      <4>7. stack'[k].left = Fired(rules[stack[k].rule - 1])'
        BY <4>1, <4>6
      <4>8. \A j \in DOMAIN stack'[k].left :
               stack'[k].left[j] \in Assignments(rules[stack[k].rule - 1])'
        <5>1. \A j \in DOMAIN stack'[k].left : stack'[k].left[j] \in Assignments(rule)
          <6> HIDE DEF rule, left
          <6> QED BY <4>1, <4>2
        <5>2. Assignments(rules[stack[k].rule - 1])' = Assignments(rule)
          <6> HIDE DEF rule
          <6> QED BY <4>5 DEF Assignments
        <5> QED BY <5>1, <5>2
      <4>9. k = Len(stack')
        BY <2>4, <3>2
      <4> QED BY <4>3, <4>7, <4>8, <4>9 DEF LeftOf
    <3> QED BY <2>2, <3>1, <3>2
  <2>7. OwedOK'
    <3> SUFFICES ASSUME NEW i \in DOMAIN rules, Needs(i)
                 PROVE  Due(i)'
      BY <2>5 DEF OwedOK
    <3>1. PICK k \in 1 .. n : DueAt(k, i)
      BY <2>1, <2>2 DEF Owing, OwedOK, Due
    <3>2. CASE k < n
      BY <2>2, <2>4, <2>5, <3>1, <3>2 DEF DueAt, Due
    <3>3. CASE k = n /\ Top.rule # i
      <4>1. Top.rule + 1 <= i
        BY <2>1, <2>2, <2>3, <3>1, <3>3, RulesTyped DEF DueAt
      <4> QED BY <2>2, <2>4, <2>5, <3>1, <3>3, <4>1 DEF DueAt, Due
    <3>4. CASE k = n /\ Top.rule = i
      <4>1. Concerns(rule, Top.id)
        <5>1. Top.id = None \/ Top.id \in Deps(rule)
          BY <2>2, <3>1, <3>4 DEF DueAt
        <5>2. Top.id \in Deps(rule) => EndsSearch(rule, Top.id) # {}
          BY DEF EndsSearch, Deps
        <5> QED BY <2>1, <5>1, <5>2 DEF Overflows, Concerns
      <4>2. stack'[k].left # <<>>
        BY <2>4, <3>4, <4>1 DEF Needs
      <4> QED BY <2>2, <2>4, <2>5, <3>1, <3>4, <4>2 DEF DueAt, Due
    <3> QED BY <2>2, <3>2, <3>3, <3>4
  <2> QED BY <2>6, <2>7 DEF Owing
<1> QED BY <1>1, <1>2

\* An output has what the block gave it, or is astray.
LEMMA SetOutputOwing ==
    ASSUME TypeOK, alive => Owing, NEW o \in Outputs, SetOutput(o)
    PROVE  alive' => Owing'
<1> DEFINE val == Eval(Head(Top.left).rval)
<1>1. CASE Dies
  BY <1>1 DEF Dies
<1>2. CASE ~Dies
  <2>1. /\ val # Endless /\ stack' = Assigned /\ UNCHANGED coreVars
        /\ \/ val = mirror[o] /\ AlreadyThere(o, val)
           \/ val = Undefined /\ NoWrite
           \/ /\ val \notin {Undefined, mirror[o]}
              /\ \/ o \in overridden /\ NoWrite
                 \/ o \notin overridden /\ WriteOutput(o, val)
                 \/ o \notin overridden /\ WritesFail /\ WriteFails(o)
        /\ stack # <<>> /\ Top.left # <<>> /\ Head(Top.left).target = o /\ LeftOK /\ OwedOK
    BY <1>2 DEF SetOutput, Assigning, Owing
  <2>2. /\ vars' = vars /\ mirror' = mirror /\ conf' = conf /\ overridden' = overridden
        /\ missed' = missed
    BY <2>1 DEF coreVars, setup
  <2>3. rules' = rules /\ AssignedOn(stack')
    BY <2>1, <2>2, AssignedIsOn, SameRule
  <2>4. LeftOK'
    BY <2>1, <2>3, AssignedLeft
  <2>5. \A p \in Points \ {o} : actual'[p] = actual[p]
    BY <2>1 DEF WriteOutput, WriteFails, AlreadyThere, NoWrite, TypeOK
  <2>6. \A p \in Outputs \ {o} : astray'[p] = astray[p]
    BY <2>1 DEF WriteOutput, WriteFails, AlreadyThere, NoWrite, TypeOK
  <2>7. \A p \in Points \ {o} : (\E j \in DOMAIN events' : events'[j].id = p)
                                   => \E j \in DOMAIN events : events[j].id = p
    <3>1. events' = events \/ events' = Append(events, [id |-> o, val |-> val])
      BY <2>1 DEF WriteOutput, WriteFails, AlreadyThere, NoWrite
    <3>2. CASE events' = Append(events, [id |-> o, val |-> val])
      <4>1. events \in Seq([id : Present, val : Int])
        BY DEF TypeOK
      <4>2. \A j \in DOMAIN events' : (j \in DOMAIN events /\ events'[j] = events[j])
                                         \/ events'[j].id = o
        BY <3>2, <4>1
      <4> QED BY <4>2
    <3> QED BY <3>1, <3>2
  <2>8. ASSUME NEW i \in DOMAIN rules, Needs(i)'
        PROVE  Due(i)'
    <3>1. /\ Sole(i) /\ Fired(rules[i]) # <<>> /\ Deps(rules[i])' = Deps(rules[i])
          /\ Given(i)' = Given(i) /\ Eval(Given(i))' = Eval(Given(i)) /\ Present' = Present
      BY <2>2, <2>8, SameRule DEF Needs
    <3>2. CASE rules[i].target # o
      <4>1. WrongVariable(i)' => WrongVariable(i)
        BY <2>2, <2>3, <3>1 DEF WrongVariable
      <4>2. WrongOutput(i)' => WrongOutput(i)
        BY <2>2, <2>3, <2>5, <2>6, <2>7, <3>1, <3>2 DEF WrongOutput, Points
      <4>3. Needs(i)
        BY <2>2, <2>8, <3>1, <4>1, <4>2 DEF Needs
      <4> QED BY <2>1, <2>3, <3>1, <3>2, <4>3, StillDue DEF OwedOK
    <3>3. CASE rules[i].target = o
      <4>1. val = Eval(Given(i))
        BY <2>1, <3>1, <3>3, HeadFrom
      <4>2. o \in Outputs /\ o \notin Vars
        BY EngineAssumption
      <4>3. ~WrongVariable(i)'
        BY <2>3, <3>3, <4>2 DEF WrongVariable
      <4>4. WrongOutput(i)'
        BY <2>8, <4>3 DEF Needs
      <4>5. /\ o \notin overridden /\ astray'[o] = "no" /\ val \notin {Undefined, Endless}
            /\ actual'[o] # val
        BY <2>2, <2>3, <3>1, <3>3, <4>1, <4>4 DEF WrongOutput
      <4>6. CASE AlreadyThere(o, val)
        BY <4>2, <4>5, <4>6 DEF AlreadyThere, TypeOK
      <4>7. CASE WriteOutput(o, val)
        BY <4>2, <4>5, <4>7 DEF WriteOutput, TypeOK, Points
      <4>8. CASE WriteFails(o)
        BY <4>2, <4>5, <4>8 DEF WriteFails, TypeOK
      <4> QED BY <2>1, <4>5, <4>6, <4>7, <4>8
    <3> QED BY <3>2, <3>3
  <2> QED BY <2>3, <2>4, <2>8 DEF Owing, OwedOK
<1> QED BY <1>1, <1>2

\* A variable has what the block gave it; who depends on it is due by the new pass.
LEMMA SetVariableOwing ==
    ASSUME TypeOK, alive => Owing, NEW v \in Vars, SetVariable(v)
    PROVE  alive' => Owing'
<1> DEFINE rval == Head(Top.left).rval
<1>1. /\ alive /\ stack # <<>> /\ Top.left # <<>> /\ Head(Top.left).target = v
      /\ LeftOK /\ OwedOK /\ v \notin Outputs /\ v \notin Points /\ v # None
  BY EngineAssumption DEF SetVariable, Assigning, Owing, Points
<1>2. CASE HasAlready(v, rval)
  <2>1. /\ stack' = Assigned /\ UNCHANGED <<actual, events, astray, coreVars>>
    BY <1>2 DEF SetVariable
  <2>2. vars' = vars /\ mirror' = mirror /\ conf' = conf
    BY <2>1 DEF coreVars, setup
  <2>3. rules' = rules /\ AssignedOn(stack')
    BY <1>1, <2>1, <2>2, AssignedIsOn, SameRule
  <2>4. ASSUME NEW i \in DOMAIN rules, Needs(i)'
        PROVE  Due(i)'
    <3>1. Needs(i)
      BY <2>1, <2>4, SameNeeds
    <3>2. Sole(i) /\ Fired(rules[i]) # <<>> /\ Due(i) /\ Deps(rules[i])' = Deps(rules[i])
      BY <1>1, <2>2, <3>1, SameRule DEF Needs, OwedOK
    <3>3. rules[i].target # v
      <4> SUFFICES ASSUME rules[i].target = v PROVE FALSE
        OBVIOUS
      <4>1. rval = Given(i)
        BY <1>1, <3>2, HeadFrom
      <4> QED BY <1>1, <1>2, <3>1, <4>1 DEF HasAlready, Needs, WrongVariable, WrongOutput
    <3> QED BY <1>1, <2>3, <3>2, <3>3, StillDue
  <2> QED BY <1>1, <2>3, <2>4, AssignedLeft DEF Owing, OwedOK
<1>3. CASE ~HasAlready(v, rval) /\ alive'
  <2>1. /\ vars' = [vars EXCEPT ![v] = rval] /\ Notice(v, Assigned)
        /\ UNCHANGED <<setup, actual, events, astray, mirror, stops>>
    BY <1>3 DEF SetVariable
  <2>2. OnlyChanges(v) /\ mirror' = mirror /\ rules' = rules /\ Present' = Present
        /\ actual' = actual /\ events' = events /\ astray' = astray /\ overridden' = overridden
    BY <2>1 DEF OnlyChanges, setup, rules, Present, TypeOK
  <2>3. AssignedOn(stack')
    BY <1>1, <2>1, AssignedIsOn DEF Notice
  <2>4. ASSUME NEW i \in DOMAIN rules, Needs(i)'
        PROVE  Due(i)'
    <3>1. Sole(i) /\ rules[i] \in Rules
      BY <2>2, <2>4, RulesTyped DEF Needs, Sole
    <3>2. CASE v \in Deps(rules[i])'
      <4>1. v \notin missed'
        BY <2>4, <3>2 DEF Needs
      <4>2. stack' = Append(Assigned, Pass(v))
        BY <2>1, <4>1 DEF Notice
      <4>3. Len(stack) + 1 \in DOMAIN stack' /\ stack'[Len(stack) + 1] = Pass(v)
        BY <1>1, <4>2, AssignedIsOn
      <4>4. i >= 1
        BY RulesTyped
      <4> QED BY <3>2, <4>3, <4>4 DEF Due, DueAt, Pass
    <3>3. CASE v \notin Deps(rules[i])'
      <4>1. PICK r : r = rules[i] /\ r \in Rules
        BY <3>1
      <4>2. /\ Deps(r)' = Deps(r) /\ Fired(r)' = Fired(r) /\ v \notin Deps(r)
            /\ \A e \in ExprSet(r) : Eval(e)' = Eval(e)
        BY <2>2, <3>3, <4>1, RuleLocal DEF Deps
      <4>3. Fired(rules[i]) # <<>> /\ Given(i)' = Given(i) /\ Deps(rules[i])' = Deps(rules[i])
        BY <2>2, <2>4, <4>1, <4>2 DEF Needs, Given, Fired
      <4>4. PICK g \in ExprSet(r) : g = Given(i) /\ Eval(g)' = Eval(g)
        BY <3>1, <4>1, <4>2, <4>3, GivenOfBlock
      <4>5. rules[i].target = v => rval = Given(i)
        BY <1>1, <3>1, HeadFrom
      <4>6. WrongVariable(i)' => WrongVariable(i) /\ rules[i].target # v
        <5>1. rules[i].target = v => vars'[v] = Given(i)
          BY <2>1, <4>5 DEF TypeOK
        <5>2. rules[i].target # v /\ rules[i].target \in Vars
                 => vars'[rules[i].target] = vars[rules[i].target]
          BY <2>1 DEF TypeOK
        <5>3. missed \subseteq missed' \cup {v}
          BY <2>1 DEF Notice
        <5> QED BY <2>2, <4>3, <5>1, <5>2, <5>3 DEF WrongVariable
      <4>7. WrongOutput(i)' => WrongOutput(i) /\ rules[i].target # v
        <5>1. missed \subseteq missed' \cup {v}
          BY <2>1 DEF Notice
        <5>2. Eval(Given(i))' = Eval(Given(i))
          BY <4>3, <4>4 DEF Eval, VarValues
        <5> QED BY <1>1, <2>2, <4>3, <5>1, <5>2 DEF WrongOutput
      <4>8. missed \cap ({None} \cup Deps(rules[i])) = {}
        <5>1. missed \subseteq missed' \cup {v}
          BY <2>1 DEF Notice
        <5> QED BY <1>1, <2>4, <3>3, <4>3, <5>1 DEF Needs
      <4>9. Needs(i) /\ rules[i].target # v
        BY <2>4, <3>1, <4>3, <4>6, <4>7, <4>8 DEF Needs
      <4> QED BY <1>1, <2>2, <2>3, <3>1, <4>3, <4>9, StillDue DEF OwedOK
    <3> QED BY <3>2, <3>3
  <2> QED BY <1>1, <2>2, <2>3, <2>4, AssignedLeft DEF Owing, OwedOK
<1>4. CASE ~HasAlready(v, rval) /\ ~alive'
  BY <1>4
<1> QED BY <1>2, <1>3, <1>4

\* An assignment to what is no output or variable leaves every target as it is.
LEMMA SetNothingOwing ==
    ASSUME TypeOK, alive => Owing, NEW id \in Points, SetNothing(id)
    PROVE  alive' => Owing'
<1>1. /\ alive /\ stack # <<>> /\ Top.left # <<>> /\ Head(Top.left).target = id
      /\ id \notin (Present \cap Outputs) \cup Vars /\ LeftOK /\ OwedOK
      /\ stack' = Assigned /\ UNCHANGED <<actual, events, astray, coreVars>>
  BY DEF SetNothing, Assigning, Owing
<1>2. vars' = vars /\ mirror' = mirror /\ conf' = conf
  BY <1>1 DEF coreVars, setup
<1>3. rules' = rules /\ AssignedOn(stack')
  BY <1>1, <1>2, AssignedIsOn, SameRule
<1>4. ASSUME NEW i \in DOMAIN rules, Needs(i)'
      PROVE  Due(i)'
  <2>1. Needs(i)
    BY <1>1, <1>4, SameNeeds
  <2>2. Sole(i) /\ Fired(rules[i]) # <<>> /\ Due(i) /\ Deps(rules[i])' = Deps(rules[i])
    BY <1>1, <1>2, <2>1, SameRule DEF Needs, OwedOK
  <2>3. rules[i].target # id
    BY <1>1, <2>1 DEF Needs, WrongVariable, WrongOutput
  <2> QED BY <1>1, <1>3, <2>2, <2>3, StillDue
<1> QED BY <1>1, <1>3, <1>4, AssignedLeft DEF Owing, OwedOK

\* A pass that ends has no block left that is due.
LEMMA EndPassOwing ==
    ASSUME TypeOK, alive => Owing, EndPass
    PROVE  alive' => Owing'
<1>1. /\ alive /\ stack # <<>> /\ Top.left = <<>> /\ Top.rule > Len(rules) /\ LeftOK /\ OwedOK
      /\ stack' = Below /\ UNCHANGED <<actual, events, astray, coreVars>>
  BY DEF EndPass, Owing
<1>2. vars' = vars /\ mirror' = mirror /\ conf' = conf
  BY <1>1 DEF coreVars, setup
<1>3. PICK n \in Nat :
         /\ n = Len(stack) /\ n >= 1 /\ DOMAIN stack = 1 .. n
         /\ Top \in Passes /\ Top = stack[n]
         /\ DOMAIN stack' = 1 .. n - 1 /\ \A k \in 1 .. n - 1 : stack'[k] = stack[k]
  BY <1>1, TopTyped
<1>4. rules' = rules
  BY <1>2, SameRule
<1>5. LeftOK'
  <2> SUFFICES ASSUME NEW k \in 1 .. n - 1, stack[k].left # <<>>
               PROVE  LeftOf(k)'
    BY <1>3 DEF LeftOK, LeftOf
  <2>1. LeftOf(k) /\ k # n /\ stack'[k] = stack[k]
    BY <1>1, <1>3 DEF LeftOK
  <2>2. rules[stack[k].rule - 1].kind # "label"
    BY <1>3, <2>1 DEF LeftOf
  <2> QED BY <1>4, <2>1, <2>2 DEF LeftOf, Assignments
<1>6. ASSUME NEW i \in DOMAIN rules, Needs(i)'
      PROVE  Due(i)'
  <2>1. Needs(i) /\ Deps(rules[i])' = Deps(rules[i])
    BY <1>1, <1>2, <1>6, SameNeeds, SameRule
  <2>2. PICK k \in 1 .. n : DueAt(k, i)
    BY <1>1, <1>3, <2>1 DEF OwedOK, Due
  <2>3. i \in Nat /\ i <= Len(rules) /\ Len(rules) \in Nat /\ Top.rule \in Nat
    BY <1>3, RulesTyped DEF Passes
  <2>4. k # n
    BY <1>1, <1>3, <2>2, <2>3 DEF DueAt
  <2>5. k \in DOMAIN stack' /\ stack'[k] = stack[k]
    BY <1>3, <2>4
  <2> QED BY <2>1, <2>2, <2>5 DEF Due, DueAt
<1> QED BY <1>4, <1>5, <1>6 DEF Owing, OwedOK

\* An output that a service or an operator changes is astray.
LEMMA PointChangesOwing ==
    ASSUME TypeOK, alive => Owing, NEW p \in Points, NEW v \in Values, PointChanges(p, v)
    PROVE  alive' => Owing'
<1>1. /\ alive /\ LeftOK /\ OwedOK /\ actual' = [actual EXCEPT ![p] = v]
      /\ events' = IF p \in Present THEN Append(events, [id |-> p, val |-> v]) ELSE events
      /\ astray' = IF p \in Outputs THEN [astray EXCEPT ![p] = "operator"] ELSE astray
      /\ stack' = stack
  BY DEF PointChanges, Owing
<1>2. /\ vars' = vars /\ mirror' = mirror /\ conf' = conf /\ overridden' = overridden
      /\ missed' = missed
  BY DEF PointChanges, coreVars, setup
<1>3. rules' = rules
  BY <1>2, SameRule
<1>4. LeftOK'
  <2>1. ASSUME NEW k \in DOMAIN stack
        PROVE  LeftOf(k)'
    <3>1. Fired(rules[stack[k].rule - 1])' = Fired(rules[stack[k].rule - 1])
      BY <1>1, <1>2, <1>3 DEF Fired, Decisive, Eval, VarValues
    <3>2. Assignments(rules[stack[k].rule - 1])' = Assignments(rules[stack[k].rule - 1])
      BY <1>1, <1>3 DEF Assignments
    <3>3. LeftOf(k)
      BY <1>1 DEF LeftOK
    <3> QED BY <1>1, <1>3, <3>1, <3>2, <3>3 DEF LeftOf
  <2> QED BY <1>1, <2>1 DEF LeftOK
<1>5. ASSUME NEW i \in DOMAIN rules, Needs(i)'
      PROVE  Due(i)'
  <2>1. /\ Sole(i) /\ Fired(rules[i]) # <<>> /\ Deps(rules[i])' = Deps(rules[i])
        /\ Given(i)' = Given(i) /\ Eval(Given(i))' = Eval(Given(i)) /\ Present' = Present
    BY <1>2, <1>5, SameRule DEF Needs
  <2>2. WrongVariable(i)' => WrongVariable(i)
    BY <1>2, <1>3, <2>1 DEF WrongVariable
  <2>3. WrongOutput(i)' => WrongOutput(i)
    <3> SUFFICES ASSUME WrongOutput(i)' PROVE WrongOutput(i)
      OBVIOUS
    <3>1. PICK t : t = rules[i].target /\ t \in (Outputs \cap Present) \ overridden
      BY <1>2, <1>3, <2>1 DEF WrongOutput
    <3>2. astray'[t] = "no"
      BY <1>3, <3>1 DEF WrongOutput
    <3>3. t # p
      BY <1>1, <3>1, <3>2 DEF TypeOK
    <3>4. astray[t] = astray'[t] /\ actual[t] = actual'[t]
      BY <1>1, <3>1, <3>3 DEF TypeOK, Points
    <3>5. (\E j \in DOMAIN events' : events'[j].id = t)
             => \E j \in DOMAIN events : events[j].id = t
      <4>1. events \in Seq([id : Present, val : Int])
        BY DEF TypeOK
      <4>2. \A j \in DOMAIN events' : (j \in DOMAIN events /\ events'[j] = events[j])
                                         \/ events'[j].id = p
        BY <1>1, <4>1
      <4> QED BY <3>3, <4>2
    <3> QED BY <1>2, <1>3, <2>1, <3>1, <3>4, <3>5 DEF WrongOutput
  <2>4. Needs(i)
    BY <1>2, <1>5, <2>1, <2>2, <2>3 DEF Needs
  <2> QED BY <1>1, <2>1, <2>4 DEF OwedOK, Due, DueAt
<1> QED BY <1>3, <1>4, <1>5 DEF Owing, OwedOK

\* A change that reaches the Core makes a pass for it, or is missed.
LEMMA OnChangeOwing ==
    ASSUME TypeOK, alive => Owing, OnChange
    PROVE  alive' => Owing'
<1> DEFINE e == Head(events)
<1>1. /\ alive /\ stack = <<>> /\ events # <<>> /\ OwedOK /\ events' = Tail(events)
      /\ mirror' = [mirror EXCEPT ![e.id] = e.val] /\ Notice(e.id, <<>>)
      /\ UNCHANGED <<setup, actual, astray, alive, vars, stops>>
  BY DEF OnChange, Idle, Owing
<1>2. /\ e \in [id : Present, val : Int] /\ e = events[1] /\ 1 \in DOMAIN events
      /\ \A j \in DOMAIN Tail(events) : j + 1 \in DOMAIN events
                                        /\ Tail(events)[j] = events[j + 1]
  <2>1. events \in Seq([id : Present, val : Int])
    BY DEF TypeOK
  <2>2. e \in [id : Present, val : Int]
    BY <1>1, <2>1, HeadTailProperties
  <2>3. e = events[1] /\ 1 \in DOMAIN events
    BY <1>1, <2>1
  <2>4. \A j \in DOMAIN Tail(events) : j + 1 \in DOMAIN events
                                       /\ Tail(events)[j] = events[j + 1]
    BY <1>1, <2>1
  <2> QED BY <2>2, <2>3, <2>4
<1>3. PICK c : c = e.id /\ c \in Present /\ c \in Points
  BY <1>2 DEF Present
<1>4. /\ OnlyChanges(c) /\ rules' = rules /\ Present' = Present /\ overridden' = overridden
      /\ actual' = actual /\ astray' = astray /\ vars' = vars
  <2>1. e.val # None
    BY <1>2, EngineAssumption
  <2>2. Present' = Present
    <3> HIDE DEF e
    <3> QED BY <1>1, <1>3, <2>1 DEF Present, TypeOK
  <2>3. OnlyChanges(c)
    <3> HIDE DEF e
    <3> QED BY <1>1, <1>3 DEF OnlyChanges, TypeOK
  <2> QED BY <1>1, <2>2, <2>3 DEF setup, rules
<1>5. missed \subseteq missed' \cup {c} /\ (c \notin missed' => stack' = Append(<<>>, Pass(c)))
      /\ \A k \in DOMAIN stack' : stack'[k].left = <<>>
  BY <1>1, <1>3 DEF Notice, Pass
<1>6. LeftOK'
  BY <1>5 DEF LeftOK, LeftOf
<1>7. ASSUME NEW i \in DOMAIN rules, Needs(i)'
      PROVE  Due(i)'
  <2>1. Sole(i) /\ rules[i] \in Rules /\ ~Due(i)
    BY <1>1, <1>4, <1>7, RulesTyped DEF Needs, Sole, Due
  <2>2. CASE c \in Deps(rules[i])'
    <3>1. stack' = <<Pass(c)>>
      BY <1>5, <1>7, <2>2 DEF Needs
    <3>2. 1 \in DOMAIN stack' /\ stack'[1] = Pass(c) /\ i >= 1
      BY <3>1, RulesTyped
    <3> QED BY <2>2, <3>2 DEF Due, DueAt, Pass
  <2>3. CASE c \notin Deps(rules[i])'
    <3>1. PICK r : r = rules[i] /\ r \in Rules
      BY <2>1
    <3>2. /\ Deps(r)' = Deps(r) /\ Fired(r)' = Fired(r) /\ c \notin Deps(r)
          /\ \A x \in ExprSet(r) : Eval(x)' = Eval(x)
      BY <1>4, <2>3, <3>1, RuleLocal DEF Deps
    <3>3. Fired(rules[i]) # <<>> /\ Given(i)' = Given(i) /\ Deps(rules[i])' = Deps(rules[i])
      BY <1>4, <1>7, <3>1, <3>2 DEF Needs, Given, Fired
    <3>4. PICK g \in ExprSet(r) : g = Given(i) /\ Eval(g)' = Eval(g)
      BY <2>1, <3>1, <3>2, <3>3, GivenOfBlock
    <3>5. Eval(Given(i))' = Eval(Given(i))
      BY <3>3, <3>4 DEF Eval, VarValues
    <3>6. WrongVariable(i)' => WrongVariable(i)
      BY <1>3, <1>4, <1>5, <3>3, EngineAssumption DEF WrongVariable, Points
    <3>7. WrongOutput(i)' => WrongOutput(i)
      <4> SUFFICES ASSUME WrongOutput(i)' PROVE WrongOutput(i)
        OBVIOUS
      <4>1. PICK t : t = rules[i].target
        OBVIOUS
      <4>2. t \notin missed' \/ \E j \in DOMAIN events' : events'[j].id = t
        BY <1>4, <4>1 DEF WrongOutput
      <4>3. t \notin missed \/ \E j \in DOMAIN events : events[j].id = t
        <5>1. CASE t \notin missed'
          BY <1>2, <1>3, <1>5, <5>1
        <5>2. CASE \E j \in DOMAIN events' : events'[j].id = t
          BY <1>1, <1>2, <5>2
        <5> QED BY <4>2, <5>1, <5>2
      <4> QED BY <1>4, <3>3, <3>5, <4>1, <4>3 DEF WrongOutput
    <3>8. missed \cap ({None} \cup Deps(rules[i])) = {}
      <4>1. c # None
        BY <1>3, EngineAssumption DEF Points
      <4> QED BY <1>5, <1>7, <2>3, <3>3, <4>1 DEF Needs
    <3>9. Needs(i)
      BY <1>7, <2>1, <3>3, <3>6, <3>7, <3>8 DEF Needs
    <3> QED BY <1>1, <2>1, <3>9 DEF OwedOK
  <2> QED BY <2>2, <2>3
<1> QED BY <1>4, <1>6, <1>7 DEF Owing, OwedOK

\* A peer that becomes ready makes a pass over all rules, or its point is missed.
LEMMA PeerReadyOwing ==
    ASSUME TypeOK, alive => Owing, NEW p \in Points, PeerReady(p)
    PROVE  alive' => Owing'
<1>1. /\ alive /\ stack = <<>> /\ OwedOK /\ p \notin Present
      /\ mirror' = [mirror EXCEPT ![p] = actual[p]]
      /\ UNCHANGED <<setup, actual, events, astray, alive, vars, paused, stops>>
  BY DEF PeerReady, Idle, Owing
<1>2. /\ OnlyChanges(p) /\ rules' = rules /\ overridden' = overridden
      /\ actual' = actual /\ astray' = astray /\ vars' = vars /\ events' = events
      /\ \A q \in Points \ {p} : q \in Present' <=> q \in Present
  BY <1>1 DEF OnlyChanges, setup, rules, TypeOK, Present
<1>3. CASE ~paused
  <2>1. stack' = <<Pass(None)>>
    BY <1>3 DEF PeerReady
  <2>2. /\ 1 \in DOMAIN stack' /\ stack'[1] = Pass(None)
        /\ \A k \in DOMAIN stack' : stack'[k] = Pass(None)
    BY <2>1
  <2>3. LeftOK'
    BY <2>2 DEF LeftOK, LeftOf, Pass
  <2>4. \A i \in DOMAIN rules' : Due(i)'
    BY <1>2, <2>2, RulesTyped DEF Due, DueAt, Pass
  <2> QED BY <2>3, <2>4 DEF Owing, OwedOK
<1>4. CASE paused
  <2>1. stack' = <<>> /\ missed' = missed \cup {p}
    BY <1>1, <1>4 DEF PeerReady
  <2>2. LeftOK'
    BY <2>1 DEF LeftOK
  <2>3. ASSUME NEW i \in DOMAIN rules, Needs(i)'
        PROVE  FALSE
    <3>1. Sole(i) /\ rules[i] \in Rules /\ ~Due(i)
      BY <1>1, <1>2, <2>3, RulesTyped DEF Needs, Sole, Due
    <3>2. p \notin Deps(rules[i])'
      BY <2>1, <2>3 DEF Needs
    <3>3. PICK r : r = rules[i] /\ r \in Rules
      BY <3>1
    <3>4. /\ Deps(r)' = Deps(r) /\ Fired(r)' = Fired(r) /\ p \notin Deps(r)
          /\ \A x \in ExprSet(r) : Eval(x)' = Eval(x)
      BY <1>2, <3>2, <3>3, RuleLocal DEF Deps
    <3>5. Fired(rules[i]) # <<>> /\ Given(i)' = Given(i) /\ Deps(rules[i])' = Deps(rules[i])
      BY <1>2, <2>3, <3>3, <3>4 DEF Needs, Given, Fired
    <3>6. PICK g \in ExprSet(r) : g = Given(i) /\ Eval(g)' = Eval(g)
      BY <3>1, <3>3, <3>4, <3>5, GivenOfBlock
    <3>7. Eval(Given(i))' = Eval(Given(i))
      BY <3>5, <3>6 DEF Eval, VarValues
    <3>8. WrongVariable(i)' => WrongVariable(i)
      BY <1>2, <2>1, <3>5 DEF WrongVariable
    <3>9. WrongOutput(i)' => WrongOutput(i)
      <4> SUFFICES ASSUME WrongOutput(i)' PROVE WrongOutput(i)
        OBVIOUS
      <4>1. PICK t : t = rules[i].target
        OBVIOUS
      <4>2. t \notin missed' \/ \E j \in DOMAIN events : events[j].id = t
        BY <1>2, <4>1 DEF WrongOutput
      <4>3. \A j \in DOMAIN events : events[j].id \in Present
        <5>1. events \in Seq([id : Present, val : Int])
          BY DEF TypeOK
        <5>2. \A j \in DOMAIN events : events[j] \in [id : Present, val : Int]
          BY <5>1, \A j \in DOMAIN events : j \in 1 .. Len(events), ElementOfSeq
        <5> QED BY <5>2
      <4>4. t # p
        BY <1>1, <2>1, <4>2, <4>3
      <4>5. t \in (Outputs \cap Present) \ overridden
        BY <1>2, <4>1, <4>4 DEF WrongOutput, Points
      <4> QED BY <1>2, <2>1, <3>5, <3>7, <4>1, <4>2, <4>5 DEF WrongOutput
    <3>10. Needs(i)
      BY <2>1, <2>3, <3>1, <3>5, <3>8, <3>9 DEF Needs
    <3> QED BY <1>1, <3>1, <3>10 DEF OwedOK
  <2> QED BY <1>2, <2>2, <2>3 DEF Owing, OwedOK
<1> QED BY <1>3, <1>4

\* A peer that is lost takes values away, and no block gives anything new.
LEMMA PeerLostOwing ==
    ASSUME TypeOK, alive => Owing, NEW p \in Points, PeerLost(p)
    PROVE  alive' => Owing'
<1>1. /\ alive /\ stack = <<>> /\ OwedOK /\ p \in Present
      /\ mirror' = [mirror EXCEPT ![p] = None] /\ events' = EventsWithout(p)
      /\ UNCHANGED <<setup, actual, stack, astray, alive, vars, paused, stops, missed>>
  BY DEF PeerLost, Idle, Owing
<1>2. /\ rules' = rules /\ overridden' = overridden /\ actual' = actual /\ astray' = astray
      /\ vars' = vars /\ missed' = missed /\ stack' = stack
      /\ mirror'[p] = None /\ \A q \in Points \ {p} : mirror'[q] = mirror[q]
      /\ Present' \subseteq Present
  BY <1>1 DEF setup, rules, TypeOK, Present
<1>3. LeftOK'
  BY <1>1, <1>2 DEF LeftOK
<1>4. ASSUME NEW i \in DOMAIN rules, Needs(i)'
      PROVE  FALSE
  <2>1. Sole(i) /\ rules[i] \in Rules /\ ~Due(i)
    BY <1>1, <1>2, <1>4, RulesTyped DEF Needs, Sole, Due
  <2>2. PICK r : r = rules[i] /\ r \in Rules /\ r.kind = "label"
    BY <2>1 DEF Sole
  <2>3. /\ Deps(r)' = Deps(r) /\ Fired(r)' \in {<<>>, Fired(r)}
        /\ \A x : Eval(x)' \in {Undefined, Eval(x)}
    BY <1>2, <2>2, RuleLoses
  <2>4. Fired(r)' # <<>>
    BY <1>2, <1>4, <2>2 DEF Needs, Fired
  <2>5. Fired(rules[i]) # <<>> /\ Given(i)' = Given(i) /\ Deps(rules[i])' = Deps(rules[i])
    BY <1>2, <2>2, <2>3, <2>4 DEF Given, Fired, Deps
  <2>6. PICK g : g = Given(i) /\ Eval(g)' \in {Undefined, Eval(g)}
    BY <2>3
  <2>7. Eval(Given(i))' \in {Undefined, Eval(Given(i))}
    BY <2>5, <2>6 DEF Eval, VarValues
  <2>8. (\E j \in DOMAIN events' : events'[j].id = rules[i].target)
           => \E j \in DOMAIN events : events[j].id = rules[i].target
    BY <1>1, EventsLeft
  <2>9. WrongVariable(i)' => WrongVariable(i)
    BY <1>2, <2>5 DEF WrongVariable
  <2>10. WrongOutput(i)' => WrongOutput(i)
    BY <1>2, <2>5, <2>7, <2>8 DEF WrongOutput
  <2>11. Needs(i)
    BY <1>2, <1>4, <2>1, <2>5, <2>9, <2>10 DEF Needs
  <2> QED BY <1>1, <2>1, <2>11 DEF OwedOK
<1> QED BY <1>2, <1>3, <1>4 DEF Owing, OwedOK

LEMMA InitInv ==
    ASSUME Init
    PROVE  IInv
<1>1. stack = <<>> /\ None \in missed
  BY DEF Init
<1>2. LeftOK /\ OwedOK
  BY <1>1 DEF LeftOK, OwedOK, Needs
<1> QED BY <1>2, InitTyped DEF IInv

\* Every step keeps the invariant.
LEMMA InvStep ==
    ASSUME IInv, [Next]_allVars
    PROVE  IInv'
<1>1. TypeOK /\ TypeOK' /\ (alive => Owing)
  BY TypeStep DEF IInv, Owing
<1>2. ASSUME UNCHANGED <<setup, actual, events, stack, astray, alive, mirror, vars, missed>>,
             stack = <<>> \/ UNCHANGED allVars
      PROVE  alive' => Owing'
  <2>1. vars' = vars /\ mirror' = mirror /\ conf' = conf /\ overridden' = overridden
        /\ rules' = rules
    BY <1>2 DEF setup, rules
  <2>2. ASSUME NEW i, Needs(i)'
        PROVE  Needs(i)
    <3>1. WrongVariable(i)' => WrongVariable(i)
      BY <1>2, <2>1, SameRule DEF WrongVariable
    <3>2. WrongOutput(i)' => WrongOutput(i)
      BY <1>2, <2>1, SameRule DEF WrongOutput
    <3> QED BY <1>2, <2>1, <2>2, <3>1, <3>2, SameRule DEF Needs
  <2>3. ASSUME NEW i, Due(i)
        PROVE  Due(i)'
    BY <1>2, <2>1, <2>3, SameRule DEF Due, DueAt
  <2>4. ASSUME NEW k \in DOMAIN stack, LeftOf(k)
        PROVE  LeftOf(k)'
    <3>1. Fired(rules[stack[k].rule - 1])' = Fired(rules[stack[k].rule - 1])
      BY <1>2, <2>1 DEF Fired, Decisive, Eval, VarValues
    <3>2. Assignments(rules[stack[k].rule - 1])' = Assignments(rules[stack[k].rule - 1])
      BY <1>2, <2>1 DEF Assignments
    <3> QED BY <1>2, <2>1, <2>4, <3>1, <3>2 DEF LeftOf
  <2> QED BY <1>1, <1>2, <2>1, <2>2, <2>3, <2>4 DEF Owing, OwedOK, LeftOK
<1>3. ASSUME NEW id \in Debuggable, AddPoint(id) \/ RemovePoint(id)
      PROVE  alive' => Owing'
  BY <1>2, <1>3 DEF AddPoint, RemovePoint, Idle
<1>4. ASSUME Continue
      PROVE  alive' => Owing'
  BY <1>2, <1>4 DEF Continue, Idle
<1>5. ASSUME UNCHANGED allVars
      PROVE  alive' => Owing'
  BY <1>2, <1>5 DEF allVars, coreVars
<1>6. ASSUME PassStep
      PROVE  alive' => Owing'
  BY <1>1, <1>6, ConsiderOwing, SetOutputOwing, SetVariableOwing, SetNothingOwing, EndPassOwing
     DEF PassStep
<1>7. ASSUME OnChange
      PROVE  alive' => Owing'
  BY <1>1, <1>7, OnChangeOwing
<1>8. ASSUME NEW p \in Points, NEW v \in Values, PointChanges(p, v)
      PROVE  alive' => Owing'
  BY <1>1, <1>8, PointChangesOwing
<1>9. ASSUME NEW p \in Points, PeerReady(p) \/ PeerLost(p)
      PROVE  alive' => Owing'
  BY <1>1, <1>9, PeerReadyOwing, PeerLostOwing
<1>10. alive' => Owing'
  BY <1>3, <1>4, <1>5, <1>6, <1>7, <1>8, <1>9 DEF Next
<1> QED BY <1>1, <1>10 DEF IInv, Owing

(* Every variable of the engine keeps its type, whatever rules and peers there are:
   the mirror has values or nothing, the queue has changes of present points only,
   the stack has passes over the rules of the file in use (engine.c, main.c). *)
THEOREM TypeOKHolds == Spec => []TypeOK
<1>1. IInv => TypeOK
  BY DEF IInv
<1> QED BY <1>1, InitInv, InvStep, PTL DEF Spec

(* Between two callbacks a variable that one label block decides has the expression of
   the block's first true entry, for any rules that the parser makes, those with
   feedback among them (engine.c:454, var.c:100). *)
THEOREM VariablesSettledHolds == Spec => []VariablesSettled
<1>1. IInv => VariablesSettled
  <2> SUFFICES ASSUME IInv, Idle, NEW i \in Settled(Vars)
               PROVE  vars[rules[i].target] = Given(i)
    BY DEF VariablesSettled
  <2>1. OwedOK /\ ~Due(i)
    BY DEF IInv, Idle, Due
  <2>2. /\ i \in DOMAIN rules /\ Sole(i) /\ rules[i].target \in Vars \ missed
        /\ missed \cap ({None} \cup Deps(rules[i])) = {} /\ Fired(rules[i]) # <<>>
    BY DEF Settled, Sole, Deps
  <2> QED BY <2>1, <2>2 DEF OwedOK, Needs, WrongVariable
<1> QED BY <1>1, InitInv, InvStep, PTL DEF Spec

(* The same for the outputs, in the services themselves, unless an operator changed
   the output, the call failed, or the mirror had the value already when the service
   had not (engine.c:225). *)
THEOREM OutputsSettledHolds == Spec => []OutputsSettled
<1>1. IInv => OutputsSettled
  <2> DEFINE O == {o \in Outputs \ overridden : astray[o] = "no"}
  <2> SUFFICES ASSUME IInv, Idle, NEW i \in Settled(O \cap Present),
                      Eval(Given(i)) \notin {Undefined, Endless}
               PROVE  actual[rules[i].target] = Eval(Given(i))
    BY DEF OutputsSettled, OutputsAre
  <2>1. OwedOK /\ ~Due(i)
    BY DEF IInv, Idle, Due
  <2>2. /\ i \in DOMAIN rules /\ Sole(i) /\ rules[i].target \in O \cap Present
        /\ rules[i].target \notin missed
        /\ missed \cap ({None} \cup Deps(rules[i])) = {} /\ Fired(rules[i]) # <<>>
    BY DEF Settled, Sole, Deps
  <2> QED BY <2>1, <2>2 DEF OwedOK, Needs, WrongOutput
<1> QED BY <1>1, InitInv, InvStep, PTL DEF Spec

-----------------------------------------------------------------------------
(***************************************************************************)
(* Rules without feedback                                                  *)
(***************************************************************************)

\* An order of the variables that the rules, and the variables as they begin, follow.
Ranks(rank) ==
    /\ \A i \in DOMAIN rules : \A v \in Targets(rules[i]) \cap Vars :
          \A u \in Mentions(rules[i]) \cap Vars : rank[u] < rank[v]
    /\ Ordered(rank, conf.vars)

\* Where id is in the order: what is no variable comes first of all.
Place(rank, id) == IF id \in Vars THEN rank[id] ELSE 0

\* An assignment in a pass for id goes to a variable after id, and after what the
\* variable will refer to.
Onward(rank, id, a) ==
    a.target \in Vars =>
        /\ Place(rank, id) < rank[a.target]
        /\ a.rval.ref \in Vars => rank[a.rval.ref] < rank[a.target]

\* Each pass is for a variable further on in the order than the pass it came up in.
Climbs(rank, k) ==
    /\ k - 1 <= Place(rank, stack[k].id)
    /\ \A j \in DOMAIN stack[k].left : Onward(rank, stack[k].id, stack[k].left[j])

Tame(rank) == alive /\ Ordered(rank, vars) /\ \A k \in DOMAIN stack : Climbs(rank, k)

TameInv == \A rank \in [Vars -> 1 .. Depth] : Ranks(rank) => Tame(rank)

\* With variables in order every expression comes to an end.
LEMMA NoEndless ==
    ASSUME TypeOK, NEW rank \in [Vars -> 1 .. Depth], Ordered(rank, vars),
           NEW e \in Expressions
    PROVE  Eval(e) # Endless
<1>1. vars \in Expressible /\ mirror \in Mirrors
  BY DEF TypeOK, Expressible, Mirrors
<1>2. \A v \in Vars : VarValues[v] \in Int \cup {Undefined}
  BY <1>1, OrderedChainEnds DEF VarValues, Depth
<1>3. Eval(e) \in Int \cup {Undefined}
  BY <1>1, <1>2, ValueEnds DEF Eval
<1> QED BY <1>3, EngineAssumption

\* What a rule assigns when it concerns id goes onward.
LEMMA FiredOnward ==
    ASSUME TypeOK, NEW rank \in [Vars -> 1 .. Depth], Ranks(rank), Ordered(rank, vars),
           NEW i \in DOMAIN rules, NEW id \in Ids \cup {None}, Concerns(rules[i], id)
    PROVE  \A j \in DOMAIN Fired(rules[i]) : Onward(rank, id, Fired(rules[i])[j])
<1> DEFINE rule == rules[i]
<1>1. rule \in Rules
  BY RulesTyped
<1> SUFFICES ASSUME NEW j \in DOMAIN Fired(rule), Fired(rule)[j].target \in Vars
             PROVE  Onward(rank, id, Fired(rule)[j])
  BY DEF Onward
<1> DEFINE a == Fired(rule)[j]
<1>2. a \in Assignments(rule)
  BY <1>1, FiredTyped
<1>3. a.target \in Targets(rule) \cap Vars
  BY <1>1, <1>2, AssignmentTargets
<1>4. a.rval \in ExprSet(rule)
  <2>1. CASE rule.kind = "label"
    BY <1>1, <1>2, <2>1, LabelExprs DEF Assignments, Set
  <2>2. CASE rule.kind = "trigger"
    BY <1>1, <1>2, <2>2, TriggerExprs DEF Assignments
  <2> QED BY <1>1, <2>1, <2>2, RuleKinds
<1>5. \A u \in Mentions(rule) \cap Vars : rank[u] < rank[a.target]
  BY <1>3 DEF Ranks
<1>6. \A e \in ExprSet(rule) : e.ref \in Mentions(rule)
  BY DEF ExprSet, Mentions
<1>7. \A u \in Vars : rank[u] \in 1 .. Depth
  OBVIOUS
<1>8. CASE id \notin Vars
  <2>1. 0 < rank[a.target]
    BY <1>3, <1>7
  <2> QED BY <1>4, <1>5, <1>6, <1>8, <2>1 DEF Onward, Place
<1>9. CASE id \in Vars
  <2>1. id # None
    BY <1>9, EngineAssumption
  <2>2. PICK e \in ExprSet(rule) : id \in RefsOf(e)
    <3>1. EndsSearch(rule, id) # {} /\ id \in RefsOf(Exprs(rule)[First(EndsSearch(rule, id))])
      BY <2>1 DEF Concerns
    <3>2. /\ EndsSearch(rule, id) \in SUBSET Nat
          /\ EndsSearch(rule, id) \subseteq DOMAIN Exprs(rule)
      BY <1>1, RuleKinds, LabelExprs, TriggerExprs DEF EndsSearch
    <3> QED BY <3>1, <3>2, FirstIsLeast DEF ExprSet
  <2>3. e.ref \in Mentions(rule)
    BY <1>6
  <2>4. rank[id] < rank[a.target]
    <3>1. CASE id = e.ref
      BY <1>5, <1>9, <2>3, <3>1
    <3>2. CASE e.ref \in Vars /\ id \in Reach(vars)[Depth][e.ref]
      <4>1. rank[id] < rank[e.ref]
        BY <1>9, <3>2, OrderedReach
      <4>2. rank[e.ref] < rank[a.target]
        BY <1>5, <2>3, <3>2
      <4>3. rank[id] \in Int /\ rank[e.ref] \in Int /\ rank[a.target] \in Int
        BY <1>3, <1>7, <1>9, <3>2, DepthNat
      <4> QED BY <4>1, <4>2, <4>3
    <3> QED BY <2>2, <3>1, <3>2 DEF RefsOf, RefsVia, Depth
  <2> QED BY <1>4, <1>5, <1>6, <1>9, <2>4 DEF Onward, Place
<1> QED BY <1>8, <1>9

\* Neither the search for an id nor an evaluation recurs without end.
LEMMA NoOverflow ==
    ASSUME TypeOK, NEW rank \in [Vars -> 1 .. Depth], Ordered(rank, vars),
           NEW rule \in Rules, NEW id
    PROVE  ~Overflows(rule, id)
<1>1. \A e \in ExprSet(rule) : Eval(e) # Endless
  BY RuleKinds, LabelExprs, TriggerExprs, NoEndless
<1>2. Conditions(rule) \subseteq ExprSet(rule)
  <2>1. CASE rule.kind = "label"
    BY <2>1, LabelExprs DEF Conditions
  <2>2. CASE rule.kind = "trigger"
    BY <2>2, TriggerExprs DEF Conditions
  <2> QED BY <2>1, <2>2, RuleKinds
<1>3. EndsSearch(rule, id) # {} => Concerns(rule, id)
  <2>1. EndsSearch(rule, id) \in SUBSET Nat
    BY RuleKinds, LabelExprs, TriggerExprs DEF EndsSearch
  <2>2. \A k \in EndsSearch(rule, id) : id \in RefsOf(Exprs(rule)[k])
    BY <1>1 DEF EndsSearch, ExprSet
  <2> QED BY <2>1, <2>2, FirstIsLeast DEF Concerns
<1> QED BY <1>1, <1>2, <1>3 DEF Overflows

\* The passes after an assignment, the new one apart, are where they were.
LEMMA AssignedClimbs ==
    ASSUME TypeOK, NEW rank, Tame(rank), stack # <<>>, Top.left # <<>>, AssignedOn(stack'),
           NEW k, k \in 1 .. Len(stack)
    PROVE  Climbs(rank, k)'
<1>1. /\ stack \in Seq(Passes) /\ Len(stack) \in Nat /\ Len(stack) >= 1
      /\ DOMAIN stack = 1 .. Len(stack) /\ Top \in Passes /\ Top = stack[Len(stack)]
  BY TopTyped
<1>2. Climbs(rank, k)
  BY <1>1 DEF Tame
<1>3. CASE k < Len(stack)
  <2>1. stack'[k] = stack[k]
    BY <1>1, <1>3 DEF AssignedOn
  <2> QED BY <1>2, <2>1 DEF Climbs
<1>4. CASE k = Len(stack)
  <2>1. stack'[k].id = Top.id /\ stack'[k].left = Tail(Top.left)
    BY <1>1, <1>4 DEF AssignedOn, Passes
  <2>2. Top.left \in Seq([target : Ids, rval : Expressions])
    BY <1>1 DEF Passes
  <2>3. \A j \in DOMAIN Tail(Top.left) : j + 1 \in DOMAIN Top.left
                                         /\ Tail(Top.left)[j] = Top.left[j + 1]
    BY <2>2
  <2>4. \A j \in DOMAIN stack'[k].left : Onward(rank, stack'[k].id, stack'[k].left[j])
    <3>1. \A j \in DOMAIN Top.left : Onward(rank, Top.id, Top.left[j])
      BY <1>1, <1>2, <1>4 DEF Climbs
    <3> QED BY <2>1, <2>3, <3>1
  <2>5. k - 1 <= Place(rank, stack'[k].id)
    BY <1>1, <1>2, <1>4, <2>1 DEF Climbs
  <2> QED BY <2>4, <2>5 DEF Climbs, Onward, Place
<1>5. k < Len(stack) \/ k = Len(stack)
  <2>1. PICK n \in Nat : n = Len(stack)
    BY <1>1
  <2>2. k \in 1 .. n
    BY <2>1
  <2> QED BY <2>1, <2>2
<1> QED BY <1>3, <1>4, <1>5

LEMMA TameConsider ==
    ASSUME TypeOK, NEW rank \in [Vars -> 1 .. Depth], Ranks(rank), Tame(rank), ConsiderRule
    PROVE  Tame(rank)'
<1> DEFINE left == IF Concerns(rules[Top.rule], Top.id) THEN Fired(rules[Top.rule]) ELSE <<>>
<1>1. PICK n \in Nat : /\ n = Len(stack) /\ n >= 1 /\ DOMAIN stack = 1 .. n
                       /\ stack \in Seq(Passes) /\ Top \in Passes /\ Top = stack[n]
  BY TopTyped DEF ConsiderRule
<1>2. PICK q \in DOMAIN rules : q = Top.rule /\ rules[q] \in Rules
  BY <1>1, RulesTyped DEF ConsiderRule, Passes
<1>3. ~Overflows(rules[q], Top.id)
  BY <1>2, NoOverflow DEF Tame
<1>4. /\ UNCHANGED <<actual, events, astray, coreVars>>
      /\ stack' = Append(Below, [Top EXCEPT !.rule = @ + 1, !.left = left])
  BY <1>2, <1>3 DEF ConsiderRule
<1>5. PICK t : t = [Top EXCEPT !.rule = @ + 1, !.left = left]
  OBVIOUS
<1>6. t.id = Top.id /\ t.left = left
  <2>1. DOMAIN Top = {"id", "rule", "left"}
    BY <1>1 DEF Passes
  <2> HIDE DEF left
  <2> QED BY <1>5, <2>1
<1>7. /\ DOMAIN stack' = 1 .. n /\ stack'[n] = t
      /\ \A k \in 1 .. n - 1 : stack'[k] = stack[k]
  <2>1. PICK T : T = Passes \cup {t}
    OBVIOUS
  <2>2. stack \in Seq(T) /\ t \in T
    BY <1>1, <2>1, SeqOfMore
  <2> QED BY <1>5, <1>1, <1>4, <2>2, OnTop DEF Below
<1>8. \A j \in DOMAIN left : Onward(rank, Top.id, left[j])
  <2>1. CASE Concerns(rules[q], Top.id)
    <3>1. Top.id \in Ids \cup {None}
      BY <1>1 DEF Passes
    <3>2. left = Fired(rules[q])
      BY <1>2, <2>1
    <3> HIDE DEF left
    <3> QED BY <2>1, <3>1, <3>2, FiredOnward DEF Tame
  <2>2. CASE ~Concerns(rules[q], Top.id)
    BY <1>2, <2>2
  <2> QED BY <2>1, <2>2
<1>9. ASSUME NEW k \in 1 .. n
      PROVE  Climbs(rank, k)'
  <2>1. Climbs(rank, k)
    BY <1>1 DEF Tame
  <2>2. CASE k # n
    BY <1>7, <2>1, <2>2 DEF Climbs
  <2>3. CASE k = n
    <3>1. stack'[k].id = Top.id /\ stack'[k].left = left /\ stack[k].id = Top.id
      BY <1>1, <1>6, <1>7, <2>3
    <3> HIDE DEF left
    <3>2. \A j \in DOMAIN stack'[k].left : Onward(rank, stack'[k].id, stack'[k].left[j])
      BY <1>8, <3>1
    <3>3. k - 1 <= Place(rank, stack'[k].id)
      BY <2>1, <3>1 DEF Climbs
    <3> QED BY <3>2, <3>3 DEF Climbs, Onward, Place
  <2> QED BY <2>2, <2>3
<1>10. alive' /\ Ordered(rank, vars)'
  BY <1>4 DEF Tame, coreVars, Ordered
<1> QED BY <1>7, <1>9, <1>10 DEF Tame

LEMMA TameAssigns ==
    ASSUME TypeOK, NEW rank, Tame(rank), stack # <<>>, Top.left # <<>>, stack' = Assigned,
           UNCHANGED coreVars
    PROVE  Tame(rank)'
<1>1. AssignedOn(stack')
  BY AssignedIsOn
<1>2. DOMAIN stack' = 1 .. Len(stack)
  BY TopTyped, OnTop DEF Assigned, Below
<1>3. \A k \in DOMAIN stack' : Climbs(rank, k)'
  BY <1>1, <1>2, AssignedClimbs
<1>4. alive' /\ Ordered(rank, vars)'
  BY DEF Tame, coreVars, Ordered
<1> QED BY <1>3, <1>4 DEF Tame

LEMMA TameSetOutput ==
    ASSUME TypeOK, NEW rank \in [Vars -> 1 .. Depth], Tame(rank),
           NEW o \in Outputs, SetOutput(o)
    PROVE  Tame(rank)'
<1>1. stack # <<>> /\ Top.left # <<>>
  BY DEF SetOutput, Assigning
<1>2. Eval(Head(Top.left).rval) # Endless
  BY <1>1, TopTyped, NoEndless DEF Tame
<1>3. stack' = Assigned /\ UNCHANGED coreVars
  BY <1>2 DEF SetOutput
<1> QED BY <1>1, <1>3, TameAssigns

LEMMA TameSetVariable ==
    ASSUME TypeOK, TypeOK', NEW rank \in [Vars -> 1 .. Depth], Tame(rank), NEW v \in Vars,
           SetVariable(v), Depth < MaxDepth
    PROVE  Tame(rank)'
<1> DEFINE rval == Head(Top.left).rval
<1>1. /\ stack # <<>> /\ Top.left # <<>> /\ Head(Top.left).target = v
  BY DEF SetVariable, Assigning
<1>2. CASE HasAlready(v, rval)
  <2>1. stack' = Assigned /\ UNCHANGED coreVars
    BY <1>2 DEF SetVariable
  <2> QED BY <1>1, <2>1, TameAssigns
<1>3. CASE ~HasAlready(v, rval)
  <2>1. PICK n \in Nat : /\ n = Len(stack) /\ n >= 1 /\ DOMAIN stack = 1 .. n
                         /\ stack \in Seq(Passes) /\ Top \in Passes /\ Top = stack[n]
    BY <1>1, TopTyped
  <2>2. vars' = [vars EXCEPT ![v] = rval]
    BY <1>3 DEF SetVariable
  <2>3. Onward(rank, Top.id, Head(Top.left)) /\ n - 1 <= Place(rank, Top.id)
    <3>1. Climbs(rank, n)
      BY <2>1 DEF Tame
    <3>2. Top.left \in Seq([target : Ids, rval : Expressions])
      BY <2>1 DEF Passes
    <3>3. 1 \in DOMAIN Top.left /\ Head(Top.left) = Top.left[1]
      BY <1>1, <3>2
    <3> QED BY <2>1, <3>1, <3>3 DEF Climbs
  <2>4. /\ Place(rank, Top.id) < rank[v]
        /\ rval.ref \in Vars => rank[rval.ref] < rank[v]
    BY <1>1, <2>3 DEF Onward
  <2>5. Ordered(rank, vars)'
    <3> HIDE DEF rval
    <3> QED BY <2>2, <2>4 DEF Tame, Ordered, TypeOK
  <2>6. VarValues'[v] # Endless
    <3>1. PICK ws, w : ws = vars' /\ w = mirror'
      OBVIOUS
    <3>2. ws \in Expressible /\ w \in Mirrors /\ Ordered(rank, ws)
      BY <2>5, <3>1 DEF TypeOK, Expressible, Mirrors, Ordered
    <3>3. Chain(ws, w)[Depth][v] \in Int \cup {Undefined}
      BY <3>2, OrderedChainEnds
    <3>4. VarValues' = Chain(ws, w)[Depth]
      BY <3>1 DEF VarValues, Depth
    <3> QED BY <3>3, <3>4, EngineAssumption
  <2>7. n <= rank[v] /\ rank[v] <= Depth /\ n # MaxDepth
    <3>1. rank[v] \in 1 .. Depth /\ Depth \in Nat /\ MaxDepth \in Nat
      BY DepthNat, EngineAssumption
    <3>2. Place(rank, Top.id) \in Int
      BY DepthNat DEF Place
    <3> QED BY <2>3, <2>4, <3>1, <3>2
  <2>8. Notice(v, Assigned) /\ UNCHANGED alive
    BY <1>3, <2>1, <2>6, <2>7 DEF SetVariable
  <2>9. AssignedOn(stack')
    BY <1>1, <2>8, AssignedIsOn DEF Notice
  <2>10. /\ DOMAIN stack' \subseteq 1 .. n + 1
         /\ n + 1 \in DOMAIN stack' => stack'[n + 1] = Pass(v)
    <3>1. /\ DOMAIN Assigned = 1 .. n /\ Assigned \in Seq(Passes) /\ Len(Assigned) = n
      BY <1>1, <2>1, TopTyped, OnTop DEF Assigned, Below
    <3>2. CASE stack' = Assigned
      BY <3>1, <3>2
    <3>3. CASE stack' = Append(Assigned, Pass(v))
      <4>1. stack'[n + 1] = Pass(v)
        BY <1>1, <2>1, <3>3, AssignedIsOn
      <4>2. PICK a : a = Assigned
        OBVIOUS
      <4>3. DOMAIN Append(a, Pass(v)) = 1 .. n + 1
        BY <3>1, <4>2
      <4> QED BY <3>3, <4>1, <4>2, <4>3
    <3> QED BY <2>8, <3>2, <3>3 DEF Notice
  <2>11. ASSUME NEW k \in DOMAIN stack'
         PROVE  Climbs(rank, k)'
    <3>1. CASE k \in 1 .. n
      BY <1>1, <2>1, <2>9, <3>1, AssignedClimbs
    <3>2. CASE k = n + 1
      <4>1. stack'[k].id = v /\ stack'[k].left = <<>>
        BY <2>10, <3>2 DEF Pass
      <4>2. k - 1 <= Place(rank, stack'[k].id)
        BY <2>7, <3>2, <4>1 DEF Place
      <4> QED BY <4>1, <4>2 DEF Climbs, Place
    <3> QED BY <2>1, <2>10, <3>1, <3>2
  <2> QED BY <2>5, <2>8, <2>11 DEF Tame
<1> QED BY <1>2, <1>3

LEMMA TameNothing ==
    ASSUME TypeOK, NEW rank, Tame(rank), NEW id \in Points, SetNothing(id)
    PROVE  Tame(rank)'
<1>1. stack # <<>> /\ Top.left # <<>> /\ stack' = Assigned /\ UNCHANGED coreVars
  BY DEF SetNothing, Assigning
<1> QED BY <1>1, TameAssigns

LEMMA TameEndPass ==
    ASSUME TypeOK, NEW rank, Tame(rank), EndPass
    PROVE  Tame(rank)'
<1>1. stack # <<>> /\ stack' = Below /\ UNCHANGED coreVars
  BY DEF EndPass
<1>2. DOMAIN stack' \subseteq DOMAIN stack /\ \A k \in DOMAIN stack' : stack'[k] = stack[k]
  BY <1>1, TopTyped
<1>3. \A k \in DOMAIN stack' : Climbs(rank, k)'
  BY <1>2 DEF Tame, Climbs
<1>4. alive' /\ Ordered(rank, vars)'
  BY <1>1 DEF Tame, coreVars, Ordered
<1> QED BY <1>3, <1>4 DEF Tame

\* Callbacks: at most one pass begins, and no variable changes.
LEMMA TameCallback ==
    ASSUME TypeOK, NEW rank \in [Vars -> 1 .. Depth], Tame(rank), alive' = alive, vars' = vars,
           NEW id, stack' \in {<<>>, stack, <<Pass(id)>>}
    PROVE  Tame(rank)'
<1>1. alive' /\ Ordered(rank, vars)'
  BY DEF Tame, Ordered
<1>2. ASSUME NEW k \in DOMAIN stack'
      PROVE  Climbs(rank, k)'
  <2>1. CASE stack' = <<>>
    BY <2>1
  <2>2. CASE stack' = stack
    BY <2>2 DEF Tame, Climbs
  <2>3. CASE stack' = <<Pass(id)>>
    <3>1. k = 1 /\ stack'[k] = Pass(id)
      BY <2>3
    <3>2. stack'[k].id = id /\ stack'[k].left = <<>>
      BY <3>1 DEF Pass
    <3>3. k - 1 <= Place(rank, stack'[k].id)
      <4>1. id \in Vars => rank[id] \in 1 .. Depth
        OBVIOUS
      <4> QED BY <3>1, <3>2, <4>1, DepthNat DEF Place
    <3> QED BY <3>2, <3>3 DEF Climbs, Place
  <2> QED BY <2>1, <2>2, <2>3
<1> QED BY <1>1, <1>2 DEF Tame

LEMMA TameInit ==
    ASSUME Init
    PROVE  TameInv
BY DEF Init, TameInv, Tame, Ranks

\* Every step keeps to the order.
LEMMA TameStep ==
    ASSUME TypeOK, TypeOK', Depth < MaxDepth, TameInv, [Next]_allVars
    PROVE  TameInv'
<1>1. conf' = conf
  BY DEF Next, PassStep, ConsiderRule, Dies, SetOutput, SetVariable, SetNothing, EndPass,
         PointChanges, OnChange, PeerReady, PeerLost, AddPoint, RemovePoint, Continue,
         allVars, coreVars, setup
<1> SUFFICES ASSUME NEW rank \in [Vars -> 1 .. Depth], Ranks(rank)
             PROVE  Tame(rank)'
  <2>1. \A rank : Ranks(rank)' = Ranks(rank)
    <3>1. rules' = rules
      BY <1>1 DEF rules
    <3> QED BY <1>1, <3>1 DEF Ranks, Ordered, Targets, Mentions, Exprs
  <2> QED BY <2>1 DEF TameInv
<1>2. Tame(rank)
  BY DEF TameInv
<1>3. CASE PassStep
  BY <1>2, <1>3, TameConsider, TameSetOutput, TameSetVariable, TameNothing, TameEndPass
     DEF PassStep
<1>4. CASE OnChange
  <2>1. PICK id : Notice(id, <<>>) /\ alive' = alive /\ vars' = vars
    BY <1>4 DEF OnChange
  <2>2. stack' \in {<<>>, stack, <<Pass(id)>>}
    BY <2>1 DEF Notice
  <2> QED BY <1>2, <2>1, <2>2, TameCallback
<1>5. ASSUME NEW p \in Points, PeerReady(p)
      PROVE  Tame(rank)'
  <2>1. stack' \in {<<>>, stack, <<Pass(None)>>} /\ alive' = alive /\ vars' = vars
    BY <1>5 DEF PeerReady
  <2> QED BY <1>2, <2>1, TameCallback
<1>6. ASSUME stack' = stack, alive' = alive, vars' = vars
      PROVE  Tame(rank)'
  BY <1>2, <1>6, TameCallback
<1>7. ASSUME NEW p \in Points, NEW v \in Values, PointChanges(p, v)
      PROVE  Tame(rank)'
  BY <1>6, <1>7 DEF PointChanges, coreVars
<1>8. ASSUME NEW p \in Points, PeerLost(p)
      PROVE  Tame(rank)'
  BY <1>6, <1>8 DEF PeerLost
<1>9. ASSUME NEW id \in Debuggable, AddPoint(id) \/ RemovePoint(id)
      PROVE  Tame(rank)'
  BY <1>6, <1>9 DEF AddPoint, RemovePoint
<1>10. ASSUME Continue \/ UNCHANGED allVars
       PROVE  Tame(rank)'
  BY <1>6, <1>10 DEF Continue, allVars, coreVars
<1> QED BY <1>3, <1>4, <1>5, <1>7, <1>8, <1>9, <1>10 DEF Next

(* Rules without feedback cannot exhaust the stack of the process, when it has room
   for a pass for each variable and the one that begins it: neither a pass nor an
   evaluation goes round in a circle (engine.c:291, main.c:208, expr.c:254).  The
   condition is on the process, whose stack the code does not bound. *)
THEOREM FeedbackFreeSurvivesHolds ==
    ASSUME Cardinality(Vars) < MaxDepth
    PROVE  Spec => []FeedbackFreeSurvives
<1>1. Init => TypeOK /\ TameInv
  BY InitTyped, TameInit
<1>2. TypeOK /\ TameInv /\ [Next]_allVars => (TypeOK /\ TameInv)'
  BY TypeStep, TameStep DEF Depth
<1>3. TypeOK /\ TameInv => FeedbackFreeSurvives
  <2> SUFFICES ASSUME TypeOK, TameInv, NEW rank \in [Vars -> 1 .. Depth], Ranks(rank)
               PROVE  alive /\ Len(stack) <= Depth + 1
    BY DEF FeedbackFreeSurvives, FeedbackFree, Ranks, Ordered, Depth
  <2>1. Tame(rank)
    BY DEF TameInv
  <2>2. PICK n \in Nat : n = Len(stack) /\ DOMAIN stack = 1 .. n
    BY DEF TypeOK
  <2>3. CASE n = 0
    BY <2>1, <2>2, <2>3, DepthNat DEF Tame
  <2>4. CASE n # 0
    <3>1. Climbs(rank, n)
      BY <2>1, <2>2, <2>4 DEF Tame
    <3>2. Place(rank, stack[n].id) \in 0 .. Depth
      <4>1. \A id \in Vars : rank[id] \in 1 .. Depth
        OBVIOUS
      <4> QED BY <4>1, DepthNat DEF Place
    <3> QED BY <2>1, <2>2, <3>1, <3>2, DepthNat DEF Climbs, Tame
  <2> QED BY <2>3, <2>4
<1> QED BY <1>1, <1>2, <1>3, PTL DEF Spec

-----------------------------------------------------------------------------
(***************************************************************************)
(* The end of the passes                                                   *)
(***************************************************************************)

\* The pass p is as q is, but with less to do: a later rule, or fewer assignments
\* left of the rule before it.
FurtherOn(p, q) ==
    \/ q.rule < p.rule
    \/ p.rule = q.rule /\ Len(p.left) < Len(q.left)

\* Some pass gets further on or ends; those it came up in stay, those within it
\* matter no more.
Descends ==
    \E k \in DOMAIN stack :
        /\ \A j \in 1 .. k - 1 : j \in DOMAIN stack' /\ stack'[j] = stack[j]
        /\ k \in DOMAIN stack' => FurtherOn(stack'[k], stack[k])

\* The rule and the assignments of a pass are within bounds.
LEMMA PassBounds ==
    ASSUME NEW q \in Passes
    PROVE  /\ q.rule \in 1 .. Len(rules) + 1 /\ Len(q.left) \in Nat
           /\ q.left # <<>> => Len(Tail(q.left)) < Len(q.left)
<1>1. q.rule \in 1 .. Len(rules) + 1 /\ q.left \in Seq([target : Ids, rval : Expressions])
  BY DEF Passes
<1>2. ASSUME q.left # <<>>
      PROVE  Len(Tail(q.left)) < Len(q.left)
  <2>1. Len(q.left) \in Nat /\ Len(Tail(q.left)) = Len(q.left) - 1
    BY <1>1, <1>2, HeadTailProperties, LenProperties
  <2> QED BY <2>1
<1> QED BY <1>1, <1>2, LenProperties

\* An assignment done leaves one less, whether a pass comes up in it or not.
LEMMA AssignedDescends ==
    ASSUME TypeOK, stack # <<>>, Top.left # <<>>, AssignedOn(stack')
    PROVE  Descends
<1>1. PICK n \in Nat : /\ n = Len(stack) /\ n >= 1 /\ DOMAIN stack = 1 .. n
                       /\ Top \in Passes /\ Top = stack[n]
  BY TopTyped
<1>2. \A j \in 1 .. n - 1 : j \in DOMAIN stack' /\ stack'[j] = stack[j]
  BY <1>1 DEF AssignedOn
<1>3. stack'[n].rule = stack[n].rule /\ stack'[n].left = Tail(stack[n].left)
  BY <1>1 DEF AssignedOn, Passes
<1>4. FurtherOn(stack'[n], stack[n])
  BY <1>1, <1>3, PassBounds DEF FurtherOn
<1>5. n \in DOMAIN stack
  BY <1>1
<1> QED BY <1>2, <1>4, <1>5 DEF Descends

\* A rule considered is behind the pass.
LEMMA ConsiderDescends ==
    ASSUME TypeOK, ConsiderRule
    PROVE  Descends \/ ~alive'
<1> DEFINE left == IF Concerns(rules[Top.rule], Top.id) THEN Fired(rules[Top.rule]) ELSE <<>>
<1>1. PICK n \in Nat : /\ n = Len(stack) /\ n >= 1 /\ DOMAIN stack = 1 .. n
                       /\ stack \in Seq(Passes) /\ Top \in Passes /\ Top = stack[n]
                       /\ stack # <<>>
  BY TopTyped DEF ConsiderRule
<1>2. CASE Dies
  BY <1>2 DEF Dies
<1>3. PICK t : t = [Top EXCEPT !.rule = @ + 1, !.left = left]
  OBVIOUS
<1>4. CASE stack' = Append(Below, t)
  <2>1. t.rule = Top.rule + 1
    <3> HIDE DEF left
    <3> QED BY <1>1, <1>3 DEF Passes
  <2>2. PICK T : T = Passes \cup {t}
    OBVIOUS
  <2>3. stack \in Seq(T) /\ t \in T
    BY <1>1, <2>2, SeqOfMore
  <2>4. /\ DOMAIN stack' = 1 .. n /\ stack'[n] = t
        /\ \A k \in 1 .. n - 1 : stack'[k] = stack[k]
    BY <1>1, <1>4, <2>3, OnTop DEF Below
  <2>5. Top.rule \in Int
    BY <1>1, RulesTyped DEF Passes
  <2>6. FurtherOn(stack'[n], stack[n])
    BY <1>1, <2>1, <2>4, <2>5 DEF FurtherOn
  <2>7. n \in DOMAIN stack /\ \A j \in 1 .. n - 1 : j \in DOMAIN stack'
    BY <1>1, <2>4
  <2> QED BY <2>4, <2>6, <2>7 DEF Descends
<1>5. Dies \/ stack' = Append(Below, t)
  BY <1>3 DEF ConsiderRule
<1> QED BY <1>2, <1>4, <1>5

\* A pass that ends leaves the others as they are.
LEMMA EndPassDescends ==
    ASSUME TypeOK, EndPass
    PROVE  Descends
<1>1. PICK n \in Nat : /\ n = Len(stack) /\ n >= 1 /\ DOMAIN stack = 1 .. n
                       /\ DOMAIN Below = 1 .. n - 1
                       /\ \A k \in 1 .. n - 1 : Below[k] = stack[k]
  BY TopTyped DEF EndPass
<1>2. stack' = Below
  BY DEF EndPass
<1>3. n \in DOMAIN stack /\ n \notin DOMAIN stack'
  BY <1>1, <1>2
<1>4. \A j \in 1 .. n - 1 : j \in DOMAIN stack' /\ stack'[j] = stack[j]
  BY <1>1, <1>2
<1> QED BY <1>3, <1>4 DEF Descends

\* Every step of a pass is one towards its end, or the end of the process.
LEMMA PassDescends ==
    ASSUME TypeOK, PassStep
    PROVE  Descends \/ ~alive'
<1>1. ASSUME stack # <<>>, Top.left # <<>>, stack' = Assigned
      PROVE  Descends
  BY <1>1, AssignedIsOn, AssignedDescends
<1>2. ASSUME NEW o \in Outputs, SetOutput(o)
      PROVE  Descends \/ ~alive'
  BY <1>1, <1>2 DEF SetOutput, Assigning, Dies
<1>3. ASSUME NEW v \in Vars, SetVariable(v)
      PROVE  Descends \/ ~alive'
  <2>1. stack # <<>> /\ Top.left # <<>>
    BY <1>3 DEF SetVariable, Assigning
  <2>2. \/ stack' = Assigned \/ ~alive'
        \/ Notice(v, Assigned)
    BY <1>3 DEF SetVariable
  <2>3. \/ stack' = Assigned \/ ~alive'
        \/ stack' = Append(Assigned, Pass(v))
    BY <2>2 DEF Notice
  <2>4. CASE stack' = Append(Assigned, Pass(v))
    BY <2>1, <2>4, AssignedIsOn, AssignedDescends
  <2> QED BY <1>1, <2>1, <2>3, <2>4
<1>4. ASSUME NEW id \in Points, SetNothing(id)
      PROVE  Descends
  BY <1>1, <1>4 DEF SetNothing, Assigning
<1> QED BY <1>2, <1>3, <1>4, ConsiderDescends, EndPassDescends DEF PassStep

\* What else happens meanwhile leaves the passes alone.
LEMMA OthersLeave ==
    ASSUME [Next]_allVars, stack # <<>>, ~PassStep
    PROVE  UNCHANGED stack
<1>1. ~Idle
  BY DEF Idle
<1>2. ~OnChange /\ ~Continue
  BY <1>1 DEF OnChange, Continue
<1>3. /\ \A p \in Points : ~PeerReady(p) /\ ~PeerLost(p)
      /\ \A id \in Debuggable : ~AddPoint(id) /\ ~RemovePoint(id)
  BY <1>1 DEF PeerReady, PeerLost, AddPoint, RemovePoint
<1>4. ASSUME NEW p \in Points, NEW v \in Values, PointChanges(p, v)
      PROVE  UNCHANGED stack
  BY <1>4 DEF PointChanges
<1>5. CASE UNCHANGED allVars
  BY <1>5 DEF allVars
<1> QED BY <1>2, <1>3, <1>4, <1>5 DEF Next

(* Part of the way to PassesEnd, for any rules, with or without feedback: while
   engine_apply runs, each of its steps gets some pass further on and keeps those
   the pass came up in, or is the last of the process; nothing else touches the
   passes, what the services report meanwhile waits for the main loop (engine.c:291). *)
THEOREM PassesDescendHolds ==
    Spec => [][stack # <<>> => IF PassStep THEN Descends \/ ~alive'
                               ELSE UNCHANGED stack]_allVars
<1>1. TypeOK /\ [Next]_allVars =>
         [stack # <<>> => IF PassStep THEN Descends \/ ~alive' ELSE UNCHANGED stack]_allVars
  BY PassDescends, OthersLeave
<1> QED BY <1>1, TypeOKHolds, PTL DEF Spec

(* The safety half of PassesEnd: with rules without feedback each step of a pass is
   a descent in the lexicographic order of stacks no higher than the variables allow,
   in which there is no endless descent, since a pass has so many rules before it
   and so many assignments left. *)
THEOREM FeedbackFreeDescendsHolds ==
    ASSUME Cardinality(Vars) < MaxDepth
    PROVE  Spec => [][FeedbackFree /\ PassStep =>
                         /\ Descends
                         /\ Len(stack) <= Cardinality(Vars) + 1
                         /\ Len(stack') <= Cardinality(Vars) + 1]_allVars
<1>1. TypeOK /\ FeedbackFreeSurvives /\ FeedbackFreeSurvives' /\ [Next]_allVars =>
         [FeedbackFree /\ PassStep =>
             /\ Descends
             /\ Len(stack) <= Cardinality(Vars) + 1
             /\ Len(stack') <= Cardinality(Vars) + 1]_allVars
  <2> SUFFICES ASSUME TypeOK, FeedbackFreeSurvives, FeedbackFreeSurvives', FeedbackFree, PassStep
               PROVE  /\ Descends
                      /\ Len(stack) <= Cardinality(Vars) + 1
                      /\ Len(stack') <= Cardinality(Vars) + 1
    OBVIOUS
  <2>1. conf' = conf
    <3>1. ConsiderRule \/ EndPass => conf' = conf
      BY DEF ConsiderRule, Dies, EndPass, coreVars, setup
    <3>2. \A o \in Outputs : SetOutput(o) => conf' = conf
      BY DEF SetOutput, Dies, coreVars, setup
    <3>3. \A v \in Vars : SetVariable(v) => conf' = conf
      BY DEF SetVariable, coreVars, setup
    <3>4. \A id \in Points : SetNothing(id) => conf' = conf
      BY DEF SetNothing, coreVars, setup
    <3> QED BY <3>1, <3>2, <3>3, <3>4 DEF PassStep
  <2>2. FeedbackFree'
    <3>1. rules' = rules
      BY <2>1 DEF rules
    <3>2. \A rank : Ranks(rank)' = Ranks(rank)
      BY <2>1, <3>1 DEF Ranks, Ordered, Targets, Mentions, Exprs
    <3>3. PICK rank \in [Vars -> 1 .. Cardinality(Vars)] : Ranks(rank)
      BY DEF FeedbackFree, Ranks, Ordered
    <3>4. Ranks(rank)'
      BY <3>2, <3>3
    <3> QED BY <3>4 DEF FeedbackFree, Ranks, Ordered
  <2>3. /\ Len(stack) <= Cardinality(Vars) + 1
        /\ Len(stack') <= Cardinality(Vars) + 1
        /\ alive'
    BY <2>2 DEF FeedbackFreeSurvives
  <2> QED BY <2>3, PassDescends
<1>2. Spec => []FeedbackFreeSurvives
  BY FeedbackFreeSurvivesHolds
<1> QED BY <1>1, <1>2, TypeOKHolds, PTL DEF Spec
=============================================================================
